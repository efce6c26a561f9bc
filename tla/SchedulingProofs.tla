-------------------------- MODULE SchedulingProofs --------------------------
(***************************************************************************)
(* The scheduler, the task executor and the cron expressions, for any      *)
(* tasks, callers, texts, calendars, jobs, slots and panicking runners.    *)
(***************************************************************************)
EXTENDS Scheduler, Executor, Cron, WellFoundedInduction, FiniteSetTheorems, TLAPS

-----------------------------------------------------------------------------
\* The scheduler: what is cancelled or removed stays so.

\* A set of numbers that is not empty has a least one.
LEMMA LeastOne ==
  ASSUME NEW S \in SUBSET Nat, S # {}
  PROVE  Min(S) \in S /\ \A n \in S : Min(S) <= n
<1>1. PICK x \in S : \A y \in S : <<y, x>> \notin OpToRel(<, Nat)
  BY NatLessThanWellFounded, WFMin, Zenon
<1>2. ASSUME NEW y \in S PROVE x <= y
  <2>1. <<y, x>> \in Nat \X Nat /\ <<y, x>>[1] = y /\ <<y, x>>[2] = x
    OBVIOUS
  <2>2. ~(<<y, x>>[1] < <<y, x>>[2])
    BY <1>1, <2>1, Zenon DEF OpToRel
  <2> QED BY <2>1, <2>2
<1> QED BY <1>1, <1>2 DEF Min

\* next_after() finds a minute the expression matches, later than the one it
\* started from, and the first of them; or none.
LEMMA NextIsFirst ==
  ASSUME NEW t \in Tasks, NEW minute \in Nat
  PROVE  \/ NextAfter(t, minute) = None
         \/ /\ NextAfter(t, minute) \in Fires[t] /\ minute < NextAfter(t, minute)
            /\ NextAfter(t, minute) \in 0..MaxClock
            /\ \A s \in Fires[t] : minute < s /\ s <= MaxClock => NextAfter(t, minute) <= s
<1> DEFINE later == {s \in Fires[t] : minute < s /\ s <= MaxClock}
<1>1. later \in SUBSET Nat /\ later \subseteq 0..MaxClock
  BY SchedulerAssumption
<1>2. CASE later = {}
  BY <1>2 DEF NextAfter
<1>3. CASE later # {}
  <2>1. Min(later) \in later /\ \A n \in later : Min(later) <= n
    BY <1>1, <1>3, LeastOne
  <2>2. NextAfter(t, minute) = Min(later)
    BY <1>3 DEF NextAfter
  <2> QED BY <1>1, <2>1, <2>2
<1> QED BY <1>2, <1>3

\* The next time of an expression is a time, or none.
LEMMA NextIsTyped ==
  ASSUME NEW t \in Tasks, NEW minute \in Nat
  PROVE  NextAfter(t, minute) \in 0..MaxClock \cup {None}
BY NextIsFirst

\* WithdrawalInv holds initially.
LEMMA WithdrawalInit == SchedulerInit => WithdrawalInv
<1> SUFFICES ASSUME SchedulerInit PROVE WithdrawalInv
  OBVIOUS
<1>1. DOMAIN << >> = {} /\ << >> \in [{} -> Run] /\ << >> \in [{} -> 0..MaxClock]
  OBVIOUS
<1>2. \A p \in Pollers : poll[p] = Idle
  BY DEF SchedulerInit
<1>3. /\ Idle.at = "idle" /\ Idle.due = << >> /\ Idle.task = None /\ Idle.stamp = None
      /\ DOMAIN Idle = PollFields
  BY DEF Idle, PollFields
<1>4. None \notin Tasks /\ 0 \in 0..MaxClock
  BY SchedulerAssumption DEF None
<1>5. SchedulerTypeOK
  BY <1>1, <1>2, <1>3, <1>4 DEF SchedulerInit, SchedulerTypeOK, Stored
<1> QED BY <1>1, <1>2, <1>3, <1>5 DEF SchedulerInit, WithdrawalInv, WithdrawalHolds, Stored

\* A step of the user's, which leaves the polls alone: a task moves between what
\* is held, what is in the map and what was removed.
LEMMA UserKeeps ==
  ASSUME WithdrawalInv, UNCHANGED <<clock, poll, quiet, ran>>,
         held' \in [DOMAIN held' -> Run], tasks' \in [Stored' -> Run],
         DOMAIN held' \cup Stored' \cup removed' \subseteq Tasks,
         Stored' \cap (DOMAIN held' \cup removed') = {}, DOMAIN held' \cap removed' = {}
  PROVE  WithdrawalInv'
<1>1. SchedulerTypeOK'
  BY DEF WithdrawalInv, SchedulerTypeOK, Stored
<1> QED BY <1>1 DEF WithdrawalInv, WithdrawalHolds

\* A step of one poll's, which leaves the others alone.
LEMMA PollKeeps ==
  ASSUME WithdrawalInv, NEW p \in Pollers, NEW q, poll' = [poll EXCEPT ![p] = q],
         UNCHANGED <<clock, held, removed>>, Stored' = Stored, tasks' \in [Stored' -> Run],
         quiet' \in [Pollers -> SUBSET Tasks], \A o \in Pollers \ {p} : quiet'[o] = quiet[o],
         ran' \in [Tasks -> SUBSET (0..MaxClock)],
         DOMAIN q = PollFields, q.at \in {"idle", "next", "running", "delivering"},
         DOMAIN q.due \subseteq Tasks, q.due \in [DOMAIN q.due -> 0..MaxClock],
         q.task \in Tasks <=> q.at \in {"running", "delivering"},
         q.stamp \in 0..MaxClock \cup {None}, q.stamp # None <=> q.at = "delivering",
         DOMAIN q.due \cap quiet'[p] = {}, q.at = "running" => q.task \notin quiet'[p]
  PROVE  WithdrawalInv'
<1>1. poll'[p] = q /\ DOMAIN poll' = Pollers /\ \A o \in Pollers \ {p} : poll'[o] = poll[o]
  BY DEF WithdrawalInv, SchedulerTypeOK
<1>2. SchedulerTypeOK'
  <2>1. /\ clock' \in 0..MaxClock /\ held' \in [DOMAIN held' -> Run]
        /\ DOMAIN held' \cup Stored' \cup removed' \subseteq Tasks
        /\ Stored' \cap (DOMAIN held' \cup removed') = {}
    BY DEF WithdrawalInv, SchedulerTypeOK
  <2>2. \A o \in Pollers :
          /\ poll'[o].at \in {"idle", "next", "running", "delivering"}
          /\ DOMAIN poll'[o].due \subseteq Tasks
          /\ poll'[o].due \in [DOMAIN poll'[o].due -> 0..MaxClock]
          /\ poll'[o].task \in Tasks <=> poll'[o].at \in {"running", "delivering"}
          /\ poll'[o].stamp \in 0..MaxClock \cup {None}
          /\ poll'[o].stamp # None <=> poll'[o].at = "delivering"
    BY <1>1 DEF WithdrawalInv, SchedulerTypeOK
  <2> QED BY <1>1, <2>1, <2>2 DEF SchedulerTypeOK
<1>3. WithdrawalHolds'
  BY <1>1, <1>2 DEF WithdrawalInv, WithdrawalHolds, SchedulerTypeOK
<1>4. DOMAIN held' \cap removed' = {}
  BY DEF WithdrawalInv
<1>5. \A o \in Pollers : DOMAIN poll'[o] = PollFields /\ DOMAIN poll'[o].due \cap quiet'[o] = {}
  BY <1>1 DEF WithdrawalInv
<1> QED BY <1>2, <1>3, <1>4, <1>5 DEF WithdrawalInv

\* Every step keeps WithdrawalInv.
LEMMA WithdrawalStep == WithdrawalInv /\ [SchedulerNext]_schedulerVars => WithdrawalInv'
<1> SUFFICES ASSUME WithdrawalInv, [SchedulerNext]_schedulerVars PROVE WithdrawalInv'
  OBVIOUS
<1>a. SchedulerTypeOK /\ clock \in Nat
  BY SchedulerAssumption DEF WithdrawalInv, SchedulerTypeOK
<1>1. CASE Tick
  <2>1. clock' \in 0..MaxClock
    BY <1>a, <1>1, SchedulerAssumption DEF Tick, SchedulerTypeOK
  <2>2. SchedulerTypeOK'
    BY <1>1, <2>1 DEF Tick, WithdrawalInv, SchedulerTypeOK, Stored
  <2> QED BY <1>1, <2>2 DEF Tick, WithdrawalInv, WithdrawalHolds, Stored
<1>2. ASSUME NEW t \in Tasks, New(t) PROVE WithdrawalInv'
  <2> DEFINE run == [next_run |-> NextAfter(t, clock), last_run |-> None, enabled |-> TRUE]
  <2>1. run \in Run
    BY <1>a, NextIsTyped DEF Run
  <2>2. held' = Put(held, t, run) /\ UNCHANGED <<clock, tasks, poll, removed, quiet, ran>>
    BY <1>2 DEF New
  <2> HIDE DEF run
  <2>3. DOMAIN held' = DOMAIN held \cup {t} /\ held' \in [DOMAIN held' -> Run]
    BY <1>a, <2>1, <2>2 DEF Put, SchedulerTypeOK
  <2>4. t \notin DOMAIN held \cup Stored \cup removed
    BY <1>2 DEF New
  <2> QED BY <1>a, <2>2, <2>3, <2>4, UserKeeps DEF WithdrawalInv, SchedulerTypeOK, Stored
<1>3. ASSUME NEW t \in Tasks, Schedule(t) PROVE WithdrawalInv'
  <2>1. /\ t \in DOMAIN held /\ tasks' = Put(tasks, t, held[t]) /\ held' = Drop(held, t)
        /\ UNCHANGED <<clock, poll, removed, quiet, ran>>
    BY <1>3 DEF Schedule
  <2>2. DOMAIN held' = DOMAIN held \ {t} /\ held' \in [DOMAIN held' -> Run]
    BY <1>a, <2>1 DEF Drop, SchedulerTypeOK
  <2>3. Stored' = Stored \cup {t} /\ tasks' \in [Stored' -> Run]
    BY <1>a, <2>1 DEF Put, Stored, SchedulerTypeOK
  <2> QED BY <1>a, <2>1, <2>2, <2>3, UserKeeps DEF WithdrawalInv, SchedulerTypeOK
<1>4. ASSUME NEW t \in Tasks, CancelTask(t) PROVE WithdrawalInv'
  <2>1. /\ t \in Stored /\ tasks' = [tasks EXCEPT ![t] = [tasks[t] EXCEPT !.enabled = FALSE, !.next_run = None]]
        /\ UNCHANGED <<clock, held, poll, removed, quiet, ran>>
    BY <1>4 DEF CancelTask
  <2>2. Stored' = Stored /\ tasks' \in [Stored' -> Run]
    BY <1>a, <2>1 DEF Stored, SchedulerTypeOK, Run
  <2> QED BY <1>a, <2>1, <2>2, UserKeeps DEF WithdrawalInv, SchedulerTypeOK
<1>5. ASSUME NEW t \in Tasks, Remove(t) PROVE WithdrawalInv'
  <2>1. /\ t \in Stored /\ tasks' = Drop(tasks, t) /\ removed' = removed \cup {t}
        /\ UNCHANGED <<clock, held, poll, quiet, ran>>
    BY <1>5 DEF Remove
  <2>2. Stored' = Stored \ {t} /\ tasks' \in [Stored' -> Run]
    BY <1>a, <2>1 DEF Drop, Stored, SchedulerTypeOK
  <2> QED BY <1>a, <2>1, <2>2, UserKeeps DEF WithdrawalInv, SchedulerTypeOK
<1>6. ASSUME NEW p \in Pollers, Poll(p) PROVE WithdrawalInv'
  <2> DEFINE q == [Idle EXCEPT !.at = "next", !.due = Copies]
             off == {t \in Stored : ~tasks[t].enabled}
  <2>1. /\ poll' = [poll EXCEPT ![p] = q] /\ quiet' = [quiet EXCEPT ![p] = off]
        /\ UNCHANGED <<clock, held, tasks, removed, ran>>
    BY <1>6 DEF Poll
  <2>2. Copies \in [DOMAIN Copies -> 0..MaxClock] /\ DOMAIN Copies \subseteq Tasks
        /\ DOMAIN Copies \cap off = {}
    <3>1. \A t \in Stored : tasks[t] \in Run
      BY <1>a DEF SchedulerTypeOK
    <3>2. \A t \in Stored : Due(t) => tasks[t].next_run \in 0..MaxClock /\ tasks[t].enabled
      BY <3>1 DEF Due, Run
    <3>3. DOMAIN Copies = {u \in Stored : Due(u)}
          /\ \A t \in DOMAIN Copies : Copies[t] = tasks[t].next_run
      BY DEF Copies
    <3>4. Copies = [t \in DOMAIN Copies |-> Copies[t]]
      BY DEF Copies
    <3> QED BY <1>a, <3>2, <3>3, <3>4 DEF SchedulerTypeOK
  <2>3. /\ q.at = "next" /\ q.due = Copies /\ q.task = None /\ q.stamp = None /\ DOMAIN q = PollFields
    BY DEF Idle, PollFields
  <2>4. quiet' \in [Pollers -> SUBSET Tasks] /\ quiet'[p] = off /\ \A o \in Pollers \ {p} : quiet'[o] = quiet[o]
    BY <1>a, <2>1 DEF SchedulerTypeOK
  <2>5. Stored' = Stored /\ tasks' \in [Stored' -> Run] /\ ran' \in [Tasks -> SUBSET (0..MaxClock)]
    BY <1>a, <2>1 DEF SchedulerTypeOK, Stored
  <2>6. None \notin Tasks
    BY SchedulerAssumption DEF None
  <2> HIDE DEF q, off
  <2> QED BY <2>1, <2>2, <2>3, <2>4, <2>5, <2>6, PollKeeps
<1>7. ASSUME NEW p \in Pollers, NEW t \in Tasks, RunTask(p, t) PROVE WithdrawalInv'
  <2> DEFINE q == [poll[p] EXCEPT !.at = "running", !.task = t, !.due = Drop(poll[p].due, t)]
  <2>1. /\ poll[p].at = "next" /\ t \in DOMAIN poll[p].due /\ poll' = [poll EXCEPT ![p] = q]
        /\ ran' = [ran EXCEPT ![t] = @ \cup {poll[p].due[t]}]
        /\ UNCHANGED <<clock, held, tasks, removed, quiet>>
    BY <1>7 DEF RunTask
  <2>2. /\ q.at = "running" /\ q.task = t /\ q.stamp = poll[p].stamp /\ q.due = Drop(poll[p].due, t)
        /\ DOMAIN q = PollFields
    BY DEF WithdrawalInv, PollFields
  <2>3. DOMAIN q.due = DOMAIN poll[p].due \ {t} /\ q.due \in [DOMAIN q.due -> 0..MaxClock]
    BY <1>a, <2>2 DEF Drop, SchedulerTypeOK
  <2>4. ran' \in [Tasks -> SUBSET (0..MaxClock)]
    BY <1>a, <2>1 DEF SchedulerTypeOK
  <2>5. Stored' = Stored /\ tasks' \in [Stored' -> Run]
        /\ quiet' \in [Pollers -> SUBSET Tasks] /\ quiet' = quiet
    BY <1>a, <2>1 DEF SchedulerTypeOK, Stored
  <2>6. t \notin quiet[p] /\ DOMAIN q.due \cap quiet[p] = {} /\ DOMAIN q.due \subseteq Tasks
        /\ poll[p].stamp = None
    BY <1>a, <2>1, <2>3 DEF WithdrawalInv, SchedulerTypeOK
  <2> HIDE DEF q
  <2> QED BY <2>1, <2>2, <2>3, <2>4, <2>5, <2>6, PollKeeps
<1>8. ASSUME NEW p \in Pollers, Executed(p) PROVE WithdrawalInv'
  <2> DEFINE q == [poll[p] EXCEPT !.at = "delivering", !.stamp = clock]
  <2>1. /\ poll[p].at = "running" /\ poll' = [poll EXCEPT ![p] = q]
        /\ UNCHANGED <<clock, held, tasks, removed, quiet, ran>>
    BY <1>8 DEF Executed
  <2>2. /\ q.at = "delivering" /\ q.task = poll[p].task /\ q.stamp = clock /\ q.due = poll[p].due
        /\ DOMAIN q = PollFields
    BY DEF WithdrawalInv, PollFields
  <2>3. clock # None /\ clock \in 0..MaxClock
    BY <1>a DEF None, SchedulerTypeOK
  <2>4. /\ Stored' = Stored /\ tasks' \in [Stored' -> Run] /\ ran' \in [Tasks -> SUBSET (0..MaxClock)]
        /\ quiet' \in [Pollers -> SUBSET Tasks] /\ quiet' = quiet
    BY <1>a, <2>1 DEF SchedulerTypeOK, Stored
  <2>5. /\ DOMAIN poll[p].due \subseteq Tasks /\ poll[p].due \in [DOMAIN poll[p].due -> 0..MaxClock]
        /\ poll[p].task \in Tasks /\ DOMAIN poll[p].due \cap quiet[p] = {}
    BY <1>a, <2>1 DEF WithdrawalInv, SchedulerTypeOK
  <2> HIDE DEF q
  <2> QED BY <2>1, <2>2, <2>3, <2>4, <2>5, PollKeeps
<1>9. ASSUME NEW p \in Pollers, Rearm(p) PROVE WithdrawalInv'
  <2> DEFINE q == [poll[p] EXCEPT !.at = "next", !.task = None, !.stamp = None]
             t == poll[p].task
  <2>1. /\ poll[p].at = "delivering" /\ poll' = [poll EXCEPT ![p] = q]
        /\ UNCHANGED <<clock, held, removed, quiet, ran>>
    BY <1>9 DEF Rearm
  <2>2. /\ q.at = "next" /\ q.task = None /\ q.stamp = None /\ q.due = poll[p].due
        /\ DOMAIN q = PollFields
    BY DEF WithdrawalInv, PollFields
  <2>3. Stored' = Stored /\ tasks' \in [Stored' -> Run]
    <3>1. CASE t \notin Stored
      BY <1>a, <1>9, <3>1 DEF Rearm, SchedulerTypeOK, Stored
    <3>2. CASE t \in Stored
      <4>1. t \in Tasks /\ tasks[t] \in Run
        BY <1>a, <3>2 DEF SchedulerTypeOK
      <4>2. tasks' = [tasks EXCEPT ![t] = [tasks[t] EXCEPT !.last_run = poll[p].stamp,
                                             !.next_run = NextAfter(t, poll[p].stamp)]]
        BY <1>9, <3>2 DEF Rearm
      <4>3. poll[p].stamp \in 0..MaxClock
        BY <1>a, <2>1 DEF SchedulerTypeOK
      <4>4. NextAfter(t, poll[p].stamp) \in 0..MaxClock \cup {None}
        BY <4>1, <4>3, NextIsTyped
      <4> QED BY <1>a, <4>1, <4>2, <4>3, <4>4 DEF Run, SchedulerTypeOK, Stored
    <3> QED BY <3>1, <3>2
  <2>4. /\ ran' \in [Tasks -> SUBSET (0..MaxClock)]
        /\ quiet' \in [Pollers -> SUBSET Tasks] /\ quiet' = quiet
    BY <1>a, <2>1 DEF SchedulerTypeOK
  <2>5. /\ DOMAIN poll[p].due \subseteq Tasks /\ poll[p].due \in [DOMAIN poll[p].due -> 0..MaxClock]
        /\ DOMAIN poll[p].due \cap quiet[p] = {}
    BY <1>a DEF WithdrawalInv, SchedulerTypeOK
  <2> HIDE DEF q
  <2> QED BY <2>1, <2>2, <2>3, <2>4, <2>5, PollKeeps, SchedulerAssumption DEF None
<1>10. ASSUME NEW p \in Pollers, PollEnds(p) PROVE WithdrawalInv'
  <2>1. /\ poll' = [poll EXCEPT ![p] = Idle] /\ quiet' = [quiet EXCEPT ![p] = {}]
        /\ UNCHANGED <<clock, held, tasks, removed, ran>>
    BY <1>10 DEF PollEnds
  <2>2. /\ Idle.at = "idle" /\ Idle.due = << >> /\ Idle.task = None /\ Idle.stamp = None
        /\ DOMAIN Idle = PollFields /\ DOMAIN << >> = {} /\ << >> \in [{} -> 0..MaxClock]
    BY DEF Idle, PollFields
  <2>3. /\ quiet' \in [Pollers -> SUBSET Tasks] /\ \A o \in Pollers \ {p} : quiet'[o] = quiet[o]
        /\ Stored' = Stored /\ tasks' \in [Stored' -> Run] /\ ran' \in [Tasks -> SUBSET (0..MaxClock)]
    BY <1>a, <2>1 DEF SchedulerTypeOK, Stored
  <2> QED BY <2>1, <2>2, <2>3, PollKeeps, SchedulerAssumption DEF None
<1>11. CASE UNCHANGED schedulerVars
  BY <1>11 DEF schedulerVars, WithdrawalInv, SchedulerTypeOK, WithdrawalHolds, Stored
<1> QED BY <1>1, <1>2, <1>3, <1>4, <1>5, <1>6, <1>7, <1>8, <1>9, <1>10, <1>11
        DEF SchedulerNext, Continues

\* WithdrawalInv holds throughout.
LEMMA WithdrawalInvHolds == SchedulerSpec => []WithdrawalInv
BY WithdrawalInit, WithdrawalStep, PTL DEF SchedulerSpec

\* Every reachable state of the scheduler has the types SchedulerTypeOK gives it.
THEOREM SchedulerTypeCorrect == SchedulerSpec => []SchedulerTypeOK
BY WithdrawalInvHolds, PTL DEF WithdrawalInv

\* No poll runs a task that was cancelled before it looked, and no task comes back.
THEOREM WithdrawalIsKept == SchedulerSpec => []WithdrawalHolds
BY WithdrawalInvHolds, PTL DEF WithdrawalInv
-----------------------------------------------------------------------------
\* The executor: permits balance, the limit holds, and Executor implements JobBoard.

USE DEF Active, Terminal

Inv == TypeOK /\ PermitsBalance /\ Lockstep

\* The live tasks are a finite set.
LEMMA AliveFinite == IsFiniteSet(Alive) /\ Cardinality(Alive) \in Nat
<1>1. IsFiniteSet(Alive)
  BY ExecutorAssumption, FS_Subset DEF Alive
<1> QED BY <1>1, FS_CardinalityType

\* A task that ends gives its permit back.
LEMMA EndBalances ==
  ASSUME TypeOK, PermitsBalance, NEW j \in Alive, End(j)
  PROVE  PermitsBalance' /\ permits' \in 0..MaxConcurrent
<1>1. Alive' = Alive \ {j}
  BY DEF Alive, End, TypeOK
<1>2. Cardinality(Alive \ {j}) = Cardinality(Alive) - 1
  BY AliveFinite, FS_RemoveElement
<1>3. Cardinality(Alive \ {j}) \in Nat
  BY AliveFinite, FS_RemoveElement, FS_CardinalityType
<1> QED BY <1>1, <1>2, <1>3, AliveFinite, ExecutorAssumption DEF PermitsBalance, End, TypeOK

\* A step that leaves the tasks alive as they are, and the permits alone.
LEMMA SameBalance ==
  ASSUME TypeOK, PermitsBalance, Alive' = Alive, permits' = permits
  PROVE  PermitsBalance'
BY DEF PermitsBalance

\* Inv holds initially.
LEMMA InvInit == Init => Inv
<1> SUFFICES ASSUME Init PROVE Inv
  OBVIOUS
<1>1. TypeOK
  <2>1. permits \in 0..MaxConcurrent
    BY ExecutorAssumption DEF Init
  <2> QED BY <2>1 DEF Init, TypeOK
<1>2. Alive = {}
  BY DEF Init, Alive
<1>3. PermitsBalance
  BY <1>2, FS_EmptySet, ExecutorAssumption DEF Init, PermitsBalance
<1> QED BY <1>1, <1>3 DEF Init, Inv, Lockstep

\* Every step keeps Inv.
LEMMA InvStep == Inv /\ [Next]_vars => Inv'
<1> SUFFICES ASSUME Inv, [Next]_vars PROVE Inv'
  OBVIOUS
<1> USE DEF Inv, TypeOK, Lockstep
<1>1. ASSUME NEW j \in Jobs, Spawn(j) PROVE Inv'
  BY <1>1, SameBalance DEF Spawn, Alive
<1>2. ASSUME NEW j \in Jobs, Acquire(j) PROVE Inv'
  <2>1. j \notin Alive /\ Alive' = Alive \cup {j}
    BY <1>2 DEF Acquire, Alive
  <2>2. Cardinality(Alive') = Cardinality(Alive) + 1
    BY <2>1, AliveFinite, FS_AddElement
  <2>3. PermitsBalance' /\ permits' \in 0..MaxConcurrent
    BY <1>2, <2>2, AliveFinite, ExecutorAssumption DEF Acquire, PermitsBalance
  <2> QED BY <1>2, <2>3 DEF Acquire
<1>3. ASSUME NEW j \in Jobs, Store(j) PROVE Inv'
  BY <1>3, SameBalance DEF Store, Alive
<1>4. ASSUME NEW j \in Jobs, Starts(j) PROVE Inv'
  <2>1. CASE status[j] = "Cancelled"
    BY <1>4, <2>1, EndBalances DEF Starts, End, Alive
  <2>2. CASE status[j] # "Cancelled"
    BY <1>4, <2>2, SameBalance DEF Starts, SetStatus, Alive
  <2> QED BY <2>1, <2>2
<1>5. ASSUME NEW j \in Jobs, NEW outcome \in {"Completed", "Failed"}, Finishes(j, outcome)
      PROVE  Inv'
  <2>1. j \in Alive /\ End(j)
    BY <1>5 DEF Finishes, Alive
  <2>2. PermitsBalance' /\ permits' \in 0..MaxConcurrent
    BY <2>1, EndBalances
  <2>3. TypeOK'
    BY <1>5, <2>2 DEF Finishes, End, SetStatus
  <2>4. Lockstep'
    BY <1>5 DEF Finishes, End, SetStatus
  <2> QED BY <2>2, <2>3, <2>4
<1>6. ASSUME NEW j \in Jobs, Panics(j) PROVE Inv'
  BY <1>6, EndBalances DEF Panics, End, Alive
<1>7. ASSUME NEW j \in Jobs, AbortLands(j) PROVE Inv'
  BY <1>7, EndBalances DEF AbortLands, End, Alive
<1>8. ASSUME NEW j \in Jobs, Cancel(j) PROVE Inv'
  BY <1>8, SameBalance DEF Cancel, CancelJob, Alive
<1>9. CASE Cleanup
  <2>1. TypeOK' /\ Lockstep'
    BY <1>9 DEF Cleanup
  <2> QED BY <1>9, <2>1, SameBalance DEF Cleanup, Alive
<1>10. CASE Shutdown \/ ShutdownLists \/ ShutdownEnds
  BY <1>10, SameBalance DEF Shutdown, ShutdownLists, ShutdownEnds, Alive
<1>11. ASSUME NEW j \in Jobs, ShutdownCancels(j) PROVE Inv'
  <2>1. TypeOK' /\ Lockstep'
    BY <1>11 DEF ShutdownCancels, CancelJob
  <2> QED BY <1>11, <2>1, SameBalance DEF ShutdownCancels, Alive
<1>12. CASE UNCHANGED vars
  BY <1>12, SameBalance DEF vars, Alive
<1> QED BY <1>1, <1>2, <1>3, <1>4, <1>5, <1>6, <1>7, <1>8, <1>9, <1>10, <1>11, <1>12
        DEF Next, Runs

\* The pool and the list agree throughout.
LEMMA InvHolds == Spec => []Inv
BY InvInit, InvStep, PTL DEF Spec

\* Every reachable state has the types TypeOK gives it.
THEOREM TypeCorrect == Spec => []TypeOK
<1>1. Inv => TypeOK
  BY DEF Inv
<1> QED BY <1>1, InvHolds, PTL

\* No permit is lost to a cancellation, a panic or an abort, and none is made.
THEOREM PermitsBalanceHolds == Spec => []PermitsBalance
<1>1. Inv => PermitsBalance
  BY DEF Inv
<1> QED BY <1>1, InvHolds, PTL

\* The pool never runs more jobs than it has slots.
THEOREM ConcurrencyLimitHolds == Spec => []ConcurrencyLimit
<1>1. Inv => ConcurrencyLimit
  BY AliveFinite, ExecutorAssumption DEF Inv, TypeOK, PermitsBalance, ConcurrencyLimit
<1> QED BY <1>1, InvHolds, PTL

\* A step of the executor is a step of the board or leaves it alone.
LEMMA BoardStep == Inv /\ [Next]_vars => [Board!Next]_<<status, Listed>>
<1> SUFFICES ASSUME Inv, [Next]_vars PROVE Board!Next \/ UNCHANGED <<status, Listed>>
  OBVIOUS
<1> USE DEF Inv, TypeOK, Lockstep, Listed, Board!Active, Board!Terminal
<1>1. ASSUME NEW j \in Jobs, Spawn(j) \/ Acquire(j) PROVE UNCHANGED <<status, Listed>>
  BY <1>1 DEF Spawn, Acquire
<1>2. ASSUME NEW j \in Jobs, Store(j) PROVE Board!Next
  <2>1. j \notin Listed /\ Listed' = Listed \cup {j}
    BY <1>2 DEF Store
  <2> QED BY <1>2, <2>1 DEF Store, Board!Next, Board!Post
<1>3. ASSUME NEW j \in Jobs, Runs(j) PROVE Board!Next \/ UNCHANGED <<status, Listed>>
  <2>1. Listed' = Listed
    BY <1>3 DEF Runs, Starts, Finishes, Panics, AbortLands
  <2>2. CASE UNCHANGED status
    BY <2>1, <2>2
  <2>3. CASE ~UNCHANGED status /\ Starts(j)
    <3>1. status[j] = "Pending" /\ status' = [status EXCEPT ![j] = "Running"]
      BY <2>3 DEF Starts, SetStatus
    <3> QED BY <2>1, <3>1 DEF Board!Next, Board!Start
  <2>4. ASSUME ~UNCHANGED status, NEW outcome \in {"Completed", "Failed"}, Finishes(j, outcome)
        PROVE  Board!Next
    <3>1. status[j] \in Active /\ status' = [status EXCEPT ![j] = outcome]
      BY <2>4 DEF Finishes, SetStatus
    <3> QED BY <2>1, <3>1 DEF Board!Next, Board!Finish
  <2> QED BY <1>3, <2>2, <2>3, <2>4 DEF Runs, Panics, AbortLands
<1>4. ASSUME NEW j \in Jobs, Cancel(j) PROVE Board!Next
  BY <1>4 DEF Cancel, CancelJob, Board!Next, Board!Cancel
<1>5. ASSUME NEW j \in Jobs, ShutdownCancels(j) PROVE Board!Next \/ UNCHANGED <<status, Listed>>
  BY <1>5 DEF ShutdownCancels, CancelJob, Board!Next, Board!Cancel
<1>6. CASE Cleanup
  <2>1. status' = [j \in Jobs |-> IF status[j] \in Terminal THEN "absent" ELSE status[j]]
    BY <1>6 DEF Cleanup
  <2> QED BY <1>6, <2>1 DEF Cleanup, Board!Next, Board!Cleanup
<1>7. CASE Shutdown \/ ShutdownLists \/ ShutdownEnds \/ UNCHANGED vars
  BY <1>7 DEF Shutdown, ShutdownLists, ShutdownEnds, vars
<1> QED BY <1>1, <1>2, <1>3, <1>4, <1>5, <1>6, <1>7 DEF Next

\* The executor implements JobBoard: a listed job's status only moves forward
\* and a terminal status is final, whatever is cancelled, cleaned up, aborted
\* or shut down, and in whatever order.
THEOREM JobBoardHolds == Spec => JobBoardSpec
<1>1. Init => Board!Init
  BY DEF Init, Board!Init, Listed
<1>2. Inv /\ [Next]_vars => [Board!Next]_<<status, Listed>>
  BY BoardStep
<1> QED BY <1>1, <1>2, InvHolds, PTL DEF Spec, JobBoardSpec, Board!Spec, Listed

-----------------------------------------------------------------------------
\* The cron expressions: the search finds what the text means.

\* What the calendar reads is a value of the field.
LEMMA ReadingIsValue ==
  ASSUME NEW t \in Nat, NEW f \in Fields
  PROVE  Reading(t)[f] \in Values(f)
<1>1. \A n \in Nat, m \in Nat \ {0} : n \div m \in Nat /\ n % m \in 0..m - 1
  OBVIOUS
<1>2. \A g \in Fields : Size[g] \in Nat \ {0}
  BY CronAssumption
<1> DEFINE hours == t \div Size["minute"]
           days  == hours \div Size["hour"]
           months == days \div Size["day_of_month"]
<1>3. hours \in Nat /\ days \in Nat /\ months \in Nat
  BY <1>1, <1>2 DEF Fields
<1>4. Reading(t) = [minute |-> t % Size["minute"], hour |-> hours % Size["hour"],
                    day_of_month |-> 1 + (days % Size["day_of_month"]),
                    month |-> 1 + (months % Size["month"]), day_of_week |-> days % Size["day_of_week"]]
  BY DEF Reading
<1> HIDE DEF hours, days, months
<1>5. CASE f \in {"minute", "hour", "day_of_week"}
  <2>1. Lowest[f] = 0 /\ \E n \in Nat : Reading(t)[f] = n % Size[f]
    BY <1>3, <1>4, <1>5 DEF Lowest, Fields
  <2>2. PICK n \in Nat : Reading(t)[f] = n % Size[f]
    BY <2>1
  <2>3. n % Size[f] \in 0..Size[f] - 1 /\ Size[f] \in Nat
    BY <1>1, <1>2
  <2>4. n % Size[f] \in 0..0 + Size[f] - 1
    BY <2>3
  <2> QED BY <2>1, <2>2, <2>4, Zenon DEF Values
<1>6. CASE f \in {"day_of_month", "month"}
  <2>1. Lowest[f] = 1 /\ \E n \in Nat : Reading(t)[f] = 1 + (n % Size[f])
    BY <1>3, <1>4, <1>6 DEF Lowest, Fields
  <2>2. PICK n \in Nat : Reading(t)[f] = 1 + (n % Size[f])
    BY <2>1
  <2>3. n % Size[f] \in 0..Size[f] - 1 /\ Size[f] \in Nat
    BY <1>1, <1>2
  <2>4. 1 + (n % Size[f]) \in 1..1 + Size[f] - 1
    BY <2>3
  <2> QED BY <2>1, <2>2, <2>4, Zenon DEF Values
<1> QED BY <1>5, <1>6 DEF Fields

\* The bounds of a field, and that a value of it is not Sunday's other number.
LEMMA ValueBounds ==
  ASSUME NEW f \in Fields, NEW v \in Values(f)
  PROVE  /\ Lowest[f] \in {0, 1} /\ Size[f] \in Nat \ {0} /\ Highest(f) \in Nat
         /\ v \in Nat /\ Lowest[f] <= v /\ v <= Highest(f) /\ Sunday(f, v) = v
<1>1. Lowest[f] \in {0, 1} /\ Size[f] \in Nat \ {0} /\ v \in Lowest[f]..Lowest[f] + Size[f] - 1
  BY CronAssumption DEF Lowest, Values, Fields
<1>2. CASE f = "day_of_week"
  <2>1. Lowest[f] = 0 /\ Highest(f) = Size[f] /\ Sunday(f, v) = v % Size[f]
    BY <1>2 DEF Lowest, Highest, Sunday, Fields
  <2>2. v \in 0..Size[f] - 1
    BY <1>1, <2>1
  <2>3. v % Size[f] = v
    BY <1>1, <2>2
  <2> QED BY <1>1, <2>1, <2>2, <2>3
<1>3. CASE f # "day_of_week"
  <2>1. Highest(f) = Lowest[f] + Size[f] - 1 /\ Sunday(f, v) = v
    BY <1>3 DEF Highest, Sunday
  <2> QED BY <1>1, <2>1
<1> QED BY <1>2, <1>3

\* A number that a field takes and that is not the 7 of the week is one of its values.
LEMMA LegalIsValue ==
  ASSUME NEW f \in Fields, NEW v \in Lowest[f]..Highest(f), f = "day_of_week" => v # Size[f]
  PROVE  v \in Values(f)
<1>1. Lowest[f] \in {0, 1} /\ Size[f] \in Nat \ {0}
  BY CronAssumption DEF Lowest, Fields
<1>2. CASE f = "day_of_week"
  <2>1. Lowest[f] = 0 /\ Highest(f) = Size[f]
    BY <1>2 DEF Lowest, Highest, Fields
  <2>2. v \in 0..Size[f] /\ v # Size[f]
    BY <1>2, <2>1
  <2>3. v \in 0..0 + Size[f] - 1
    BY <1>1, <2>2
  <2> QED BY <2>1, <2>3, Zenon DEF Values
<1>3. CASE f # "day_of_week"
  BY <1>3 DEF Highest, Values
<1> QED BY <1>2, <1>3

\* The parser takes a common field exactly when it is well formed, and what it makes of
\* it matches what standard cron means by it.
LEMMA FieldMeans ==
  ASSUME NEW s, NEW f \in Fields, NEW v \in Values(f), Common(s, f),
         s.form = "a-b" => s.a \in Nat /\ s.b \in Nat, s.form = "*/n" => s.n \in Nat
  PROVE  /\ Parse(s, Lowest[f], Highest(f)) # Error <=> Legal(s, f)
         /\ Legal(s, f) => (Matches(Parse(s, Lowest[f], Highest(f)), v) <=> v \in Means(s, f))
<1> DEFINE e == Parse(s, Lowest[f], Highest(f))
<1>1. /\ Lowest[f] \in {0, 1} /\ Size[f] \in Nat \ {0} /\ Highest(f) \in Nat
      /\ v \in Nat /\ Lowest[f] <= v /\ v <= Highest(f)
  BY ValueBounds
<1>2. \A w \in Values(f) : Sunday(f, w) = w
  BY ValueBounds
<1>3. CASE s.form = "*"
  <2>1. e = Any /\ e # Error /\ Legal(s, f)
    BY <1>3 DEF Parse, Any, Error, Legal, Named
  <2>2. Means(s, f) = {Sunday(f, w) : w \in Values(f)}
    BY <1>3 DEF Means, Covered
  <2>3. v \in Means(s, f)
    BY <1>2, <2>2
  <2>4. Matches(e, v)
    BY <2>1 DEF Matches, Any
  <2> QED BY <2>1, <2>3, <2>4
<1>4. CASE s.form = "v"
  <2>1. Legal(s, f) <=> s.v \in Lowest[f]..Highest(f)
    BY <1>4 DEF Legal, Named
  <2>2. e = (IF s.v \in Lowest[f]..Highest(f) THEN Specific(s.v) ELSE Error)
    BY <1>4 DEF Parse
  <2>3. e # Error <=> Legal(s, f)
    <3>1. Specific(s.v).kind = "specific" /\ Error.kind = "error"
      BY DEF Specific, Error
    <3>2. Specific(s.v) # Error
      BY <3>1
    <3> QED BY <2>1, <2>2, <3>2
  <2>4. ASSUME Legal(s, f) PROVE Matches(e, v) <=> v \in Means(s, f)
    <3>1. s.v \in Values(f)
      BY <1>4, <2>1, <2>4, LegalIsValue DEF Common, Named
    <3>2. Means(s, f) = {Sunday(f, w) : w \in {s.v}}
      BY <1>4 DEF Means, Covered, Named
    <3>3. e = Specific(s.v)
      BY <2>1, <2>2, <2>4
    <3>4. Matches(e, v) <=> v = s.v
      BY <3>3 DEF Matches, Specific
    <3> QED BY <1>2, <3>1, <3>2, <3>4
  <2> QED BY <2>3, <2>4
<1>5. CASE s.form = "a-b"
  <2>1. Legal(s, f) <=> {s.a, s.b} \subseteq Lowest[f]..Highest(f) /\ s.a <= s.b
    BY <1>5 DEF Legal, Named
  <2>2. s.a \in Nat /\ s.b \in Nat
    BY <1>5
  <2>3. Legal(s, f) <=> Lowest[f] <= s.a /\ s.a <= s.b /\ s.b <= Highest(f)
    BY <1>1, <2>1, <2>2
  <2>4. e = (IF Lowest[f] <= s.a /\ s.a <= s.b /\ s.b <= Highest(f) THEN Span(s.a, s.b) ELSE Error)
    BY <1>5 DEF Parse
  <2>5. e # Error <=> Legal(s, f)
    <3>1. Span(s.a, s.b).kind = "range" /\ Error.kind = "error"
      BY DEF Span, Error
    <3>2. Span(s.a, s.b) # Error
      BY <3>1
    <3> QED BY <2>3, <2>4, <3>2
  <2>6. ASSUME Legal(s, f) PROVE Matches(e, v) <=> v \in Means(s, f)
    <3>1. s.b \in Values(f)
      BY <1>5, <2>1, <2>6, LegalIsValue DEF Common, Named
    <3>2. s.a..s.b \subseteq Values(f)
      BY <1>1, <2>2, <2>3, <2>6, <3>1 DEF Values
    <3>3. Means(s, f) = {Sunday(f, w) : w \in s.a..s.b}
      BY <1>5 DEF Means, Covered
    <3>4. e = Span(s.a, s.b)
      BY <2>3, <2>4, <2>6
    <3>5. Matches(e, v) <=> s.a <= v /\ v <= s.b
      BY <3>4 DEF Matches, Span
    <3>6. Means(s, f) = s.a..s.b
      BY <1>2, <3>2, <3>3
    <3> QED BY <1>1, <2>2, <3>5, <3>6
  <2> QED BY <2>5, <2>6
<1>6. CASE s.form = "list"
  <2>1. Legal(s, f) <=> s.vs \subseteq Lowest[f]..Highest(f)
    BY <1>6 DEF Legal, Named
  <2>2. e = (IF s.vs \subseteq Lowest[f]..Highest(f) THEN List(s.vs) ELSE Error)
    BY <1>6 DEF Parse
  <2>3. e # Error <=> Legal(s, f)
    <3>1. List(s.vs).kind = "list" /\ Error.kind = "error"
      BY DEF List, Error
    <3>2. List(s.vs) # Error
      BY <3>1
    <3> QED BY <2>1, <2>2, <3>2
  <2>4. ASSUME Legal(s, f) PROVE Matches(e, v) <=> v \in Means(s, f)
    <3>1. s.vs \subseteq Values(f)
      <4> SUFFICES ASSUME NEW w \in s.vs PROVE w \in Values(f)
        OBVIOUS
      <4>1. w \in Lowest[f]..Highest(f) /\ (f = "day_of_week" => w # Size[f])
        BY <1>6, <2>1, <2>4 DEF Common, Named
      <4> QED BY <4>1, LegalIsValue
    <3>2. Means(s, f) = {Sunday(f, w) : w \in s.vs}
      BY <1>6 DEF Means, Covered, Named
    <3>3. e = List(s.vs)
      BY <2>1, <2>2, <2>4
    <3>4. Matches(e, v) <=> v \in s.vs
      BY <3>3 DEF Matches, List
    <3> QED BY <1>2, <3>1, <3>2, <3>4
  <2> QED BY <2>3, <2>4
<1>7. CASE s.form = "*/n"
  <2>1. Lowest[f] = 0 /\ s.n \in Nat /\ s.n <= Highest(f)
    BY <1>7 DEF Common
  <2>2. Legal(s, f) <=> s.n >= 1
    BY <1>7 DEF Legal, Named
  <2>3. e = (IF s.n \in 1..Highest(f) THEN Step(s.n, Highest(f)) ELSE Error)
    BY <1>7 DEF Parse
  <2>4. e # Error <=> Legal(s, f)
    BY <1>1, <2>1, <2>2, <2>3 DEF Step, Error
  <2>5. ASSUME Legal(s, f) PROVE Matches(e, v) <=> v \in Means(s, f)
    <3>1. Means(s, f) = {Sunday(f, w) : w \in {u \in Values(f) : (u - 0) % s.n = 0}}
      BY <1>7, <2>1 DEF Means, Covered, Start
    <3>2. \A u \in Values(f) : u \in Nat /\ u - 0 = u
      BY ValueBounds
    <3>3. v \in Means(s, f) <=> v % s.n = 0
      BY <1>2, <3>1, <3>2
    <3>4. e = Step(s.n, Highest(f))
      BY <1>1, <2>1, <2>2, <2>3, <2>5
    <3>5. Matches(e, v) <=> v % s.n = 0 /\ v <= Highest(f)
      BY <3>4 DEF Matches, Step
    <3> QED BY <1>1, <3>3, <3>5
  <2> QED BY <2>4, <2>5
<1> QED BY <1>3, <1>4, <1>5, <1>6, <1>7 DEF Common

\* The numbers of a text are numbers.
LEMMA TextNumbers ==
  ASSUME text \in Texts, NEW f \in Fields
  PROVE  /\ text[f].form = "a-b" => text[f].a \in Nat /\ text[f].b \in Nat
         /\ text[f].form = "*/n" => text[f].n \in Nat
BY CronAssumption

\* So a common text is taken exactly when it is well formed,
LEMMA TakenIfLegal ==
  ASSUME text \in Texts, CommonText, NEW f \in Fields
  PROVE  Parsed[f] # Error <=> Legal(text[f], f)
<1>1. Lowest[f] \in Values(f)
  BY CronAssumption DEF Values, Lowest, Fields
<1> QED BY <1>1, TextNumbers, FieldMeans DEF CommonText, Parsed

\* and an expression matches the minutes that standard cron means by its text.
LEMMA ExprMeans ==
  ASSUME text \in Texts, CommonText, \A f \in Fields : Parsed[f] # Error, NEW t \in Nat
  PROVE  ExprMatches(Parsed, t) <=> IsDue(t)
<1>1. ASSUME NEW f \in Fields
      PROVE  Matches(Parsed[f], Reading(t)[f]) <=> Reading(t)[f] \in Means(text[f], f)
  <2>1. Parsed[f] = Parse(text[f], Lowest[f], Highest(f)) /\ Legal(text[f], f)
    BY TakenIfLegal DEF Parsed
  <2>2. Common(text[f], f)
    BY DEF CommonText
  <2> QED BY <2>1, <2>2, TextNumbers, ReadingIsValue, FieldMeans
<1>2. ExprMatches(Parsed, t) <=> \A f \in Fields : Reading(t)[f] \in Means(text[f], f)
  BY <1>1 DEF ExprMatches
<1> QED BY <1>2 DEF IsDue, CommonText, Fields

\* The invariant holds at first.
LEMMA SearchInit == CronInit => SearchInv
  BY CronAssumption DEF CronInit, SearchInv

\* Parsing and every step of the search keep it.
LEMMA SearchStep == SearchInv /\ [CronNext]_cronVars => SearchInv'
<1> SUFFICES ASSUME SearchInv, [CronNext]_cronVars PROVE SearchInv'
  OBVIOUS
<1>t. from \in Nat /\ candidate \in Nat /\ Limit \in Nat
  BY CronAssumption DEF SearchInv
<1>1. CASE ParseExpr
  <2>1. UNCHANGED <<text, from>> /\ Parsed' = Parsed
    BY <1>1 DEF ParseExpr, Parsed
  <2>2. CASE stage' = "refused"
    <3>1. \E f \in Fields : Parsed[f] = Error
      BY <1>1, <2>2 DEF ParseExpr, Parsed
    <3> QED BY <1>1, <2>1, <2>2, <3>1 DEF ParseExpr, SearchInv
  <2>3. CASE stage' = "searching"
    <3>1. expr' = Parsed /\ candidate' = from + 1 /\ \A f \in Fields : Parsed[f] # Error
      BY <1>1, <2>3 DEF ParseExpr, Parsed
    <3>2. from + 1 .. candidate' - 1 = {}
      BY <1>t, <3>1
    <3> QED BY <1>t, <2>1, <2>3, <3>1, <3>2 DEF SearchInv
  <2> QED BY <1>1, <2>2, <2>3 DEF ParseExpr
<1>2. CASE Search
  <2>1. UNCHANGED <<text, from, expr>> /\ Parsed' = Parsed /\ stage = "searching"
    BY <1>2 DEF Search, Parsed
  <2>2. /\ expr = Parsed /\ \A f \in Fields : Parsed[f] # Error
        /\ candidate > from /\ \A t \in from + 1 .. candidate - 1 : ~ExprMatches(expr, t)
    BY <2>1 DEF SearchInv
  <2>p. \A t : ExprMatches(expr, t)' <=> ExprMatches(expr, t)
    BY <2>1 DEF ExprMatches
  <2>3. CASE stage' = "none" /\ candidate > from + Limit /\ UNCHANGED candidate
    BY <2>1, <2>2, <2>3, <2>p DEF SearchInv
  <2>4. CASE stage' = "found" /\ ExprMatches(expr, candidate) /\ UNCHANGED candidate
    BY <2>1, <2>2, <2>4, <2>p DEF SearchInv
  <2>5. CASE ~ExprMatches(expr, candidate) /\ candidate' = candidate + 1 /\ UNCHANGED stage
    <3>1. candidate' \in Nat /\ candidate' > from /\ candidate' - 1 = candidate
      BY <1>t, <2>2, <2>5
    <3>2. \A t \in from + 1 .. candidate : ~ExprMatches(expr, t)
      BY <1>t, <2>2, <2>5
    <3> QED BY <2>1, <2>2, <2>5, <2>p, <3>1, <3>2 DEF SearchInv
  <2> QED BY <1>2, <2>3, <2>4, <2>5 DEF Search
<1>3. CASE UNCHANGED cronVars
  BY <1>3 DEF cronVars, SearchInv, Parsed, ExprMatches
<1> QED BY <1>1, <1>2, <1>3 DEF CronNext

\* What the search answers.
LEMMA SearchGivesFirst == SearchInv => FirstMatch
<1> SUFFICES ASSUME SearchInv, CommonText PROVE FirstMatch
  BY DEF FirstMatch
<1>t. from \in Nat /\ candidate \in Nat /\ Limit \in Nat /\ text \in Texts
  BY CronAssumption DEF SearchInv
<1>1. stage = "refused" => \E f \in Fields : ~Legal(text[f], f)
  BY <1>t, TakenIfLegal DEF SearchInv
<1>2. stage \in {"searching", "found", "none"} => \A f \in Fields : Legal(text[f], f)
  BY <1>t, TakenIfLegal DEF SearchInv
<1>3. ASSUME stage \in {"found", "none"}
      PROVE  /\ candidate > from /\ \A t \in from + 1 .. candidate - 1 : ~IsDue(t)
             /\ stage = "found" => IsDue(candidate)
             /\ stage = "none" => candidate > from + Limit
  <2>1. /\ expr = Parsed /\ \A f \in Fields : Parsed[f] # Error
        /\ candidate > from /\ \A t \in from + 1 .. candidate - 1 : ~ExprMatches(expr, t)
        /\ stage = "found" => ExprMatches(expr, candidate)
        /\ stage = "none" => candidate > from + Limit
    BY <1>3 DEF SearchInv
  <2>2. \A t \in Nat : ExprMatches(expr, t) <=> IsDue(t)
    BY <1>t, <2>1, ExprMeans
  <2>3. \A t \in from + 1 .. candidate - 1 : t \in Nat
    BY <1>t
  <2> QED BY <1>t, <2>1, <2>2, <2>3
<1>4. \A t \in from + 1 .. from + Limit : candidate > from + Limit => t \in from + 1 .. candidate - 1
  BY <1>t
<1> QED BY <1>1, <1>2, <1>3, <1>4 DEF FirstMatch

\* A common text is refused exactly when it is ill formed, and the search answers with
\* the first minute standard cron runs it at, and with none only where there is none
\* within its limit (parse and next_after, cron.rs), for any calendar, texts, starts
\* and limit.
THEOREM FirstMatchHolds == CronSpec => []FirstMatch
<1>1. CronInit => SearchInv
  BY SearchInit
<1>2. SearchInv /\ [CronNext]_cronVars => SearchInv'
  BY SearchStep
<1>3. SearchInv => FirstMatch
  BY SearchGivesFirst
<1> QED BY <1>1, <1>2, <1>3, PTL DEF CronSpec

=============================================================================
