---------------------------- MODULE MCScheduling ---------------------------
(***************************************************************************)
(* lucy-scheduler in one run: the executor of background jobs, the          *)
(* scheduler, and the cron expressions it re-arms its tasks with.  They     *)
(* share no variable, so a behaviour moves one of them and the states are   *)
(* the sum of theirs, not the product: a property of one holds here exactly *)
(* when it holds of that one alone.                                         *)
(***************************************************************************)
EXTENDS Executor, Scheduler, Cron

CONSTANTS daily, often, p1, j1, j2, j3

VARIABLE part   \* which of them moves

MCSize == [minute |-> 4, hour |-> 2, day_of_month |-> 3, month |-> 2, day_of_week |-> 3]

T(form, a, b, n, v, vs) == [form |-> form, a |-> a, b |-> b, n |-> n, v |-> v, vs |-> vs]
Star == T("*", 0, 0, 0, 0, {})

\* Every text of every form with numbers up to 4.
Written ==
  {Star}
  \cup {T("*/n", 0, 0, n, 0, {}) : n \in 0..4}
  \cup {T("v", 0, 0, 0, v, {}) : v \in 0..4}
  \cup {T("a-b", a, b, 0, 0, {}) : a \in 0..4, b \in 0..4}
  \cup {T("list", 0, 0, 0, 0, {v, w}) : v \in 0..4, w \in 0..4}
  \cup {T("a/n", a, 0, n, 0, {}) : a \in 0..3, n \in 0..3}
  \cup {T("a-b/n", a, b, n, 0, {}) : a \in 0..3, b \in 2..4, n \in 0..2}

\* A few that leave something to search for.
Few == {Star, T("v", 0, 0, 0, 1, {}), T("a-b", 1, 2, 0, 0, {}), T("*/n", 0, 0, 2, 0, {}),
        T("a/n", 1, 0, 1, 0, {})}

AllStar == [f \in Fields |-> Star]

\* One field written in every way, or three fields in a few ways.
MCTexts ==
  {[AllStar EXCEPT ![f] = s] : f \in Fields, s \in Written}
  \cup {[AllStar EXCEPT !["minute"] = s, ![f] = u, ![g] = v] :
           s \in Few, u \in Few, v \in Few, f \in {"hour", "day_of_month"},
           g \in {"month", "day_of_week"}}

\* The scheduler's tasks carry `* * * * *` and `1/2 * * * *`: the minutes given
\* to the scheduler are the ones Cron's matcher accepts.
MCFires == [t \in Tasks |-> IF t = often THEN 1..MaxClock ELSE {2, 4}]
Carried(t) == IF t = often THEN AllStar ELSE [AllStar EXCEPT !["minute"] = T("a/n", 1, 0, 2, 0, {})]
MinutesOf(ts) == {m \in 1..MaxClock :
                    ExprMatches([f \in Fields |-> Parse(ts[f], Lowest[f], Highest(f))], m)}
ASSUME FiresAssumption == \A t \in Tasks : MCFires[t] = MinutesOf(Carried(t))

\* Cron's first question, for the behaviours in which it stays where it is.
CronRests ==
  /\ text = AllStar /\ from = 0 /\ expr = << >> /\ candidate = 0 /\ stage = "text"

MCInit ==
  /\ Init /\ SchedulerInit
  /\ \/ part \in {"executor", "scheduler"} /\ CronRests
     \/ part = "cron" /\ CronInit

MCNext ==
  \/ part = "executor" /\ Next /\ UNCHANGED <<schedulerVars, cronVars, part>>
  \/ part = "scheduler" /\ SchedulerNext /\ UNCHANGED <<vars, cronVars, part>>
  \/ part = "cron" /\ CronNext /\ UNCHANGED <<vars, schedulerVars, part>>

\* Each keeps the fairness of its own specification in the behaviours it moves in.
MCSpec ==
  /\ MCInit /\ [][MCNext]_<<vars, schedulerVars, cronVars, part>>
  /\ \A j \in Jobs : /\ SF_vars(part = "executor" /\ Acquire(j))
                     /\ WF_vars(part = "executor" /\ Store(j))
                     /\ WF_vars(part = "executor" /\ Runs(j))
  /\ \A p \in Pollers : /\ WF_schedulerVars(part = "scheduler" /\ Poll(p))
                        /\ WF_schedulerVars(part = "scheduler" /\ Continues(p))
=============================================================================
