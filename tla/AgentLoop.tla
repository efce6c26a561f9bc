------------------------------ MODULE AgentLoop ------------------------------
(***************************************************************************)
(* The desktop agent loop (crates/lucy-runtime/src/agent_loop.rs): one slow *)
(* call plans a list of objectives, the fast lane pursues each of them, a   *)
(* failed one may be replanned, and a last check decides what is reported   *)
(* and whether the plan is cached for the next identical goal.  What the    *)
(* page, the verifier and the planner answer is the environment's choice;   *)
(* Perception.tla models how their answers are read.                        *)
(***************************************************************************)
EXTENDS Integers, Sequences

CONSTANTS Plans, Revisions,  \* the lists a planner may write, before they are parsed
          MaxObjectives,     \* how many of their entries are read
          Fallback,          \* fallback_objective()
          MaxLlm, MaxRecoveries, MaxActs, Attempts, MaxRepeats,  \* AgentBudget
          ReplanOnFailure,
          MaxRuns            \* bound on the runs of the one goal

ASSUME AgentLoopAssumption ==
  /\ MaxObjectives \in Nat /\ MaxLlm \in Nat /\ MaxRecoveries \in Nat /\ MaxActs \in Nat \ {0}
  /\ Attempts \in Nat \ {0} /\ MaxRepeats \in Nat \ {0} /\ Attempts > MaxRepeats
  /\ ReplanOnFailure \in BOOLEAN

VARIABLES at,          \* where the run is
          halt,        \* the interrupt signal
          objectives, index,  \* the plan as it stands, and the cursor
          planned,     \* PHASE 1's plan, kept for the cache
          fromCache, navigated, byNavigation,
          acts, llm, recoveries, done, failed, vacuous,  \* AgentRunStats; failed: objectives_failed is not empty
          attempt, repeats, submitted, landed,  \* pursue_with_origin()
          outcome, cache,
          lateActs,        \* acts and key presses since the interrupt was fired
          hollow,      \* an objective was passed over as unproven
          sound,       \* the cached plan is one whose objectives all verified
          runs

pursuit == <<attempt, repeats, submitted, landed>>
plan    == <<objectives, planned, fromCache, navigated>>
counts   == <<acts, llm, recoveries, done, failed, vacuous, byNavigation>>
ending  == <<outcome, cache, sound>>
agentVars == <<at, halt, index, lateActs, hollow, runs, pursuit, plan, counts, ending>>

None == << >>
Running == at # "idle"

\* sanitize_probe(): prose, statements and calls with an effect are no probe.
Sane(probe) == probe = "expression"

\* parse_objectives(): of the first entries those that say what is to be done.
Parsed(list) ==
  LET read == SelectSeq(SubSeq(list, 1, IF Len(list) < MaxObjectives THEN Len(list) ELSE MaxObjectives),
                        LAMBDA e : e.described)
  IN [i \in 1..Len(read) |-> [probe |-> Sane(read[i].probe), kind |-> read[i].kind,
                              suggested |-> read[i].suggested]]

\* The fast-act budget, tested before an objective and before each attempt.
AgentSpent == acts >= MaxActs
\* check_interrupt() at the top of an attempt.
GoesOn == ~halt
Current == objectives[index + 1]

AgentInit ==
  /\ at = "idle" /\ halt = FALSE /\ objectives = << >> /\ index = 0 /\ planned = << >>
  /\ fromCache = FALSE /\ navigated = FALSE /\ byNavigation = FALSE
  /\ acts = 0 /\ llm = 0 /\ recoveries = 0 /\ done = 0 /\ failed = FALSE /\ vacuous = 0
  /\ attempt = 0 /\ repeats = 0 /\ submitted = FALSE /\ landed = FALSE
  /\ outcome = "none" /\ cache = None
  /\ lateActs = 0 /\ hollow = FALSE /\ sound = TRUE /\ runs = 0

\* A run starts on fresh counters, and the caller has reset the signal.
BeginRun ==
  /\ ~Running /\ runs < MaxRuns
  /\ runs' = runs + 1 /\ at' = "start" /\ halt' = FALSE /\ outcome' = "none"
  /\ objectives' = << >> /\ index' = 0 /\ planned' = << >> /\ fromCache' = FALSE
  /\ navigated' = FALSE /\ byNavigation' = FALSE
  /\ acts' = 0 /\ llm' = 0 /\ recoveries' = 0 /\ done' = 0 /\ failed' = FALSE /\ vacuous' = 0
  /\ lateActs' = 0 /\ hollow' = FALSE
  /\ UNCHANGED <<pursuit, cache, sound>>

AgentFire ==
  /\ Running /\ ~halt /\ halt' = TRUE
  /\ UNCHANGED <<at, index, lateActs, hollow, runs, pursuit, plan, counts, ending>>

\* check_interrupt() fails: the run leaves with Cancelled, the cache untouched.
Cancelled ==
  /\ halt /\ at' = "idle" /\ outcome' = "cancelled"
  /\ UNCHANGED <<halt, index, lateActs, hollow, runs, pursuit, plan, counts, cache, sound>>

----------------------------------------------------------------------------
(* PHASES 0 and 1 *)

\* go_to_named_site(): it navigates when the goal holds a URL it is not on yet.
NamedSite(goes) ==
  /\ at = "start" /\ ~halt
  /\ navigated' = goes /\ at' = "plan"
  /\ UNCHANGED <<halt, index, lateActs, hollow, runs, pursuit, objectives, planned, fromCache,
                 counts, ending>>

\* The list the run goes by.  That PHASE 0 navigated counts as an arrival only
\* for a plan of one objective.
Adopts(list, cached) ==
  /\ objectives' = list /\ planned' = list /\ fromCache' = cached
  /\ navigated' = (navigated /\ Len(list) = 1)
  /\ at' = "loop"

\* llm_json_capped(): one call, and one identical retry when nothing usable came
\* back.  The retry is not tested against the budget.
Calls(n) == n \in 1..2 /\ llm' = llm + n

Plan ==
  /\ at = "plan"
  /\ \/ llm >= MaxLlm /\ Adopts(<<Fallback>>, FALSE) /\ UNCHANGED llm
     \/ llm < MaxLlm /\ cache # None /\ Adopts(cache, TRUE) /\ UNCHANGED llm
     \/ /\ llm < MaxLlm /\ cache = None
        /\ \E n \in 1..2, list \in Plans \cup {<< >>} :
             /\ Calls(n)
             /\ Adopts(IF Parsed(list) = << >> THEN <<Fallback>> ELSE Parsed(list), FALSE)
  /\ UNCHANGED <<halt, index, lateActs, hollow, runs, pursuit, acts, recoveries, done, failed,
                 vacuous, byNavigation, ending>>

----------------------------------------------------------------------------
(* PHASE 2 *)

\* The top of drive()'s loop.
NextObjective ==
  /\ at = "loop"
  /\ \/ Cancelled /\ index < Len(objectives)
     \/ /\ ~halt \/ index >= Len(objectives)
        /\ at' = IF index < Len(objectives) /\ ~AgentSpent THEN "probe" ELSE "summary"
        /\ UNCHANGED <<halt, index, lateActs, hollow, runs, pursuit, plan, counts, ending>>

\* What drive() does with an exit.  A failed objective goes on the books before
\* the replan, an unproven one buys no slow call.
Satisfied ==
  /\ done' = done + 1 /\ index' = index + 1 /\ at' = "loop" /\ UNCHANGED <<failed, hollow>>
Fails ==
  /\ failed' = TRUE /\ at' = "replan" /\ UNCHANGED <<done, index, hollow>>

\* Slip: a probe that was already true is skipped without a mark against the run.
UnprovenUncounted ==
  /\ failed' = TRUE /\ index' = index + 1 /\ at' = "loop" /\ hollow' = TRUE
  /\ UNCHANGED <<done, vacuous>>
Unproven ==
  /\ failed' = TRUE /\ vacuous' = vacuous + 1 /\ index' = index + 1 /\ at' = "loop"
  /\ hollow' = TRUE /\ UNCHANGED done

\* pursue_with_origin() asks the objective's probe once before it acts: a probe
\* that already holds is an arrival, redundant work, or no evidence at all.
PreProbe(holds) ==
  /\ at = "probe" /\ (holds => Current.probe)
  /\ \/ /\ ~holds /\ at' = "attempt"
        /\ attempt' = 1 /\ repeats' = 0 /\ submitted' = FALSE /\ landed' = FALSE
        /\ UNCHANGED <<index, done, failed, vacuous, byNavigation, hollow>>
     \/ /\ holds /\ navigated /\ done = 0
        /\ Satisfied /\ byNavigation' = TRUE /\ UNCHANGED <<vacuous, pursuit>>
     \/ /\ holds /\ done > 0
        /\ Satisfied /\ vacuous' = vacuous + 1 /\ UNCHANGED <<byNavigation, pursuit>>
     \/ /\ holds /\ ~navigated /\ done = 0
        /\ Unproven /\ UNCHANGED <<byNavigation, pursuit>>
  /\ UNCHANGED <<halt, lateActs, runs, plan, acts, llm, recoveries, ending>>

\* A step of the pursuit that ends nothing but the objective, or goes on.
Stays == UNCHANGED <<halt, runs, plan, llm, recoveries, vacuous, byNavigation, ending>>

\* The top of an attempt: the interrupt, the act budget, and what the screen
\* shows.  A screen that stays the same MaxRepeats times has the probe decide.
AgentPerceives(same, blank) ==
  LET seen == IF same THEN repeats + 1 ELSE 0 IN
  /\ at = "attempt" /\ (same => attempt > 1 /\ ~blank)
  /\ \/ Cancelled
     \/ /\ GoesOn /\ Stays /\ UNCHANGED <<acts, lateActs, attempt, submitted, landed>>
        /\ \/ /\ AgentSpent /\ Fails /\ UNCHANGED repeats
           \/ /\ ~AgentSpent /\ repeats' = seen
              /\ \/ seen >= MaxRepeats /\ Current.probe /\ Satisfied
                 \/ (seen >= MaxRepeats \/ blank) /\ Fails
                 \/ /\ seen < MaxRepeats /\ ~blank
                    /\ \/ at' = "act" /\ UNCHANGED <<index, done, failed, hollow>>
                       \/ ~Current.suggested /\ Fails   \* decide_target() is not confident

\* act_once(): counted before it is known to work.
Act(ok) ==
  /\ at = "act" /\ at' = "verify" /\ landed' = ok
  /\ acts' = acts + 1 /\ lateActs' = IF halt THEN lateActs + 1 ELSE lateActs
  /\ Stays /\ UNCHANGED <<index, hollow, attempt, repeats, submitted, done, failed>>

\* verify(): satisfied ends the objective.  An undecided answer gets one wait and
\* one more look while attempts are left.
Verify(verdict) ==
  /\ at = "verify" /\ Stays /\ UNCHANGED <<acts, lateActs, pursuit>>
  /\ \/ verdict = "yes" /\ Satisfied
     \/ /\ verdict # "yes"
        /\ at' = IF verdict = "unsure" /\ attempt < Attempts THEN "settle" ELSE "recover"
        /\ UNCHANGED <<index, done, failed, hollow>>

Settle(verdict) ==
  /\ at = "settle" /\ Stays /\ UNCHANGED <<acts, lateActs, pursuit>>
  /\ \/ verdict = "yes" /\ Satisfied
     \/ verdict # "yes" /\ at' = "recover" /\ UNCHANGED <<index, done, failed, hollow>>

\* The next attempt, or the closing look.
TriesOn == IF attempt < Attempts THEN attempt' = attempt + 1 /\ at' = "attempt"
                                 ELSE at' = "last" /\ UNCHANGED attempt

\* The submit recovery: one Enter for an objective whose typing landed.
Recover(verdict) ==
  /\ at = "recover" /\ Stays /\ UNCHANGED <<acts, repeats, landed>>
  /\ LET submits == ~submitted /\ landed /\ Current.kind = "type" IN
     /\ submitted' = (submitted \/ submits)
     /\ lateActs' = IF submits /\ halt THEN lateActs + 1 ELSE lateActs
     /\ \/ submits /\ verdict = "yes" /\ Satisfied /\ UNCHANGED attempt
        \/ ~(submits /\ verdict = "yes") /\ TriesOn /\ UNCHANGED <<index, done, failed, hollow>>

LastVerify(verdict) ==
  /\ at = "last" /\ Stays /\ UNCHANGED <<acts, lateActs, pursuit>>
  /\ IF verdict = "yes" THEN Satisfied ELSE Fails

----------------------------------------------------------------------------
(* PHASES 3 and 4 *)

\* Slip: an objective that gets no replan is tried again.
SkipsNot == UNCHANGED <<index, objectives>>
Skips == index' = index + 1 /\ UNCHANGED objectives

\* replan(): refused by the configuration or a budget, else one slow call whose
\* revised list, the empty one included, replaces what is left.
Replan ==
  /\ at = "replan" /\ at' = "loop"
  /\ \/ /\ ~ReplanOnFailure \/ recoveries >= MaxRecoveries \/ llm >= MaxLlm
        /\ Skips /\ UNCHANGED <<recoveries, llm>>
     \/ /\ ReplanOnFailure /\ recoveries < MaxRecoveries /\ llm < MaxLlm
        /\ recoveries' = recoveries + 1
        /\ \E n \in 1..2 :
             /\ Calls(n)
             /\ \/ Skips
                \/ \E revised \in Revisions :
                     objectives' = SubSeq(objectives, 1, index) \o Parsed(revised) /\ UNCHANGED index
  /\ UNCHANGED <<halt, lateActs, hollow, runs, pursuit, planned, fromCache, navigated, acts, done,
                 failed, vacuous, byNavigation, ending>>

\* final_summary(): the last objective's probe, or the verifier's view of the
\* goal when there is none that ran.
Probed == objectives # << >> /\ objectives[Len(objectives)].probe
Goal == {v \in {"yes", "no", "unsure"} : objectives = << >> => v = "unsure"}

Complete(overall, probed) ==
  \/ /\ Len(objectives) > 0 /\ done = Len(objectives) /\ ~failed
     /\ ~(probed /\ overall = "no" /\ ~byNavigation)
  \/ overall = "yes" /\ vacuous = 0

\* run_agent_loop_with(): a completed fresh run caches PHASE 1's plan, a cached
\* plan that did not complete is evicted.
Kept(complete) ==
  IF complete /\ ~fromCache /\ planned # << >>
  THEN cache' = planned /\ sound' = (~failed /\ objectives = planned)
  ELSE /\ cache' = IF ~complete /\ fromCache THEN None ELSE cache
       /\ sound' = (sound \/ cache' = None)

Summarise ==
  /\ at = "summary"
  /\ \/ Cancelled
     \/ /\ ~halt /\ at' = "idle"
        /\ \E overall \in Goal, probed \in {FALSE, Probed} :
             /\ probed => overall # "unsure"
             /\ LET complete == Complete(overall, probed) IN
                outcome' = (IF complete THEN "complete" ELSE "partial") /\ Kept(complete)
        /\ UNCHANGED <<halt, index, lateActs, hollow, runs, pursuit, plan, counts>>

----------------------------------------------------------------------------
Judgements == {"yes", "no", "unsure"}
Pursues ==
  \/ \E holds \in BOOLEAN : PreProbe(holds)
  \/ \E same, blank \in BOOLEAN : AgentPerceives(same, blank)
  \/ \E ok \in BOOLEAN : Act(ok)
  \/ \E v \in Judgements : Verify(v) \/ Settle(v) \/ Recover(v) \/ LastVerify(v)
Proceeds ==
  \/ at = "start" /\ Cancelled
  \/ \E goes \in BOOLEAN : NamedSite(goes)
  \/ Plan \/ NextObjective \/ Pursues \/ Replan \/ Summarise
AgentNext == BeginRun \/ AgentFire \/ Proceeds

AgentSpec == AgentInit /\ [][AgentNext]_agentVars

----------------------------------------------------------------------------
\* A run that passed over an objective because its evidence held before anything
\* was done is never reported complete, whatever the last check says: the false
\* "Goal completed" the vacuous-probe guard was written against.
HollowNeverComplete == outcome = "complete" => ~hollow

\* Every run ends, however the planner revises and the screen behaves.
AgentRunEnds == Running ~> ~Running

\* What is behind it: an outcome stands only between runs, and an objective that
\* was passed over has left both marks that final_summary() asks about.
HollowInv ==
  /\ vacuous \in Nat
  /\ Running => outcome = "none"
  /\ hollow => failed /\ vacuous > 0
  /\ HollowNeverComplete
=============================================================================
