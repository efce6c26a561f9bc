-------------------------------- MODULE Turn --------------------------------
(***************************************************************************)
(* One turn of lucy-runtime (crates/lucy-runtime/src/turn.rs): classify_turn *)
(* asks the classifier and the routing model side by side and settles on a  *)
(* branch or on an error; plan_commands has a command list made, and        *)
(* execute_plan_sequentially runs it step by step under the approval gate   *)
(* and the kill switch.  What a model answers is a choice; a planned command *)
(* is what the code asks of it: whether it opens a page, touches the page,  *)
(* names its element, is known, and wants approval.                         *)
(***************************************************************************)
EXTENDS Integers, Sequences, SequencesExt, FiniteSets

CONSTANTS Requests,  \* what users ask for
          Commands,  \* the commands a planner may name
          MaxPlan,   \* bound on the commands of one plan (24 in the code)
          CacheMax,  \* decisions kept before the cache is cleared (256)
          MaxTurns   \* bound on turns

ASSUME TurnAssumption ==
  /\ MaxPlan \in Nat /\ CacheMax \in Nat \ {0} /\ MaxTurns \in Nat
  /\ Commands \subseteq [opens : BOOLEAN, touches : BOOLEAN, named : BOOLEAN,
                         known : BOOLEAN, risky : BOOLEAN]

Intents    == {"action", "question"}
Undecided  == "undecided"
Gone       == "unavailable"
Waiting    == "waiting"
Word(b, s) == [branch |-> b, sure |-> s]

VARIABLES stage,    \* "idle", "classifying", "routed", "error", "planning", "check",
                    \* "asking", "calling", "retrying", "planned", "abandoned"
          request,  \* what this turn is about
          verdict,  \* the classifier's word: a branch, Waiting or Gone, and
            \* whether its confidence is over the floor
          second,   \* the routing model: "unasked", Waiting, an intent, Undecided, Gone
          branch,   \* where the turn was routed
          cache,    \* the routing model's decisions, by request
          stop,     \* the interrupt signal
          sink,     \* whether the gate publishes to this run
          plan, at, \* the sanitised plan and the step it is at
          done,     \* the calls made: the step and how it went
          late,     \* the steps called after the stop
          turns

turnVars == <<stage, request, verdict, second, branch, cache, stop, sink,
              plan, at, done, late, turns>>
asked    == <<request, verdict, second, branch, cache>>
running  == <<sink, plan, at, done, late>>

TurnInit ==
  /\ stage = "idle" /\ request \in Requests /\ verdict = Word(Waiting, FALSE) /\ second = "unasked"
  /\ branch = "none" /\ cache = << >>
  /\ stop = FALSE /\ sink = FALSE
  /\ plan = << >> /\ at = 0 /\ done = << >> /\ late = {} /\ turns = 0

----------------------------------------------------------------------------
(* Routing *)

\* A turn begins: save_user_message has reset the interrupt.
Receive(r) ==
  /\ stage = "idle" /\ turns < MaxTurns
  /\ stage' = "classifying" /\ request' = r /\ stop' = FALSE /\ turns' = turns + 1
  /\ verdict' = Word(Waiting, FALSE) /\ second' = "unasked" /\ branch' = "none"
  /\ UNCHANGED <<cache, running>>

\* route_turn in manual chat mode: the classifier is skipped.
RouteManually ==
  /\ stage = "classifying" /\ second = "unasked" /\ verdict.branch = Waiting
  /\ stage' = "idle"
  /\ UNCHANGED <<asked, stop, running, turns>>

\* classify_turn with the classifier disabled or without a client.
NoClassifier ==
  /\ stage = "classifying" /\ second = "unasked" /\ verdict.branch = Waiting
  /\ stage' = "error" /\ verdict' = Word(Gone, FALSE)
  /\ UNCHANGED <<request, second, branch, cache, stop, running, turns>>

Classified ==
  /\ stage = "classifying" /\ verdict.branch = Waiting
  /\ verdict' \in {Word(Gone, FALSE)} \cup {Word(b, sure) : b \in Intents, sure \in BOOLEAN}
  /\ UNCHANGED <<stage, request, second, branch, cache, stop, running, turns>>

Known == request \in DOMAIN cache

\* verify_turn_intent_detailed: a stop, the cache, or a call.
AskSecond ==
  /\ stage = "classifying" /\ second = "unasked"
  /\ second' = IF stop THEN Gone ELSE IF Known THEN cache[request] ELSE Waiting
  /\ UNCHANGED <<stage, request, verdict, branch, cache, stop, running, turns>>

Cached(c, i) ==
  LET kept == IF Cardinality(DOMAIN c) >= CacheMax THEN {} ELSE DOMAIN c
  IN [q \in kept \cup {request} |-> IF q = request THEN i ELSE c[q]]

\* Only a stated intent is kept.
SecondAnswers ==
  /\ stage = "classifying" /\ second = Waiting
  /\ second' \in Intents \cup {Undecided, Gone}
  /\ IF second' \in Intents THEN cache' = Cached(cache, second') ELSE UNCHANGED cache
  /\ UNCHANGED <<stage, request, verdict, branch, stop, running, turns>>

\* classify_turn's table: a stated intent wins, an undecided model leaves a sure
\* classifier's word, and everything else is no verdict.
Settled(v, s) ==
  IF v.branch = Gone \/ s = Gone THEN "none"
  ELSE IF s \in Intents THEN s
  ELSE IF v.sure THEN v.branch ELSE "none"

Settle ==
  /\ stage = "classifying" /\ verdict.branch # Waiting /\ second \notin {"unasked", Waiting}
  /\ branch' = Settled(verdict, second)
  /\ stage' = IF branch' = "none" THEN "error" ELSE "routed"
  /\ UNCHANGED <<request, verdict, second, cache, stop, running, turns>>

Answered ==
  /\ stage \in {"routed", "error", "planned", "abandoned"}
  /\ stage' = "idle" /\ plan' = << >> /\ at' = 0 /\ done' = << >> /\ late' = {}
  /\ UNCHANGED <<asked, stop, sink, turns>>

----------------------------------------------------------------------------
(* Plans *)

\* parse_plan, validate_step, is_dom_interaction: all that is asked of a command.
Parsed    == SeqOf(Commands, MaxPlan)
Step      == plan[at]
Validated == Step.known
Interacts == Step.touches

HintAct == [opens |-> FALSE, touches |-> TRUE, named |-> TRUE, known |-> TRUE, risky |-> FALSE]

\* sanitize_plan: a command that needs an element and names none is turned into
\* hint_act, and a plan that ends by opening a page gets one more.
Sanitised(cs, openOnly) ==
  LET fixed == [i \in DOMAIN cs |-> IF cs[i].touches /\ ~cs[i].named THEN HintAct ELSE cs[i]]
  IN IF cs # << >> /\ Last(fixed).opens /\ ~openOnly THEN Append(fixed, HintAct) ELSE fixed

\* execute_goal: a turn about a goal.
PlanGoal(r) ==
  /\ stage = "idle" /\ turns < MaxTurns
  /\ stage' = "planning" /\ request' = r /\ stop' = FALSE /\ turns' = turns + 1
  /\ plan' = << >> /\ at' = 1 /\ done' = << >> /\ late' = {}
  /\ UNCHANGED <<verdict, second, branch, cache, sink>>

\* plan_commands: nothing when stopped or when the model fails.  An empty plan
\* leaves the goal to the agent loop.
PlanCommands ==
  /\ stage = "planning"
  /\ \E cs \in Parsed, openOnly \in BOOLEAN :
       /\ stop => cs = << >>
       /\ plan' = Sanitised(cs, openOnly)
  /\ stage' = IF plan' = << >> THEN "planned" ELSE "check"
  /\ sink' = (plan' # << >>)
  /\ UNCHANGED <<asked, stop, at, done, late, turns>>

Leave == stage' = "abandoned" /\ sink' = FALSE

\* Slip: the kill switch is looked at when the plan begins.
CheckUnstopped ==
  /\ stage = "check" /\ at <= Len(plan)
  /\ IF (stop /\ at = 1) \/ ~Validated THEN Leave
     ELSE stage' = (IF Step.risky THEN "asking" ELSE "calling") /\ UNCHANGED sink
  /\ UNCHANGED <<asked, stop, plan, at, done, late, turns>>

\* Per step: the kill switch, the catalog, the approval.
CheckStep ==
  /\ stage = "check" /\ at <= Len(plan)
  /\ IF stop \/ ~Validated THEN Leave
     ELSE stage' = (IF Step.risky THEN "asking" ELSE "calling") /\ UNCHANGED sink
  /\ UNCHANGED <<asked, stop, plan, at, done, late, turns>>

\* ask_cancellable: allowed; denied or timed out; stopped.
Decided ==
  /\ stage = "asking"
  /\ \/ stage' = "calling" /\ UNCHANGED sink
     \/ Leave
  /\ UNCHANGED <<asked, stop, plan, at, done, late, turns>>

Went(r) == Append(done, [step |-> at, went |-> r])

\* The call, after the pause a fresh page gets; a failed page interaction is
\* called once more, after a pause and without a look at the kill switch.
Call ==
  /\ stage \in {"calling", "retrying"}
  /\ \E r \in {"ok", "failed", "broken"} :
       /\ done' = Went(r)
       /\ \/ r = "ok" /\ stage' = "check" /\ at' = at + 1 /\ UNCHANGED sink
          \/ r = "failed" /\ Interacts /\ stage = "calling"
             /\ stage' = "retrying" /\ UNCHANGED <<at, sink>>
          \/ r = "failed" /\ ~(Interacts /\ stage = "calling") /\ Leave /\ UNCHANGED at
          \/ r = "broken" /\ Leave /\ UNCHANGED at
  /\ late' = IF stop THEN late \cup {at} ELSE late
  /\ UNCHANGED <<asked, stop, plan, turns>>

PlanEnds ==
  /\ stage = "check" /\ at > Len(plan)
  /\ stage' = "planned" /\ sink' = FALSE
  /\ UNCHANGED <<asked, stop, plan, at, done, late, turns>>

Stop ==
  /\ stage # "idle" /\ ~stop /\ stop' = TRUE
  /\ UNCHANGED <<stage, asked, running, turns>>

TurnNext ==
  \/ \E r \in Requests : Receive(r) \/ PlanGoal(r)
  \/ RouteManually \/ NoClassifier \/ Classified \/ AskSecond \/ SecondAnswers \/ Settle
  \/ PlanCommands \/ CheckStep \/ Decided \/ Call \/ PlanEnds \/ Answered \/ Stop

TurnSpec == TurnInit /\ [][TurnNext]_turnVars

----------------------------------------------------------------------------

\* After a stop at most the step in hand is called, and no prompt is opened.
StopEndsPlan == Cardinality(late) <= 1

\* What is behind it: once a step was called after the stop, the plan is over but
\* for that step's second try.
LateInv ==
  late # {} => /\ stop /\ stage \in {"retrying", "check", "planned", "abandoned"}
               /\ \E i \in late : late = {i} /\ (stage = "retrying" => i = at)
=============================================================================
