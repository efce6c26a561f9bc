------------------------------ MODULE ReactLoop ------------------------------
(***************************************************************************)
(* lucy-runtime's ReAct loop (crates/lucy-runtime/src/react.rs): perceive,  *)
(* decide, execute, observe, until the model stops asking for tool calls    *)
(* and a check agrees the goal is done.  The model, the tools, the page     *)
(* checks, the user at the approval gate and the kill switch are the        *)
(* environment.  An action is the code between two awaits, so the kill      *)
(* switch can fire between any two of them.                                 *)
(***************************************************************************)
EXTENDS Integers

CONSTANTS MaxLlmCallsSingleTask,  \* config.harness.max_llm_calls_single_task
          ToolsPerDecision,       \* DEFAULT_TOOLS_PER_DECISION
          MaxCalls                \* bound: calls the model names in one decision

ASSUME BudgetAssumption ==
  /\ MaxLlmCallsSingleTask \in Nat
  /\ ToolsPerDecision \in Nat \ {0}
  /\ MaxCalls \in Nat

\* ReactBudget::from_config.
MaxLlmCalls  == IF MaxLlmCallsSingleTask = 0 THEN 1 ELSE MaxLlmCallsSingleTask
MaxToolCalls == MaxLlmCalls * ToolsPerDecision

VARIABLES pc,
          stats,      \* ReactStats, without fast_checks
          stop,       \* ReactStop, "None" while the run goes on
          interrupt,  \* the InterruptSignal's flag
          left,       \* calls of the current decision not yet dispatched
          probe,      \* the decision carries a page probe
          fast,       \* where the loop's own look at the screen or the page is
          verdict,    \* history: what the last check said, "None" before any
          executed,   \* history: calls of the model's the registry ran
          late,       \* history: tool calls begun after the stop fired
          asked       \* history: prompts published after the stop fired

vars == <<pc, stats, stop, interrupt, left, probe, fast, verdict, executed, late, asked>>

Points   == {"perceive", "locate", "check", "deciding", "execute", "ask", "running",
             "observe", "grade", "over"}
Looks    == {"due", "asking", "running", "answered", "failed"}
Verdicts == {"True", "False", "Unavailable"}
Fields   == {"llm_calls", "tool_calls", "tool_errors", "unknown_tools", "denials",
             "completion_claims", "claims_refuted", "weak_confirmations",
             "vacuous_completions"}

TypeOK ==
  /\ pc \in Points
  /\ stats \in [Fields -> Nat]
  /\ stop \in {"None", "Complete", "BudgetExhausted", "Interrupted"}
  /\ interrupt \in BOOLEAN
  /\ left \in 0..MaxCalls
  /\ probe \in BOOLEAN
  /\ fast \in Looks
  /\ verdict \in Verdicts \cup {"None"}
  /\ executed \in Nat
  /\ late \in Nat
  /\ asked \in Nat

Init ==
  /\ pc = "perceive"
  /\ stats = [f \in Fields |-> 0]
  /\ stop = "None"
  /\ interrupt = FALSE
  /\ left = 0
  /\ probe = FALSE
  /\ fast = "due"
  /\ verdict = "None"
  /\ executed = 0
  /\ late = 0
  /\ asked = 0

Count(fields) == stats' = [f \in Fields |-> IF f \in fields THEN stats[f] + 1 ELSE stats[f]]
Goto(p)       == pc' = p /\ UNCHANGED stop
StopWith(s)   == pc' = "over" /\ stop' = s
Late(n)       == IF interrupt THEN n + 1 ELSE n

----------------------------------------------------------------------------
(* call_fast: the loop's own looks go through the registry and the gate like *)
(* the model's calls, and none of them tests the interrupt.                  *)

\* perceive()'s two, the probe beside the calls, the check of a claim.
Looking == pc \in {"perceive", "locate", "grade"} \/ (pc = "observe" /\ probe)
Looked  == fast \in {"answered", "failed"}

\* Nothing is called when the catalog lacks the tool or the probe is not a
\* predicate the sanitizer lets through.
FastCall(call) ==
  /\ Looking /\ fast = "due"
  /\ \/ call = "unknown" /\ fast' = "failed" /\ UNCHANGED <<late, asked>>
     \/ call = "gated" /\ fast' = "asking" /\ asked' = Late(asked) /\ UNCHANGED late
     \/ call = "free" /\ fast' = "running" /\ late' = Late(late) /\ UNCHANGED asked
  /\ UNCHANGED <<pc, stats, stop, interrupt, left, probe, verdict, executed>>

\* Allowed, the look goes ahead, also when the stop fired with the answer.
FastAsked(allow) ==
  /\ fast = "asking"
  /\ \/ allow /\ fast' = "running" /\ late' = Late(late)
     \/ ~allow /\ fast' = "failed" /\ UNCHANGED late
  /\ UNCHANGED <<pc, stats, stop, interrupt, left, probe, verdict, executed, asked>>

\* ask_cancellable returns None, and the look alone is given up.
FastStopped ==
  /\ fast = "asking" /\ interrupt
  /\ fast' = "failed"
  /\ UNCHANGED <<pc, stats, stop, interrupt, left, probe, verdict, executed, late, asked>>

FastReturns ==
  /\ fast = "running"
  /\ fast' = "answered"
  /\ UNCHANGED <<pc, stats, stop, interrupt, left, probe, verdict, executed, late, asked>>

----------------------------------------------------------------------------
(* drive *)

\* perceive_screen, then current_page_url; what either fails to say is left out.
Perceive ==
  /\ pc \in {"perceive", "locate"} /\ Looked
  /\ Goto(IF pc = "perceive" THEN "locate" ELSE "check")
  /\ fast' = "due"
  /\ UNCHANGED <<stats, interrupt, left, probe, verdict, executed, late, asked>>

Spent == \/ stats["llm_calls"] >= MaxLlmCalls
         \/ stats["tool_calls"] >= MaxToolCalls

\* stop_if_spent and, when it lets the run go on, the call decide() makes.
Check ==
  /\ pc = "check"
  /\ \/ interrupt /\ StopWith("Interrupted") /\ UNCHANGED stats
     \/ ~interrupt /\ Spent /\ StopWith("BudgetExhausted") /\ UNCHANGED stats
     \/ ~interrupt /\ ~Spent /\ Goto("deciding") /\ Count({"llm_calls"})
  /\ UNCHANGED <<interrupt, left, probe, fast, verdict, executed, late, asked>>

\* parse_decision() keeps the entries that name a tool, at most MaxCalls of them;
\* the words and the probe may be there or not, whatever the calls.
Decisions == [calls : 0..MaxCalls, text : BOOLEAN, probe : BOOLEAN]

\* Slip: an empty reply is asked for again on the spot.
DecideAgain(n, text, p) ==
  /\ pc = "deciding"
  /\ probe' = p
  /\ \/ n > 0 /\ Goto("execute") /\ left' = n /\ UNCHANGED stats
     \/ n = 0 /\ text /\ Goto("grade") /\ Count({"completion_claims"}) /\ UNCHANGED left
     \/ n = 0 /\ ~text /\ Goto("deciding") /\ UNCHANGED <<stats, left>>
  /\ UNCHANGED <<interrupt, fast, verdict, executed, late, asked>>

\* decide() returns a decision of n calls, with or without a probe; without
\* calls it is a completion claim when it has words, and nothing otherwise.
Decide(n, text, p) ==
  /\ pc = "deciding"
  /\ probe' = p
  /\ \/ n > 0 /\ Goto("execute") /\ left' = n /\ UNCHANGED stats
     \/ n = 0 /\ text /\ Goto("grade") /\ Count({"completion_claims"}) /\ UNCHANGED left
     \/ n = 0 /\ ~text /\ Goto("check") /\ UNCHANGED <<stats, left>>
  /\ UNCHANGED <<interrupt, fast, verdict, executed, late, asked>>

\* decide() fails; failed() then fills in the reason.
DecideFails ==
  /\ pc = "deciding"
  /\ StopWith(IF interrupt THEN "Interrupted" ELSE "BudgetExhausted")
  /\ UNCHANGED <<stats, interrupt, left, probe, fast, verdict, executed, late, asked>>

----------------------------------------------------------------------------
(* execute and execute_one: one call at a time, in the order named. *)

\* Slip: the interrupt is tested once per decision, not once per call.
HaltedOnce == interrupt /\ left = MaxCalls

\* The test execute() makes before each call.
Halted == interrupt

Run == Goto("running") /\ executed' = executed + 1 /\ late' = Late(late)

\* A call that does not run: reported to the model, and counted.
Refuse(reason) == Count({"tool_calls", reason}) /\ left' = left - 1 /\ Goto("execute")

Dispatch(call) ==
  /\ pc = "execute" /\ left > 0 /\ ~Halted
  /\ \/ call = "unknown" /\ Refuse("unknown_tools") /\ UNCHANGED <<executed, late, asked>>
     \/ call = "gated" /\ Goto("ask") /\ asked' = Late(asked)
                       /\ UNCHANGED <<stats, left, executed, late>>
     \/ call = "free" /\ Run /\ Count({"tool_calls"}) /\ UNCHANGED <<left, asked>>
  /\ UNCHANGED <<interrupt, probe, fast, verdict>>

ExecuteHalts ==
  /\ pc = "execute" /\ left > 0 /\ Halted
  /\ StopWith("Interrupted")
  /\ UNCHANGED <<stats, interrupt, left, probe, fast, verdict, executed, late, asked>>

ExecuteEnds ==
  /\ pc = "execute" /\ left = 0
  /\ Goto("observe")
  /\ UNCHANGED <<stats, interrupt, left, probe, fast, verdict, executed, late, asked>>

\* ask_cancellable answered, refused by the user or its timer, or stopped.
AskAnswered(allow) ==
  /\ pc = "ask"
  /\ \/ allow /\ Run /\ Count({"tool_calls"}) /\ UNCHANGED left
     \/ ~allow /\ Refuse("denials") /\ UNCHANGED <<executed, late>>
  /\ UNCHANGED <<interrupt, probe, fast, verdict, asked>>

AskStopped ==
  /\ pc = "ask" /\ interrupt
  /\ StopWith("Interrupted")
  /\ UNCHANGED <<stats, interrupt, left, probe, fast, verdict, executed, late, asked>>

\* The registry returns.  A stop seen here outranks the result.
ToolReturns(ok) ==
  /\ pc = "running"
  /\ \/ interrupt /\ StopWith("Interrupted") /\ UNCHANGED <<stats, left>>
     \/ ~interrupt /\ Goto("execute") /\ left' = left - 1
                   /\ Count(IF ok THEN {} ELSE {"tool_errors"})
  /\ UNCHANGED <<interrupt, probe, fast, verdict, executed, late, asked>>

\* What a look can say: nothing, when it was not made.
Said(v) == fast = "answered" \/ v = "Unavailable"

\* observe_probe puts what the page says in the transcript; it decides nothing.
Observe(v) ==
  /\ pc = "observe" /\ (probe => Looked) /\ Said(v)
  /\ verdict' = IF probe THEN v ELSE verdict
  /\ fast' = "due"
  /\ Goto("check")
  /\ UNCHANGED <<stats, interrupt, left, probe, executed, late, asked>>

----------------------------------------------------------------------------
(* grade_completion: the probe, or the screen oracle when there is none. *)

Confirmed(v) == v = "True"   \* observation::completion_check

RefutedFields(weak, vacuous) ==
  {"claims_refuted"} \cup (IF weak THEN {"weak_confirmations"} ELSE {})
                     \cup (IF vacuous THEN {"vacuous_completions"} ELSE {})

Grade(v) ==
  LET vacuous == stats["tool_calls"] = 0
      weak    == Confirmed(v) /\ ~probe
  IN  /\ pc = "grade" /\ Looked /\ Said(v)
      /\ verdict' = v
      /\ fast' = "due"
      /\ IF Confirmed(v) /\ ~vacuous
         THEN StopWith("Complete") /\ Count(IF weak THEN {"weak_confirmations"} ELSE {})
         ELSE Goto("check") /\ Count(RefutedFields(weak, Confirmed(v)))
      /\ UNCHANGED <<interrupt, left, probe, executed, late, asked>>

----------------------------------------------------------------------------
Fire ==
  /\ ~interrupt /\ pc # "over"
  /\ interrupt' = TRUE
  /\ UNCHANGED <<pc, stats, stop, left, probe, fast, verdict, executed, late, asked>>

Finished == pc = "over" /\ UNCHANGED vars

PromptStopped == AskStopped \/ FastStopped
AskReturns == PromptStopped \/ \E allow \in BOOLEAN : AskAnswered(allow) \/ FastAsked(allow)

\* Everything but the user's answer at the gate.
LoopStep ==
  \/ Perceive \/ Check \/ DecideFails
  \/ \E call \in {"unknown", "gated", "free"} : FastCall(call)
  \/ FastReturns
  \/ \E d \in Decisions : Decide(d.calls, d.text, d.probe)
  \/ \E call \in {"unknown", "gated", "free"} : Dispatch(call)
  \/ ExecuteHalts \/ ExecuteEnds
  \/ \E ok \in BOOLEAN : ToolReturns(ok)
  \/ \E v \in Verdicts : Observe(v) \/ Grade(v)

Next == LoopStep \/ AskReturns \/ Fire \/ Finished

Spec == Init /\ [][Next]_vars

\* The loop is polled, the model client and the registry return (both have
\* timeouts), and a stopped prompt returns.  Nobody need answer a prompt.
FairSpec == Spec /\ WF_vars(LoopStep) /\ WF_vars(PromptStopped)

----------------------------------------------------------------------------
\* The decision ceiling: the loop never makes more slow calls than configured,
\* refuted claims and empty replies included.
DecisionCeiling == stats["llm_calls"] <= MaxLlmCalls

\* The tool-call ceiling is tested between decisions only, so the calls of one
\* decision can pass it, and no more than one decision's.
ToolOvershoot == stats["tool_calls"] <= MaxToolCalls - 1 + MaxCalls

\* Both ceilings, as the code keeps them.
Ceilings == DecisionCeiling /\ ToolOvershoot

\* The report adds up: every counted call ran, was unknown or was denied, and
\* every claim is refuted, confirmed or being graded.
HonestReport ==
  /\ stats["tool_calls"] = executed + stats["unknown_tools"] + stats["denials"]
  /\ stats["tool_errors"] <= executed
  /\ stats["completion_claims"] =
       stats["claims_refuted"] + (IF pc = "grade" \/ stop = "Complete" THEN 1 ELSE 0)
  /\ stats["vacuous_completions"] <= stats["claims_refuted"]

\* A run is reported complete only on a check that ran and held.
CompleteIsConfirmed == stop = "Complete" => verdict = "True"

\* What still happens after the kill switch fires: one tool call and one prompt
\* at most, whichever of the loop's many awaits it hits, and two of each when it
\* hits the first look round, before anything was decided.
FewAfterStop ==
  LET most == IF stats["llm_calls"] = 0 THEN 2 ELSE 1
  IN  late <= most /\ asked <= most

\* With the gate's APPROVAL_TIMEOUT, which answers when nobody does, every run
\* ends: each pass through the loop spends a decision.
RunEnds == WF_vars(AskReturns) => <>(pc = "over")

\* What each place allows after a stop: the prompts and the calls of the looks made
\* there, for no interrupt test comes between them.
Begun     == IF fast = "due" THEN 0 ELSE 1
Made      == IF fast \in {"due", "asking"} THEN 0 ELSE 1
StopBound ==
  /\ ~interrupt => late = 0 /\ asked = 0
  /\ pc \notin {"check", "over"} =>
       (stats["llm_calls"] = 0 <=> pc \in {"perceive", "locate"})
  /\ pc = "perceive" => late <= Made /\ asked <= Begun
  /\ pc = "locate" => late <= 1 + Made /\ asked <= 1 + Begun
  /\ pc \in {"observe", "grade"} => late <= Made /\ asked <= Begun
  /\ pc \in {"deciding", "execute", "ask"} => late = 0 /\ asked = 0
  /\ pc = "running" => late <= 1 /\ asked = 0
  /\ FewAfterStop

\* What the loop keeps between any two of its steps, from which the safety
\* properties above follow: a call being asked about or run is still on the
\* list, the run is over exactly when it has a reason, a decision is only asked
\* for below both ceilings, and what begins after a stop is bounded by the place.
LoopInv ==
  /\ TypeOK /\ DecisionCeiling /\ HonestReport /\ CompleteIsConfirmed
  /\ stop = "None" <=> pc # "over"
  /\ pc \in {"ask", "running"} => left > 0
  /\ pc = "running" => stats["tool_errors"] < executed
  /\ pc = "perceive" => stats["tool_calls"] = 0
  /\ pc \in {"deciding", "grade"} => stats["tool_calls"] < MaxToolCalls
  /\ pc \in {"execute", "ask"} => stats["tool_calls"] + left < MaxToolCalls + MaxCalls
  /\ stats["tool_calls"] < MaxToolCalls + MaxCalls
  /\ pc = "running" => stats["tool_calls"] + left - 1 < MaxToolCalls + MaxCalls
  /\ ~Looking => fast = "due"
  /\ StopBound

=============================================================================
