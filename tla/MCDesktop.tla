----------------------------- MODULE MCDesktop -----------------------------
(***************************************************************************)
(* The ReAct loop and the desktop's parts side by side: they share no       *)
(* variable, and a behaviour moves one of them.                             *)
(***************************************************************************)
EXTENDS ReactLoop, AgentLoop, Perception

VARIABLE part   \* which of them moves

MCFallback == [probe |-> TRUE, kind |-> "click", suggested |-> TRUE]
Entry(p, k, s, d) == [probe |-> p, kind |-> k, suggested |-> s, described |-> d]
Shown == Entry("expression", "click", TRUE, TRUE)
Query == Entry("expression", "type", TRUE, TRUE)
Vague == Entry("prose", "click", FALSE, TRUE)
Empty == Entry("none", "click", TRUE, FALSE)
MCPlans == {<<Shown>>, <<Query, Empty, Vague, Shown>>, <<Empty>>}
MCRevisions == {<< >>, <<Query>>, <<Vague, Shown>>}

Reply(place, f, v) == [place |-> place, fields |-> [NoFields EXCEPT ![f] = v]]
MCReplies ==
  {[place |-> "error text", fields |-> NoFields]}
  \cup {Reply(p, "verdict", v) : p \in {"bare", "envelope"},
          v \in {"success", "satisfied", "fail", "not_satisfied", "uncertain"}}
  \cup {Reply("envelope", "satisfied", v) : v \in {"true", "false"}}
  \cup {Reply(p, "success", v) : p \in {"bare", "envelope"}, v \in {"true", "false"}}
  \cup {Reply("envelope", "hints", 1), Reply("envelope", "matched", TRUE), Reply("bare", "flagged", TRUE)}
  \cup {Reply(p, "value", v) : p \in {"bare", "envelope"}, v \in {"true", "false"}}
  \cup {[place |-> p, fields |-> [NoFields EXCEPT !.message = "error", !.success = s, !.verdict = v]] :
          p \in {"bare", "envelope"}, s \in {"none", "true"}, v \in {"none", "success"}}
  \cup {[place |-> "envelope", fields |-> [NoFields EXCEPT !.level = l, !.named = n]] :
          l \in 1..3, n \in BOOLEAN}

\* A ReAct run that was stopped at once, for the behaviours it has no part in.
ReactRests ==
  /\ pc = "over" /\ stats = [f \in Fields |-> 0] /\ stop = "Interrupted" /\ interrupt = TRUE
  /\ left = 0 /\ probe = FALSE /\ fast = "due" /\ verdict = "None" /\ executed = 0
  /\ late = 0 /\ asked = 0

MCInit ==
  /\ AgentInit /\ PerceptionInit
  /\ \/ part = "react" /\ Init
     \/ part \in {"agent", "fast lane"} /\ ReactRests
MCNext ==
  \/ part = "react" /\ Next /\ UNCHANGED <<agentVars, perceptionVars, part>>
  \/ part = "agent" /\ AgentNext /\ UNCHANGED <<vars, perceptionVars, part>>
  \/ part = "fast lane" /\ PerceptionNext /\ UNCHANGED <<vars, agentVars, part>>

\* Both loops' own steps are taken: their awaits have timeouts of their own.
MCSpec ==
  /\ MCInit /\ [][MCNext]_<<vars, agentVars, perceptionVars, part>>
  /\ WF_vars(part = "react" /\ LoopStep) /\ WF_vars(part = "react" /\ PromptStopped)
  /\ WF_agentVars(part = "agent" /\ Proceeds)

\* Both kinds of run end: a ReAct run once its prompt is answered (run_loop's step,
\* call and time limits), and each run of the desktop agent, whatever its tools and
\* its verifier report (AgentLoop::run's objectives, attempts and recoveries).
RunsEnd == RunEnds /\ AgentRunEnds
=============================================================================
