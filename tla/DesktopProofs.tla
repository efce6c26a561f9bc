---------------------------- MODULE DesktopProofs ----------------------------
(***************************************************************************)
(* The ReAct loop, the desktop agent loop and fast perception, for any     *)
(* budgets, replies, answers and stops.                                    *)
(***************************************************************************)
EXTENDS ReactLoop, AgentLoop, Perception, TLAPS

-----------------------------------------------------------------------------
\* The ReAct loop.

\* The ceilings are positive, so a run may decide at least once.
LEMMA CeilingsPositive == MaxLlmCalls \in Nat /\ MaxLlmCalls > 0
                          /\ MaxToolCalls \in Nat /\ MaxToolCalls > 0
<1>1. MaxLlmCalls \in Nat /\ MaxLlmCalls > 0
  BY BudgetAssumption DEF MaxLlmCalls
<1>2. \A a, b \in Nat : a > 0 /\ b > 0 => a * b \in Nat /\ a * b > 0
  BY SMT
<1> QED BY <1>1, <1>2, BudgetAssumption DEF MaxToolCalls

\* LoopInv holds initially.
LEMMA LoopInvInit == Init => LoopInv
<1> SUFFICES ASSUME Init PROVE LoopInv
  OBVIOUS
<1>1. stats \in [Fields -> Nat] /\ \A f \in Fields : stats[f] = 0
  BY DEF Init
<1>2. /\ pc \in Points /\ left \in 0..MaxCalls /\ verdict \in Verdicts \cup {"None"}
      /\ fast \in Looks
  BY BudgetAssumption DEF Init, Points, Looks
<1>3. TypeOK
  BY <1>1, <1>2 DEF Init, TypeOK
<1>4. DecisionCeiling /\ HonestReport /\ CompleteIsConfirmed
  BY <1>1, CeilingsPositive
     DEF Init, Fields, DecisionCeiling, HonestReport, CompleteIsConfirmed
<1>5. stats["tool_calls"] = 0
  BY <1>1 DEF Fields
<1>6. StopBound /\ (~Looking => fast = "due")
  BY <1>1 DEF Init, Fields, StopBound, FewAfterStop, Looking, Made, Begun
<1> QED BY <1>3, <1>4, <1>5, <1>6, CeilingsPositive, BudgetAssumption DEF Init, LoopInv

\* What Count does to one field.
LEMMA CountFields ==
  ASSUME stats \in [Fields -> Nat], NEW fields, Count(fields)
  PROVE  /\ stats' \in [Fields -> Nat]
         /\ \A f \in Fields : stats'[f] = IF f \in fields THEN stats[f] + 1 ELSE stats[f]
BY DEF Count

\* Every step of the loop and of its environment keeps LoopInv.
LEMMA LoopInvStep == LoopInv /\ [Next]_vars => LoopInv'
<1> SUFFICES ASSUME LoopInv, [Next]_vars PROVE LoopInv'
  OBVIOUS
<1> USE CeilingsPositive, BudgetAssumption
    DEF LoopInv, TypeOK, Points, Looks, Fields, Verdicts, DecisionCeiling, HonestReport,
        CompleteIsConfirmed, Goto, StopWith, Late, Looking, Looked, Made, Begun,
        StopBound, FewAfterStop
<1>1. CASE Perceive
  BY <1>1 DEF Perceive
<1>15. ASSUME NEW call \in {"unknown", "gated", "free"}, FastCall(call) PROVE LoopInv'
  BY <1>15 DEF FastCall
<1>16. ASSUME NEW allow \in BOOLEAN, FastAsked(allow) PROVE LoopInv'
  <2>1. fast = "asking" /\ late' \in Nat /\ (interrupt \/ late' = late) /\ late' <= late + 1
        /\ fast' \in {"running", "failed"} /\ (fast' = "failed" => late' = late)
    <3>1. CASE allow
      BY <1>16, <3>1 DEF FastAsked
    <3>2. CASE ~allow
      BY <1>16, <3>2 DEF FastAsked
    <3> QED BY <3>1, <3>2
  <2>2. UNCHANGED <<pc, stats, stop, interrupt, left, probe, verdict, executed, asked>>
    BY <1>16 DEF FastAsked
  <2>3. StopBound'
    BY <2>1, <2>2
  <2> QED BY <2>1, <2>2, <2>3
<1>17. CASE FastStopped
  BY <1>17 DEF FastStopped
<1>18. CASE FastReturns
  BY <1>18 DEF FastReturns
<1>2. CASE Check
  <2>1. CASE interrupt \/ Spent
    BY <1>2, <2>1 DEF Check
  <2>2. CASE ~interrupt /\ ~Spent
    <3>1. Count({"llm_calls"})
      BY <1>2, <2>2 DEF Check
    <3> QED BY <1>2, <2>2, <3>1, CountFields DEF Check, Spent
  <2> QED BY <2>1, <2>2
<1>3. ASSUME NEW n \in 0..MaxCalls, NEW text \in BOOLEAN, NEW p \in BOOLEAN, Decide(n, text, p)
      PROVE  LoopInv'
  <2>1. CASE n = 0 /\ text
    <3>1. Count({"completion_claims"})
      BY <1>3, <2>1 DEF Decide
    <3> QED BY <1>3, <2>1, <3>1, CountFields DEF Decide
  <2>2. CASE ~(n = 0 /\ text)
    BY <1>3, <2>2 DEF Decide
  <2> QED BY <2>1, <2>2
<1>4. CASE DecideFails
  BY <1>4 DEF DecideFails
<1>5. ASSUME NEW call \in {"unknown", "gated", "free"}, Dispatch(call) PROVE LoopInv'
  <2>1. CASE call = "unknown"
    <3>1. Count({"tool_calls", "unknown_tools"})
      BY <1>5, <2>1 DEF Dispatch, Refuse
    <3> QED BY <1>5, <2>1, <3>1, CountFields DEF Dispatch, Refuse
  <2>2. CASE call = "gated"
    BY <1>5, <2>2 DEF Dispatch, Halted
  <2>3. CASE call = "free"
    <3>1. Count({"tool_calls"})
      BY <1>5, <2>3 DEF Dispatch
    <3>2. /\ pc = "execute" /\ left > 0 /\ ~interrupt /\ pc' = "running"
          /\ executed' = executed + 1 /\ late' = late
          /\ UNCHANGED <<stop, left, interrupt, probe, fast, verdict, asked>>
      BY <1>5, <2>3 DEF Dispatch, Run, Halted
    <3>3. TypeOK' /\ HonestReport'
      BY <3>1, <3>2, CountFields
    <3>4. StopBound'
      BY <3>1, <3>2, CountFields
    <3> QED BY <3>1, <3>2, <3>3, <3>4, CountFields
  <2> QED BY <2>1, <2>2, <2>3
<1>6. CASE ExecuteHalts
  BY <1>6 DEF ExecuteHalts
<1>7. CASE ExecuteEnds
  BY <1>7 DEF ExecuteEnds
<1>8. ASSUME NEW allow \in BOOLEAN, AskAnswered(allow) PROVE LoopInv'
  <2>1. CASE allow
    <3>1. Count({"tool_calls"})
      BY <1>8, <2>1 DEF AskAnswered
    <3> QED BY <1>8, <2>1, <3>1, CountFields DEF AskAnswered, Run
  <2>2. CASE ~allow
    <3>1. Count({"tool_calls", "denials"})
      BY <1>8, <2>2 DEF AskAnswered, Refuse
    <3> QED BY <1>8, <2>2, <3>1, CountFields DEF AskAnswered, Refuse
  <2> QED BY <2>1, <2>2
<1>9. CASE AskStopped
  BY <1>9 DEF AskStopped
<1>10. ASSUME NEW ok \in BOOLEAN, ToolReturns(ok) PROVE LoopInv'
  <2>1. CASE interrupt
    BY <1>10, <2>1 DEF ToolReturns
  <2>2. CASE ~interrupt
    <3>1. Count({}) \/ Count({"tool_errors"})
      BY <1>10, <2>2 DEF ToolReturns
    <3>2. CASE Count({})
      BY <1>10, <2>2, <3>2, CountFields DEF ToolReturns
    <3>3. CASE Count({"tool_errors"})
      BY <1>10, <2>2, <3>3, CountFields DEF ToolReturns
    <3> QED BY <3>1, <3>2, <3>3
  <2> QED BY <2>1, <2>2
<1>11. ASSUME NEW v \in Verdicts, Observe(v) PROVE LoopInv'
  BY <1>11 DEF Observe
<1>12. ASSUME NEW v \in Verdicts, Grade(v) PROVE LoopInv'
  <2>1. CASE Confirmed(v) /\ stats["tool_calls"] # 0
    <3> DEFINE fields == IF Confirmed(v) /\ ~probe THEN {"weak_confirmations"} ELSE {}
    <3>1. Count(fields)
      BY <1>12, <2>1 DEF Grade
    <3> QED BY <1>12, <2>1, <3>1, CountFields DEF Grade, Confirmed
  <2>2. CASE ~(Confirmed(v) /\ stats["tool_calls"] # 0)
    <3> DEFINE fields == RefutedFields(Confirmed(v) /\ ~probe, Confirmed(v))
    <3>1. Count(fields)
      BY <1>12, <2>2 DEF Grade
    <3> QED BY <1>12, <2>2, <3>1, CountFields DEF Grade, RefutedFields
  <2> QED BY <2>1, <2>2
<1>13. CASE Fire
  BY <1>13 DEF Fire
<1>14. CASE UNCHANGED vars
  BY <1>14 DEF vars
<1> QED BY <1>1, <1>2, <1>3, <1>4, <1>5, <1>6, <1>7, <1>8, <1>9, <1>10, <1>11, <1>12,
          <1>13, <1>14, <1>15, <1>16, <1>17, <1>18
    DEF Next, LoopStep, Decisions, AskReturns, PromptStopped, Finished

\* The budgets and the tallies agree throughout a run.
LEMMA LoopInvHolds == Spec => []LoopInv
BY LoopInvInit, LoopInvStep, PTL DEF Spec

\* Every reachable state has the types TypeOK gives it.
THEOREM TypeCorrect == Spec => []TypeOK
<1>1. LoopInv => TypeOK
  BY DEF LoopInv
<1> QED BY <1>1, LoopInvHolds, PTL

\* No run makes more slow calls than its configuration allows.
THEOREM DecisionCeilingHolds == Spec => []DecisionCeiling
<1>1. LoopInv => DecisionCeiling
  BY DEF LoopInv
<1> QED BY <1>1, LoopInvHolds, PTL

\* The tool-call ceiling is passed by less than one decision's calls.
THEOREM ToolOvershootHolds == Spec => []ToolOvershoot
<1>1. LoopInv => ToolOvershoot
  BY CeilingsPositive, BudgetAssumption DEF LoopInv, TypeOK, Fields, ToolOvershoot
<1> QED BY <1>1, LoopInvHolds, PTL

\* Both ceilings hold for every budget.
THEOREM CeilingsHold == Spec => []Ceilings
BY DecisionCeilingHolds, ToolOvershootHolds, PTL DEF Ceilings

\* The counters a run reports add up in every reachable state.
THEOREM HonestReportHolds == Spec => []HonestReport
<1>1. LoopInv => HonestReport
  BY DEF LoopInv
<1> QED BY <1>1, LoopInvHolds, PTL

\* "Complete" is reported only on a check that ran and held.
THEOREM CompleteIsConfirmedHolds == Spec => []CompleteIsConfirmed
<1>1. LoopInv => CompleteIsConfirmed
  BY DEF LoopInv
<1> QED BY <1>1, LoopInvHolds, PTL

\* After the kill switch fires at most one tool call starts and one prompt opens,
\* the loop's own looks included; two of each when nothing has been decided yet.
THEOREM FewAfterStopHolds == Spec => []FewAfterStop
<1>1. LoopInv => FewAfterStop
  BY DEF LoopInv, StopBound
<1> QED BY <1>1, LoopInvHolds, PTL
-----------------------------------------------------------------------------
\* The agent loop: a run that passed over an objective is never complete.

\* Nothing was pursued yet.
LEMMA HollowInit == AgentInit => HollowInv
BY DEF AgentInit, HollowInv, HollowNeverComplete, Running

\* A step of the pursuit is taken while the run goes on, and leaves the two marks
\* on whatever it passes over.
LEMMA PursuitKeepsHollow == HollowInv /\ Pursues => HollowInv'
<1> SUFFICES ASSUME HollowInv, Pursues PROVE HollowInv'
  OBVIOUS
<1>1. ASSUME NEW holds \in BOOLEAN, PreProbe(holds) PROVE HollowInv'
  BY <1>1 DEF PreProbe, Satisfied, Unproven, ending, HollowInv, HollowNeverComplete, Running
<1>2. ASSUME NEW same \in BOOLEAN, NEW blank \in BOOLEAN, AgentPerceives(same, blank) PROVE HollowInv'
  <2>1. CASE Cancelled
    BY <2>1 DEF Cancelled, counts, HollowInv, HollowNeverComplete, Running
  <2>2. CASE Stays
    BY <1>2, <2>2 DEF AgentPerceives, Cancelled, Stays, Satisfied, Fails, ending, HollowInv, HollowNeverComplete, Running
  <2> QED BY <1>2, <2>1, <2>2 DEF AgentPerceives
<1>3. ASSUME NEW ok \in BOOLEAN, Act(ok) PROVE HollowInv'
  BY <1>3 DEF Act, Stays, ending, HollowInv, HollowNeverComplete, Running
<1>4. ASSUME NEW v \in Judgements, Verify(v) PROVE HollowInv'
  BY <1>4 DEF Verify, Stays, Satisfied, ending, HollowInv, HollowNeverComplete, Running
<1>5. ASSUME NEW v \in Judgements, Settle(v) PROVE HollowInv'
  BY <1>5 DEF Settle, Stays, Satisfied, ending, HollowInv, HollowNeverComplete, Running
<1>6. ASSUME NEW v \in Judgements, Recover(v) PROVE HollowInv'
  BY <1>6 DEF Recover, Stays, Satisfied, TriesOn, ending, HollowInv, HollowNeverComplete, Running
<1>7. ASSUME NEW v \in Judgements, LastVerify(v) PROVE HollowInv'
  BY <1>7 DEF LastVerify, Stays, Satisfied, Fails, ending, HollowInv, HollowNeverComplete, Running
<1> QED BY <1>1, <1>2, <1>3, <1>4, <1>5, <1>6, <1>7 DEF Pursues

\* The last check is where the marks are asked about.
LEMMA SummaryKeepsHollow == HollowInv /\ Summarise => HollowInv'
<1> SUFFICES ASSUME HollowInv, Summarise PROVE HollowInv'
  OBVIOUS
<1>1. CASE Cancelled
  BY <1>1 DEF Cancelled, counts, HollowInv, HollowNeverComplete, Running
<1>2. CASE ~Cancelled
  <2>1. PICK overall \in Goal, probed \in {FALSE, Probed} :
           outcome' = IF Complete(overall, probed) THEN "complete" ELSE "partial"
    BY <1>2 DEF Summarise
  <2>2. Complete(overall, probed) => ~hollow
    BY DEF Complete, HollowInv
  <2>3. at' = "idle" /\ UNCHANGED <<hollow, failed, vacuous>>
    BY <1>2 DEF Summarise, counts
  <2> QED BY <2>1, <2>2, <2>3 DEF HollowInv, HollowNeverComplete, Running
<1> QED BY <1>1, <1>2

\* Every step keeps HollowInv.
LEMMA HollowStep == HollowInv /\ [AgentNext]_agentVars => HollowInv'
<1> SUFFICES ASSUME HollowInv, [AgentNext]_agentVars PROVE HollowInv'
  OBVIOUS
<1>1. CASE UNCHANGED agentVars
  BY <1>1 DEF agentVars, counts, ending, HollowInv, HollowNeverComplete, Running
<1>2. CASE BeginRun
  BY <1>2 DEF BeginRun, HollowInv, HollowNeverComplete, Running
<1>3. CASE AgentFire
  BY <1>3 DEF AgentFire, counts, ending, HollowInv, HollowNeverComplete, Running
<1>4. CASE Cancelled
  BY <1>4 DEF Cancelled, counts, HollowInv, HollowNeverComplete, Running
<1>5. ASSUME NEW goes \in BOOLEAN, NamedSite(goes) PROVE HollowInv'
  BY <1>5 DEF NamedSite, counts, ending, HollowInv, HollowNeverComplete, Running
<1>6. CASE Plan
  <2>1. at = "plan" /\ at' = "loop" /\ UNCHANGED <<hollow, failed, vacuous, outcome>>
    BY <1>6 DEF Plan, Adopts, ending
  <2> QED BY <2>1 DEF HollowInv, HollowNeverComplete, Running
<1>7. CASE NextObjective
  BY <1>7, <1>4 DEF NextObjective, counts, ending, HollowInv, HollowNeverComplete, Running
<1>8. CASE Pursues
  BY <1>8, PursuitKeepsHollow
<1>9. CASE Replan
  BY <1>9 DEF Replan, ending, HollowInv, HollowNeverComplete, Running
<1>10. CASE Summarise
  BY <1>10, SummaryKeepsHollow
<1> QED BY <1>1, <1>2, <1>3, <1>4, <1>5, <1>6, <1>7, <1>8, <1>9, <1>10 DEF AgentNext, Proceeds

\* A run that passed over an objective it had no evidence for is never reported
\* complete, for plans, revisions and budgets of any size.
THEOREM HollowNeverCompleteHolds == AgentSpec => []HollowNeverComplete
<1>1. HollowInv => HollowNeverComplete
  BY DEF HollowInv
<1> QED BY <1>1, HollowInit, HollowStep, PTL DEF AgentSpec
-----------------------------------------------------------------------------
\* Fast perception: one browser at most is launched.

\* Nothing was launched yet.
LEMMA LaunchInit == PerceptionInit => LaunchInv
<1> SUFFICES ASSUME PerceptionInit PROVE LaunchInv
  OBVIOUS
<1>1. opened \in 0..1
  BY DEF PerceptionInit
<1>2. request = "none" /\ tool = "none" /\ opened = 0
  BY DEF PerceptionInit
<1> QED BY <1>1, <1>2 DEF LaunchInv

\* A reply leaves the request alone or ends it, and moves on to no launch.
LEMMA TakesKeeps ==
  ASSUME NEW r, Takes(r), tool # "none"
  PROVE  /\ request' \in {request, "none"}
         /\ tool' \in {tool, "none", "find_and_click", "hint_resolve"}
         /\ request = "browser" => request' = request /\ tool' = "none"
         /\ request' = request \/ tool' = "none"
<1>1. CASE request = "act"
  BY <1>1 DEF Takes, Answers, Tries
<1>2. CASE request = "wait"
  BY <1>2 DEF Takes, Answers, Tries
<1>3. CASE request = "decide"
  BY <1>3 DEF Takes, Answers, Tries
<1>4. CASE request \in {"press", "verify", "probe", "perceive", "navigate"}
  BY <1>4 DEF Takes, Answers, Tries
<1>5. CASE request \notin {"act", "wait", "decide", "press", "verify", "probe", "perceive", "navigate"}
  BY <1>5 DEF Takes, Answers, Tries
<1> QED BY <1>1, <1>2, <1>3, <1>4, <1>5

\* The one place that counts a launch: it was the tool in hand, and is no more.
LEMMA CallKeeps ==
  ASSUME LaunchInv, NEW r, Takes(r), tool # "none", UNCHANGED <<web, bootstrap>>,
         opened' = opened \/ (opened' = opened + 1 /\ tool = "browser_open")
  PROVE  LaunchInv'
<1>1. CASE request = "browser"
  <2>1. request' = "browser" /\ tool' = "none" /\ bootstrap' = "none" /\ web
    BY <1>1, TakesKeeps DEF LaunchInv
  <2>2. tool = "browser_open" /\ opened = 0
    BY <1>1 DEF LaunchInv
  <2> QED BY <2>1, <2>2 DEF LaunchInv
<1>2. CASE request # "browser"
  <2>1. tool # "browser_open" /\ opened' = opened
    BY <1>2 DEF LaunchInv
  <2>2. request' # "browser" /\ tool' # "browser_open"
    BY <1>2, <2>1, TakesKeeps
  <2> QED BY <1>2, <2>1, <2>2 DEF LaunchInv
<1> QED BY <1>1, <1>2

\* Every step keeps LaunchInv: only one of them opens a window, and it leaves its mark.
LEMMA LaunchStep == LaunchInv /\ [PerceptionNext]_perceptionVars => LaunchInv'
<1> SUFFICES ASSUME LaunchInv, [PerceptionNext]_perceptionVars PROVE LaunchInv'
  OBVIOUS
<1>1. CASE UNCHANGED perceptionVars
  BY <1>1 DEF perceptionVars, LaunchInv
<1>2. ASSUME NEW k \in DOMAIN First, Begin(k) PROVE LaunchInv'
  <2>1. k # "browser" /\ First[k] # "browser_open"
    BY DEF First
  <2>2. request' = k /\ tool' = First[k] /\ UNCHANGED <<web, bootstrap, opened>> /\ request = "none"
    BY <1>2 DEF Begin
  <2> QED BY <2>1, <2>2 DEF LaunchInv
<1>3. CASE Ensure
  <2>1. request = "none" /\ bootstrap = "none" /\ opened = 0 /\ UNCHANGED <<web, opened>>
    BY <1>3 DEF Ensure, LaunchInv
  <2>2. \/ UNCHANGED <<request, tool>>
        \/ web /\ request' = "browser" /\ tool' = "browser_open" /\ bootstrap' = bootstrap
    BY <1>3 DEF Ensure
  <2> QED BY <2>1, <2>2 DEF LaunchInv
<1>4. ASSUME NEW up \in BOOLEAN, Launched(up) PROVE LaunchInv'
  <2>1. request = "browser" /\ tool = "none" /\ request' = "none" /\ bootstrap' # "none"
        /\ UNCHANGED <<web, opened, tool>>
    BY <1>4 DEF Launched
  <2> QED BY <2>1 DEF LaunchInv
<1>5. CASE NotCalled
  BY <1>5, CallKeeps DEF NotCalled
<1>6. ASSUME NEW r \in Replies \cup {NoReply}, Called(r) PROVE LaunchInv'
  <2>1. Takes(r) /\ tool # "none" /\ UNCHANGED <<web, bootstrap>>
    BY <1>6 DEF Called
  <2>2. opened' = opened \/ (opened' = opened + 1 /\ tool = "browser_open")
    BY <1>6 DEF Called, LaunchInv
  <2> QED BY <2>1, <2>2, CallKeeps
<1> QED BY <1>1, <1>2, <1>3, <1>4, <1>5, <1>6 DEF PerceptionNext

\* One browser is launched at most, and none for a goal that is not the web's,
\* for any catalog, replies and number of requests.
THEOREM OneLaunchHolds == PerceptionSpec => []OneLaunch
<1>1. LaunchInv => OneLaunch
  BY DEF LaunchInv, OneLaunch
<1> QED BY <1>1, LaunchInit, LaunchStep, PTL DEF PerceptionSpec
=============================================================================
