------------------------------ MODULE BrowserLoop ------------------------------
(***************************************************************************)
(* A run of the browser loop around the policy: automation.rs,              *)
(* run_browser_loop. Every step settles, observes, asks the policy and      *)
(* acts: through hint-act first, then over CDP. A target that went stale is *)
(* looked for once more on a fresh page. What the policy calls done is done *)
(* only when the page says so too. The page changes under the loop: what    *)
(* was observed is a copy, from another await than the one it is used after. *)
(***************************************************************************)
EXTENDS BrowserPolicy, Sequences

CONSTANTS Plans,    \* what the goal may be decomposed into
          Pages,    \* what may be observed
          Start,    \* the one the run begins on
          Leads,    \* the pages each may turn into, by itself or by an action
          MaxSteps  \* the loop's limit of steps

VARIABLES page,      \* the page in the tab
          shown,     \* history: the pages in the tab since the loop last looked or acted
          judged,    \* history: the page a success was verified on
          steps,
          recent,    \* the last three pages observed
          lastKind,  \* the kind of action last carried out
          first,     \* the action that went stale, while a fresh one is looked for
          ending,    \* how the run ended, or "running"
          report     \* what last_report holds
tabVars == <<page, shown>>
loopVars == <<judged, steps, recent, lastKind, first, ending, report>>
browserVars == <<policyVars, tabVars, loopVars>>

Nothing == Says("nothing")
NoPlan == [requirements |-> << >>, open |-> {}, finish |-> {}]
BrowserInit ==
  /\ plan = NoPlan /\ policy = NewPolicy({}) /\ snapshot = Start /\ req = 0 /\ doing = "connecting"
  /\ page = Start /\ shown = {Start} /\ judged = Start
  /\ decision = Nothing /\ first = Nothing
  /\ steps = 0 /\ recent = << >> /\ lastKind = "none"
  /\ ending = "running" /\ report = "none"

\* The run is over, and what it knew is gone.
Over(outcome, told) ==
  /\ ending' = outcome /\ report' = told /\ doing' = "over"
  /\ plan' = NoPlan /\ policy' = NewPolicy({}) /\ req' = 0 /\ decision' = Nothing
  /\ recent' = << >> /\ lastKind' = "none" /\ first' = Nothing
  /\ UNCHANGED <<tabVars, snapshot, judged, steps>>
\* An end that is reported, and an end by `?`, which is not.
StopsWith(outcome) == Over(outcome, outcome)
FailsUntold == Over("failed", report)

\* Connecting, the first look and the plan: each may fail, none is a step.
Begin ==
  /\ doing = "connecting" /\ doing' = "stepping"
  /\ plan' \in Plans /\ policy' = NewPolicy(DOMAIN plan'.requirements)
  /\ UNCHANGED <<tabVars, snapshot, req, decision, loopVars>>
BeginFails == doing = "connecting" /\ FailsUntold

OutOfSteps ==
  doing = "stepping" /\ steps = MaxSteps /\ StopsWith("max_steps")

Latest(s, n) == IF Len(s) <= n THEN s ELSE SubSeq(s, Len(s) - n + 1, Len(s))
\* Three pages alike, and what was done last was no wait.
Thrashing(pages) ==
  /\ Len(pages) = 3 /\ lastKind # "wait"
  /\ pages[1] = pages[2] /\ pages[2] = pages[3]

Looks == snapshot' = page /\ shown' = {page} /\ UNCHANGED page
\* The page settles and is read; three times the same one ends the run.
Observe ==
  /\ doing = "stepping" /\ steps < MaxSteps
  /\ LET pages == Latest(Append(recent, page), 3)
     IN  IF Thrashing(pages) THEN StopsWith("blocked")
         ELSE /\ steps' = steps + 1 /\ Looks /\ recent' = pages
              /\ doing' = "suggestions"
              /\ UNCHANGED <<judged, plan, policy, req, decision, lastKind, first,
                             ending, report>>
ObserveFails == doing = "stepping" /\ steps < MaxSteps /\ FailsUntold

Ask == PolicyStep /\ UNCHANGED <<tabVars, loopVars>>
StepFailed == doing = "failed" /\ FailsUntold

Decided(is) == doing = "decided" /\ decision.is = is
Retrying == first # Nothing

\* The page changes by itself. A change while the policy thinks is one behind it, for
\* the policy reads what was observed; one around an act is one of the act's.
PageMoves ==
  /\ doing \in {"connecting", "stale"} \/ Decided("done")
  /\ page' \in Leads[page] \ {page} /\ shown' = shown \cup {page'}
  /\ UNCHANGED <<policyVars, loopVars>>
\* An act on the page, or its refusal: what was before no longer counts.
Acts == page' \in Leads[page] /\ shown' = {page'}

\* What the step observed and decided goes with it.
StepEnds ==
  /\ doing' = "stepping" /\ first' = Nothing
  /\ snapshot' = Start /\ req' = 0 /\ decision' = Nothing

\* The action is carried out; its kind is noted, the first one's after a retry, and
\* not noted at all when the retry follows a wait. A filled field is sent off by Enter.
Carried ==
  /\ Decided("action")
  /\ lastKind' = IF ~Retrying THEN decision.kind
                 ELSE IF lastKind = "wait" THEN lastKind ELSE first.kind
  /\ StepEnds /\ Acts
  /\ UNCHANGED <<judged, plan, policy, steps, recent, ending, report>>
\* The page fails to settle after the action, or to be read again.
CarriedUnsettled == Decided("action") /\ FailsUntold

\* Act refuses: the element is covered, hidden or gone. The page is read again in
\* half a second, and the policy asked again.
Stale ==
  /\ Decided("action") /\ ~Retrying /\ decision.kind \in {"click", "fill", "select"}
  /\ first' = decision /\ doing' = "stale"
  /\ Acts
  /\ UNCHANGED <<judged, plan, policy, snapshot, req, decision, steps, recent, lastKind,
                 ending, report>>
ObserveAgain ==
  /\ doing = "stale"
  /\ Looks /\ doing' = "suggestions"
  /\ UNCHANGED <<plan, policy, req, decision, loopVars>>
ObserveAgainFails == doing = "stale" /\ FailsUntold
\* Another error of the act, or any on the second try.
ActFails ==
  Decided("action") /\ decision.kind # "wait" /\ StopsWith("error")

\* Slip: a success of the retry is judged by what the step observed first.
JudgedFirst == recent[Len(recent)]
\* The page a success is judged by: the one the policy was last asked about.
Judged == snapshot
DoneVerified ==
  /\ Decided("done") /\ VerifyDone(Judged)
  /\ ending' = "done" /\ report' = "done" /\ doing' = "over" /\ judged' = Judged
  /\ UNCHANGED <<tabVars, plan, policy, snapshot, req, decision, steps, recent, lastKind, first>>
\* Otherwise the step counts as a wait.
Unverified ==
  /\ Decided("done") /\ ~VerifyDone(Judged)
  /\ lastKind' = "wait" /\ StepEnds
  /\ UNCHANGED <<tabVars, judged, plan, policy, steps, recent, ending, report>>
UnverifiedUnsettled == Decided("done") /\ Retrying /\ ~VerifyDone(Judged) /\ FailsUntold

GivesUp ==
  Decided("blocked") /\ StopsWith("blocked")

BrowserNext ==
  \/ PageMoves
  \/ Begin \/ BeginFails \/ OutOfSteps \/ Observe \/ ObserveFails \/ Ask \/ StepFailed
  \/ Carried \/ CarriedUnsettled \/ Stale \/ ObserveAgain \/ ObserveAgainFails \/ ActFails
  \/ DoneVerified \/ Unverified \/ UnverifiedUnsettled \/ GivesUp

BrowserSpec == BrowserInit /\ [][BrowserNext]_browserVars
-----------------------------------------------------------------------------
BrowserTypeOK ==
  /\ {snapshot, page, judged} \subseteq Pages /\ shown \subseteq Pages
  /\ steps \in 0..MaxSteps /\ Len(recent) <= 3
  /\ policy.met \subseteq Reqs /\ policy.skipped \subseteq Reqs
  /\ \A i \in Reqs : policy.attempts[i] \in 0..Tries
  /\ ending \in {"running", "done", "blocked", "error", "max_steps", "failed"}

\* A run that reports success was judged by a page whose host, and whose title or
\* text, say so, and the tab has shown that page since the loop last looked at it or
\* acted on it: never by what was there before an act or a retry.  That the page is
\* still there when the run ends is more than the loop can know.
DoneIsVerified == ending = "done" => VerifyDone(judged) /\ judged \in shown

\* What is behind it: from a look to the next act the page observed is one of
\* those shown, and a run that ended as done takes no further step, so the plan it was
\* judged by stays.
Viewing == doing \notin {"connecting", "stepping", "stale", "over"}
DoneInv ==
  /\ Viewing => snapshot \in shown
  /\ page \in shown
  /\ ending = "done" => doing = "over" /\ VerifyDone(judged) /\ judged \in shown
=============================================================================
