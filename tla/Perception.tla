----------------------------- MODULE Perception -----------------------------
(***************************************************************************)
(* The fast lane of the desktop loop (crates/lucy-runtime/src/              *)
(* fast_perception.rs): one request at a time is put to hyprfast's tools,   *)
(* each call gated, counted and logged, and what comes back is read as an   *)
(* answer.  A reply is a record of the fields the readers look for; it      *)
(* arrives bare, inside the MCP envelope, or as an envelope whose text is   *)
(* an `error:` line.                                                        *)
(***************************************************************************)
EXTENDS Integers, Sequences

CONSTANTS Catalog,     \* the fast tools the registry resolves
          Gated,       \* of these, the ones that want approval
          Replies,     \* what a tool may send back
          Polls,       \* how many slices a wait budget is cut into
          MaxRequests  \* bound on the requests of a run

VARIABLES web,        \* goal_needs_browser(): the goal names the web
          bootstrap,  \* what ensure_browser() found, cached on the context
          opened,     \* browser_open calls
          calls, failures,  \* FastCallStats
          request,    \* what is asked for, "none" for nothing
          tool,       \* the tool being called for it, "none" between calls
          polled,     \* slices of a wait spent
          found,      \* decide_target(): the candidate find gave
          reply,      \* the last reply read
          answer,     \* what the last request came to
          requests

perceptionVars == <<web, bootstrap, opened, calls, failures, request, tool, polled, found,
                    reply, answer, requests>>
counted == <<calls, failures>>

NoFields == [success |-> "none", message |-> "none", verdict |-> "none", satisfied |-> "none",
             flagged |-> FALSE, matched |-> FALSE, value |-> "none", level |-> 0, named |-> FALSE,
             hints |-> 0]
\* A call that returned Err: a tool the catalog lacks, a refusal, a transport error.
NoReply == [place |-> "err", fields |-> NoFields]

\* unwrap_envelope(): the JSON inside the envelope, or the reply as it is.
Root(r) == IF r.place \in {"bare", "envelope"} THEN r.fields ELSE NoFields
Raw(r)  == IF r.place = "bare" THEN r.fields ELSE NoFields

\* tool_reports_failure(), which looks at the reply as it came.
ReportsFailure(r) == r.place \in {"err", "error text"} \/ Raw(r).success = "false"

\* The substrings of a verdict that verdict_from_str() looks for.
Carries(word) ==
  CASE word \in {"success", "true", "satisfied", "fail", "false"} -> {word}
    [] word = "not_satisfied" -> {"satisfied", "not_satisfied"}
    [] OTHER -> {}

Verdict(word) ==
  IF Carries(word) \cap {"success", "true", "satisfied"} # {} THEN "yes"
  ELSE IF Carries(word) \cap {"fail", "false", "not_satisfied"} # {} THEN "no" ELSE "unsure"

\* verify_outcome_from_payload(): the first field that decides.
VerifyRead(r) ==
  LET f == Root(r) IN
  IF f.success = "false" \/ f.message = "error" THEN "no"
  ELSE IF f.verdict # "none" THEN Verdict(f.verdict)
  ELSE IF f.satisfied # "none" THEN Verdict(f.satisfied)
  ELSE IF f.success = "true" THEN "yes" ELSE "unsure"

\* wait_once(): verify's reading, or a flag of its own.
WaitRead(r) ==
  IF Root(r).success = "false" THEN "no"
  ELSE IF VerifyRead(r) = "yes" \/ Root(r).matched THEN "yes" ELSE "no"

\* action_outcome_from_hint_act(): success has to be said.
ActRead(r) == IF Root(r).success = "true" /\ Root(r).message # "error" THEN "yes" ELSE "no"

\* press_outcome(): success is the absence of an error marker.
PressRead(r) ==
  IF ReportsFailure(r) \/ Root(r).flagged \/ Root(r).message = "error" THEN "no" ELSE "yes"

\* probe_verdict() and probe_result_is_true().
ProbeRead(r) ==
  IF Raw(r).flagged /\ Raw(r).value = "none" THEN "unsure"
  ELSE IF Root(r).value = "true" THEN "yes" ELSE "no"

\* screen_state_from_hint_snapshot(): nothing to act on, or elements.
ScreenRead(r) == IF Root(r).hints = 0 THEN "blank" ELSE "elements"

\* navigate() looks at nothing but whether the call failed.
NavigateRead(r) == IF r.place = "err" THEN "no" ELSE "sent"

\* resolved_target_from_find(): a candidate with its confidence, the level
\* MIN_RESOLVE_CONFIDENCE stands for being 2.
NoTarget == [level |-> 0, named |-> FALSE, there |-> FALSE]
Target(r) ==
  IF Root(r).level = 0 THEN NoTarget
  ELSE [level |-> Root(r).level, named |-> Root(r).named, there |-> TRUE]
Confident(t) == t.there /\ t.level >= 2 /\ t.named
\* What decide_target() makes of find's candidate and hint_resolve's.
Better(f, b) == IF ~f.there THEN b ELSE IF b.there /\ b.level > f.level THEN b ELSE f

----------------------------------------------------------------------------
PerceptionInit ==
  /\ web \in BOOLEAN /\ bootstrap = "none" /\ opened = 0
  /\ calls = 0 /\ failures = 0
  /\ request = "none" /\ tool = "none" /\ polled = 0 /\ found = NoTarget
  /\ reply = NoReply /\ answer = "none" /\ requests = 0

\* The tool each request starts with.
First == [act |-> "hint_act", press |-> "browser_press_key", verify |-> "verify",
          wait |-> "wait_until", probe |-> "browser_evaluate", decide |-> "find",
          perceive |-> "hint_snapshot", navigate |-> "browser_navigate"]

Begin(k) ==
  /\ request = "none" /\ requests < MaxRequests
  /\ request' = k /\ tool' = First[k] /\ requests' = requests + 1
  /\ polled' = 0 /\ found' = NoTarget /\ answer' = "none"
  /\ UNCHANGED <<web, bootstrap, opened, counted, reply>>

\* ensure_browser(): a cached outcome, a goal that is not the web's, a browser
\* that answers, or one launch.
Ensure ==
  /\ request = "none" /\ requests < MaxRequests /\ bootstrap = "none"
  /\ requests' = requests + 1 /\ answer' = "none"
  /\ \/ ~web /\ bootstrap' = "not needed" /\ UNCHANGED <<request, tool>>
     \/ web /\ bootstrap' = "running" /\ UNCHANGED <<request, tool>>
     \/ web /\ request' = "browser" /\ tool' = "browser_open" /\ UNCHANGED bootstrap
  /\ UNCHANGED <<web, opened, counted, polled, found, reply>>

\* Slip: only a browser that came up is remembered.
LaunchedForgetful(up) ==
  /\ request = "browser" /\ tool = "none"
  /\ bootstrap' = IF up THEN "launched" ELSE "none"
  /\ request' = "none"
  /\ UNCHANGED <<web, opened, counted, tool, polled, found, reply, answer, requests>>

\* cdp_comes_up() polls until its deadline; the outcome, a failed launch too,
\* is claimed for the run.
Launched(up) ==
  /\ request = "browser" /\ tool = "none"
  /\ bootstrap' = IF up THEN "launched" ELSE "failed"
  /\ request' = "none"
  /\ UNCHANGED <<web, opened, counted, tool, polled, found, reply, answer, requests>>

----------------------------------------------------------------------------
(* call_fast() *)

\* record_call()
Recorded(failed) == /\ calls' = calls + 1
                    /\ failures' = failures + IF failed THEN 1 ELSE 0

Answers(a) == answer' = a /\ request' = "none" /\ tool' = "none" /\ UNCHANGED <<polled, found>>
Tries(t)   == tool' = t /\ UNCHANGED <<answer, request, polled, found>>

\* What the request does with a reply, Err included.
Takes(r) ==
  CASE request = "act" /\ tool = "hint_act" /\ r.place # "err" /\ ActRead(r) = "no" ->
         Tries("find_and_click")
    [] request = "act" -> Answers(IF r.place = "err" THEN "no" ELSE ActRead(r))
    [] request = "press" -> Answers(IF r.place = "err" THEN "no" ELSE PressRead(r))
    [] request = "verify" -> Answers(IF r.place = "err" THEN "unsure" ELSE VerifyRead(r))
    [] request = "probe" -> Answers(IF r.place = "err" THEN "unsure" ELSE ProbeRead(r))
    [] request = "perceive" -> Answers(ScreenRead(r))
    [] request = "navigate" -> Answers(NavigateRead(r))
    [] request = "wait" ->
         IF r.place # "err" /\ WaitRead(r) = "yes" THEN Answers("yes")
         ELSE IF polled + 1 = Polls THEN Answers("no")
         ELSE polled' = polled + 1 /\ UNCHANGED <<answer, request, tool, found>>
    [] request = "decide" /\ tool = "find" /\ ~Confident(Target(r)) ->
         found' = Target(r) /\ tool' = "hint_resolve" /\ UNCHANGED <<answer, request, polled>>
    [] request = "decide" ->
         Answers(IF Confident(IF tool = "find" THEN Target(r) ELSE Better(found, Target(r)))
                 THEN "yes" ELSE "no")
    [] OTHER -> tool' = "none" /\ UNCHANGED <<answer, request, polled, found>>

\* The catalog has no such tool, the owner refuses it, or the kill switch ends
\* the prompt: recorded as failed, never executed.
NotCalled ==
  /\ tool # "none" /\ (tool \notin Catalog \/ tool \in Gated)
  /\ Recorded(TRUE) /\ reply' = NoReply /\ Takes(NoReply)
  /\ UNCHANGED <<web, bootstrap, opened, requests>>

\* The tool runs; a failure inside an Ok reply counts as one in the log, and the
\* reply is handed on all the same.
Called(r) ==
  /\ tool # "none" /\ tool \in Catalog
  /\ Recorded(ReportsFailure(r)) /\ reply' = r /\ Takes(r)
  /\ opened' = opened + IF tool = "browser_open" THEN 1 ELSE 0
  /\ UNCHANGED <<web, bootstrap, requests>>

PerceptionNext ==
  \/ \E k \in DOMAIN First : Begin(k)
  \/ Ensure \/ \E up \in BOOLEAN : Launched(up)
  \/ NotCalled \/ \E r \in Replies \cup {NoReply} : Called(r)

PerceptionSpec == PerceptionInit /\ [][PerceptionNext]_perceptionVars

----------------------------------------------------------------------------
\* A run launches at most one browser, and none for a goal that is not the
\* web's, however often the loop asks and also when the launch failed:
\* "the launch is attempted once" (fast_perception.rs, BrowserBootstrap).
OneLaunch == opened <= IF web THEN 1 ELSE 0

\* What is behind it: while nothing is known of the browser none was opened but
\* by the launch in hand, which is asked for once and never waits in another request.
LaunchInv ==
  /\ opened \in 0..1
  /\ ~web => opened = 0 /\ request # "browser"
  /\ request = "browser" => bootstrap = "none" /\ tool \in {"browser_open", "none"}
  /\ tool = "browser_open" => request = "browser" /\ opened = 0
  /\ bootstrap = "none" /\ request # "browser" => opened = 0
=============================================================================
