----------------------------- MODULE BrowserPolicy -----------------------------
(***************************************************************************)
(* What Lucy does next in a web page: browser_policy.rs of lucy-systemone.  *)
(* The policy goes through the plan's requirements in order and, when all   *)
(* are met or given up, through submit, item and next. System One answers   *)
(* several questions at once (the operation and a target for each): its     *)
(* answers are any answers. Texts are sets of words, and a date stands for  *)
(* itself. A page is what was observed of it: its actions by node, what is  *)
(* known of each node, and what its title and text say.                     *)
(***************************************************************************)
EXTENDS Naturals, FiniteSets, FiniteSetsExt

CONSTANTS SubmitWords,
          Limit,       \* candidates put before the model: 15 in the code
          Tries        \* attempts a requirement is given: 3 in the code

ASSUME BoundsAssumption == Limit \in Nat \ {0} /\ Tries \in Nat

VARIABLES plan,      \* what the goal asks for: requirements, an item to open, a finish
          policy,    \* the fields of BrowserPolicy that are read
          snapshot,  \* the page as last observed
          req,       \* the requirement the step looks at
          doing,     \* where the step, and the loop around it, is
          decision   \* the outcome of the step
policyVars == <<plan, policy, snapshot, req, doing, decision>>

\* Of every requirement its name and value, words both, and a date or none.
Requirements == plan.requirements
Reqs == DOMAIN Requirements
Open == plan.open
Finish == plan.finish
NoDate == "no date"
NoStep == [kind |-> "none", req |-> 0, before |-> {}]
NewPolicy(reqs) ==
  [fields |-> [i \in reqs |-> 0], met |-> {}, skipped |-> {}, attempts |-> [i \in reqs |-> 0],
   last |-> NoStep, edit_url |-> "none", submitted |-> FALSE, waits |-> 0, tried |-> {}]

\* The elements of a page: one for each node that can be clicked, filled or selected from.
Observed(p) ==
  {[node |-> n, role |-> p.nodes[n].role, label |-> p.nodes[n].label, more |-> p.nodes[n].more,
    date |-> p.nodes[n].date,
    actions |-> {a.kind : a \in {b \in p.actions : b.node = n /\ b.kind # "select"}},
    options |-> {a.option : a \in {b \in p.actions : b.node = n /\ b.kind = "select"}}] :
   n \in {a.node : a \in {b \in p.actions : b.kind \in {"click", "fill", "select"}}}}
Elements == Observed(snapshot)

\* The page has an action that scrolls down.
ScrollsDown == \E a \in snapshot.actions : a.kind = "scroll"
Toggle(e) == e.role \in {"checkbox", "radio", "switch"}
Field(e) == Toggle(e) \/ e.role \in {"combobox", "textbox", "searchbox", "spinbutton"} \/ e.options # {}
Clickable == {e \in Elements : "click" \in e.actions}

\* How many words an element shares with a text; an equal date counts five.
Relevance(e, words, date) ==
  Cardinality((e.label \cup e.more) \cap words) + (IF date # NoDate /\ e.date = date THEN 5 ELSE 0)

\* What may be put before the model: elements fewer than Limit others outrank.
Shortlist(candidates, words, date) ==
  {e \in candidates : Cardinality({d \in candidates : Relevance(d, words, date) > Relevance(e, words, date)}) < Limit}

\* The one candidate that bears the date, or {}: it is taken without asking.
Dated(candidates, date) ==
  LET same == {e \in candidates : e.date = date}
  IN  IF date # NoDate /\ Cardinality(same) = 1 THEN same ELSE {}

\* A text is shown when one element has all its words.
TargetVisible(words) == words # {} /\ \E e \in Elements : words \subseteq e.label \cup e.more
\* Not all words of the target are in one element: it may be further down.
NeedsScroll(words) ==
  words # {} /\ \A e \in Elements : Relevance(e, words, NoDate) < Cardinality(words)

\* The title shares at least six tenths of the words.
Titled(p, words) ==
  LET shared == Cardinality(words \cap p.title)
  IN  words # {} /\ shared >= 1 /\ shared * 10 >= Cardinality(words) * 6

\* The page itself says that the goal is reached: right host, and the item's title or
\* four tenths of the finish words.
VerifyDone(p) ==
  LET shared == Cardinality(Finish \cap p.text)
  IN  /\ p.host
      /\ IF Open # {} THEN Titled(p, Open)
         ELSE Finish # {} /\ shared >= 1 /\ shared * 10 >= Cardinality(Finish) * 4

Value(i) == Requirements[i].value
About(i) == Requirements[i].what \cup Value(i)

\* The requirement's value already stands in a field of its name.
AlreadyShown(i) ==
  \E e \in Elements : /\ Field(e) /\ ~Toggle(e) /\ e.date = NoDate
                      /\ e.label \cap Requirements[i].what # {}
                      /\ e.label \cap Value(i) # {}

\* Every step that acts leaves a note of what it did, where, and what was there.
Recorded(p, kind, i) ==
  [p EXCEPT !.last = [kind |-> kind, req |-> i, before |-> {e.node : e \in Elements}],
            !.edit_url = snapshot.url]

Decides(d) == decision' = d /\ doing' = "decided" /\ UNCHANGED <<plan, snapshot, req>>
Act(kind, node) == [is |-> "action", kind |-> kind, node |-> node]
Says(is) == [is |-> is, kind |-> "none", node |-> 0]

\* A field gets the value; the requirement counts as met from here on.
Fill(e, i) ==
  /\ policy' = Recorded([policy EXCEPT !.met = @ \cup {i}], "fill", i)
  /\ Decides(Act("fill", e.node))
\* The same, and the field is remembered as the requirement's own.
FillOwn(e, i) ==
  /\ policy' = Recorded([policy EXCEPT !.met = @ \cup {i}, !.fields[i] = e.node], "fill", i)
  /\ Decides(Act("fill", e.node))
\* A control is opened: its suggestions are expected next.
OpenControl(e, i) ==
  /\ policy' = Recorded([policy EXCEPT !.fields[i] = e.node], "open", i)
  /\ Decides(Act("click", e.node))
\* The option that holds the value, or the first one there is.
SelectOption(e, i) ==
  /\ policy' = Recorded([policy EXCEPT !.met = @ \cup {i}, !.fields[i] = e.node], "select", i)
  /\ Decides(Act("select", e.node))

Waits == Decides(Act("wait", 0))
WaitCounted(i) == policy' = [policy EXCEPT !.attempts[i] = @ + 1] /\ Waits
Scrolls == UNCHANGED policy /\ Decides(Act("scroll", 0))
ScrollOrWait(i) ==
  IF ScrollsDown /\ (snapshot.omitted \/ NeedsScroll(Value(i))) THEN Scrolls ELSE WaitCounted(i)

\* Whatever is asked of System One may fail, and the step with it.
Unanswered ==
  /\ doing' = "failed"
  /\ UNCHANGED <<plan, policy, snapshot, req, decision>>
-----------------------------------------------------------------------------
\* After a fill or an opened control: what appeared since and fits the value.
Suggestions ==
  IF policy.last.kind \in {"fill", "open"}
  THEN {e \in Clickable : /\ e.node \notin policy.last.before
                          /\ Relevance(e, Value(policy.last.req), Requirements[policy.last.req].date) > 0}
  ELSE {}

PickSuggestion ==
  /\ doing = "suggestions" /\ Suggestions # {}
  /\ LET dated == Dated(Suggestions, Requirements[policy.last.req].date)
     IN  \E e \in IF dated # {} THEN dated
                  ELSE Shortlist(Suggestions, Value(policy.last.req), NoDate) :
           /\ policy' = Recorded(policy, "pick", policy.last.req)
           /\ Decides(Act("click", e.node))

NoSuggestion ==
  /\ doing = "suggestions"
  /\ Suggestions # {} => Dated(Suggestions, Requirements[policy.last.req].date) = {}
  /\ doing' = "requirements" /\ req' = 1
  /\ UNCHANGED <<plan, policy, snapshot, decision>>

Continue == req' = req + 1 /\ UNCHANGED <<doing, plan, snapshot, decision>>

Unsettled(i) == doing = "requirements" /\ req = i /\ i \in Reqs \ (policy.met \cup policy.skipped)

\* One that is settled is passed over, one tried so often is given up.
PassedOver ==
  /\ doing = "requirements" /\ req \in policy.met \cup policy.skipped
  /\ Continue /\ UNCHANGED policy
GiveUp(i) ==
  /\ Unsettled(i) /\ policy.attempts[i] >= Tries
  /\ policy' = [policy EXCEPT !.skipped = @ \cup {i}] /\ Continue

Unmet(i) == Unsettled(i) /\ policy.attempts[i] < Tries
Own(i) == {e \in Elements : e.node = policy.fields[i]}

\* The requirement's field is on the page: fill it, choose from it, or click it.
ActOnField(i) ==
  /\ Unmet(i)
  /\ \E e \in Own(i) :
       IF "fill" \in e.actions THEN Fill(e, i)
       ELSE IF e.options # {} THEN SelectOption(e, i)
       ELSE /\ policy' = Recorded([policy EXCEPT !.met = @ \cup {i}], "click", i)
            /\ Decides(Act("click", e.node))

Shown(i) ==
  /\ Unmet(i) /\ Own(i) = {} /\ AlreadyShown(i)
  /\ policy' = [policy EXCEPT !.met = @ \cup {i}] /\ Continue

Searches(i) == Unmet(i) /\ Own(i) = {} /\ ~AlreadyShown(i)
Candidates(i) == {e \in Clickable : Toggle(e) => e.label \cap About(i) # {}}

NoCandidate(i) == Searches(i) /\ Candidates(i) = {} /\ ScrollOrWait(i)

DatedField(i) ==
  /\ Searches(i)
  /\ \E e \in Dated(Candidates(i), Requirements[i].date) :
       IF "fill" \in e.actions THEN FillOwn(e, i) ELSE OpenControl(e, i)

\* Otherwise System One is asked.
Asked(i) ==
  /\ Searches(i) /\ Candidates(i) # {}
  /\ Dated(Candidates(i), Requirements[i].date) = {}
Fillable(i) == Shortlist({e \in Elements : "fill" \in e.actions}, About(i), Requirements[i].date)
Selectable(i) == Shortlist({e \in Elements : e.options # {}}, About(i), Requirements[i].date)
ToClick(i) == Shortlist(Candidates(i), About(i), Requirements[i].date)

\* "fill": into the field named, else the control named is opened.
AnswersFill(i) ==
  /\ Asked(i)
  /\ \/ \E e \in Fillable(i) : FillOwn(e, i)
     \/ \E e \in ToClick(i) : OpenControl(e, i)
     \/ ScrollOrWait(i)
AnswersSelect(i) ==
  Asked(i) /\ (WaitCounted(i) \/ \E e \in Selectable(i) : SelectOption(e, i))
AnswersClick(i) ==
  Asked(i) /\ (ScrollOrWait(i) \/ \E e \in ToClick(i) : OpenControl(e, i))
\* "scroll" where nothing scrolls waits, and the attempt is not counted.
AnswersScroll(i) == Asked(i) /\ (IF ScrollsDown THEN Scrolls ELSE UNCHANGED policy /\ Waits)
\* "wait", an answer that is none of these, and "done" for a field that is not.
AnswersWait(i) == Asked(i) /\ WaitCounted(i)
\* "done" with a field named all the same: it is filled.
AnswersDone(i) == Asked(i) /\ \E e \in Fillable(i) : Fill(e, i)

\* "blocked": the requirement is given up.
Blocks(p, i) == [p EXCEPT !.attempts[i] = @ + 1, !.skipped = @ \cup {i}]
AnswersBlocked(i) == Asked(i) /\ policy' = Blocks(policy, i) /\ Continue
-----------------------------------------------------------------------------
AllSettled == doing = "requirements" /\ req \notin Reqs

\* The title names the item: done, before anything is asked.
ItemOpened ==
  AllSettled /\ Titled(snapshot, Open) /\ UNCHANGED policy /\ Decides(Says("done"))

Seeks == AllSettled /\ ~Titled(snapshot, Open)
ItemBelow == /\ Open # {} /\ ~TargetVisible(Open) /\ ScrollsDown
             /\ snapshot.omitted \/ NeedsScroll(Open)
ScrollToItem == Seeks /\ ItemBelow /\ Scrolls

SubmitButtons == {e \in Clickable : e.role = "button" \/ e.label \cap SubmitWords # {}}
Items == {e \in Clickable : Relevance(e, Open, NoDate) > 0 /\ ~Field(e)}
\* A label clicked twice without result is not offered again.
TriedTwice(label) == <<label, 2>> \in policy.tried
Nexts == {e \in Clickable : ~TriedTwice(e.label)}
Navigated == policy.edit_url \notin {"none", snapshot.url}
Classifies == policy.submitted \/ Navigated \/ Reqs = {}
Pooled == SubmitButtons \cup Items \cup Nexts

NothingLeft ==
  /\ Seeks /\ ~ItemBelow /\ Pooled = {} /\ ~Classifies
  /\ UNCHANGED policy /\ Decides(Says("blocked"))

AsksPage == Seeks /\ ~ItemBelow /\ (Pooled # {} \/ Classifies)

\* The page is read as the finish, or as results that have had their time.
ReadAsFinished ==
  /\ AsksPage /\ Classifies /\ UNCHANGED policy /\ Decides(Says("done"))
ReadAsResults ==
  /\ AsksPage /\ Classifies
  /\ IF policy.waits >= 2 THEN UNCHANGED policy /\ Decides(Says("done"))
     ELSE policy' = [policy EXCEPT !.waits = @ + 1] /\ Waits

OperationDone == AsksPage /\ UNCHANGED policy /\ Decides(Says("done"))
OperationScroll == AsksPage /\ UNCHANGED policy /\ Decides(Act(IF ScrollsDown THEN "scroll" ELSE "wait", 0))
\* "blocked", "wait", no answer, and a click on nothing: the step found nothing.
OperationNone == AsksPage /\ UNCHANGED policy /\ Decides(Says("blocked"))

\* A click counts as submit before item before next; a next is counted by its label.
OperationClick ==
  /\ AsksPage
  /\ \E e \in Shortlist(Pooled, Finish, NoDate) :
       LET n == IF <<e.label, 1>> \in policy.tried THEN 2 ELSE 1
           kind == IF e \in SubmitButtons THEN "submit" ELSE IF e \in Items THEN "item" ELSE "next"
       IN  /\ policy' = Recorded([policy EXCEPT
                          !.submitted = @ \/ kind = "submit",
                          !.tried = IF kind = "next" THEN @ \cup {<<e.label, n>>} ELSE @], kind, 1)
           /\ Decides(Act("click", e.node))

\* A question on the way is not answered.
AskFails ==
  /\ \/ doing = "suggestions" /\ Suggestions # {}
     \/ \E i \in Reqs : Asked(i)
     \/ AsksPage
  /\ Unanswered

PolicyStep ==
  \/ PickSuggestion \/ NoSuggestion \/ PassedOver
  \/ \E i \in Reqs : \/ GiveUp(i) \/ ActOnField(i) \/ Shown(i) \/ NoCandidate(i) \/ DatedField(i)
                     \/ AnswersFill(i) \/ AnswersSelect(i) \/ AnswersClick(i) \/ AnswersScroll(i)
                     \/ AnswersWait(i) \/ AnswersDone(i) \/ AnswersBlocked(i)
  \/ ItemOpened \/ ScrollToItem \/ NothingLeft \/ ReadAsFinished \/ ReadAsResults
  \/ OperationDone \/ OperationScroll \/ OperationNone \/ OperationClick \/ AskFails
=============================================================================
