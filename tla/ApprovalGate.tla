---------------------------- MODULE ApprovalGate ----------------------------
(***************************************************************************)
(* lucy-core's ApprovalGate (crates/lucy-core/src/lib.rs): one gate per     *)
(* runtime, shared by every run's tool calls, the UIs that answer prompts   *)
(* and the kill switch.  A prompt is a oneshot channel: its receiver is     *)
(* held by the waiting tool call, its sender sits in `pending` under the    *)
(* caller's call id until somebody resolves that id.                        *)
(*                                                                         *)
(* Prompts are numbered in the order they are opened; the number stands for *)
(* the channel, which the code has no name for.                             *)
(***************************************************************************)
EXTENDS Naturals, Sequences, FiniteSets

CONSTANTS Tools, Ids,
          Requires,     \* the tools whose registry entry or catalog asks for approval
          AskIds,       \* the ids of callers that use ask() and not ask_cancellable()
          Modes,        \* values the mode string takes, typos included
          MaxPrompts,   \* bound: prompts opened
          MaxOpen       \* bound: tool calls waiting at once

ASSUME GateAssumption ==
  /\ Requires \subseteq Tools
  /\ AskIds \subseteq Ids
  /\ MaxPrompts \in Nat /\ MaxOpen \in Nat

VARIABLES prompts,   \* the ask() and ask_cancellable() calls so far
          pending,   \* call id -> prompt whose sender the map holds, 0 for none
          taken,     \* <<prompt, decision>>: resolve() holds the sender, not yet sent
          listening, \* the events slot holds a channel
          mode, always,
          stop,      \* the interrupt flag
          draining   \* ids the kill switch has still to deny

gateVars == <<prompts, pending, taken, listening, mode, always, stop, draining>>

Allows    == {"AllowOnce", "AllowAlways"}
Decisions == Allows \cup {"Deny"}
None      == "none"

\* at: where the call is.  woken: its notified() future was
\* signalled.  shown: the prompt was published.  said: what the user answered
\* on this prompt's card.  answer: what its channel carries.  result: what the
\* call returned.
Prompt == [id : Ids, tool : Tools,
           at : {"opened", "waiting", "over"}, woken : BOOLEAN, shown : BOOLEAN,
           said : Decisions \cup {None}, answer : Decisions \cup {None},
           result : Decisions \cup {None, "Stopped"}]

GateTypeOK ==
  /\ prompts \in Seq(Prompt) /\ Len(prompts) <= MaxPrompts
  /\ pending \in [Ids -> 0..Len(prompts)]
  /\ taken \subseteq (1..Len(prompts)) \X Decisions
  /\ {listening, stop} \subseteq BOOLEAN
  /\ mode \in Modes
  /\ always \subseteq Tools
  /\ draining \subseteq Ids

GateInit ==
  /\ prompts = << >>
  /\ pending = [i \in Ids |-> 0]
  /\ taken = {}
  /\ listening = TRUE
  /\ mode \in Modes
  /\ always = {}
  /\ stop = FALSE
  /\ draining = {}

Live == {n \in DOMAIN prompts : prompts[n].at # "over"}
HasSender(n) == \/ n \in {pending[i] : i \in Ids}
                \/ \E d \in Decisions : <<n, d>> \in taken

----------------------------------------------------------------------------
(* The mode, and who listens. *)

CurrentMode == IF mode \in {"never", "write", "always"} THEN mode ELSE "write"

NeedsApproval(tool) ==
  /\ CurrentMode # "never"
  /\ tool \notin always
  /\ CurrentMode = "always" \/ tool \in Requires

SetMode(m) ==
  /\ mode' = m
  /\ UNCHANGED <<prompts, pending, taken, listening, always, stop, draining>>

\* set_events() as a run starts, clear_events() as it ends.
SetEvents(b) ==
  /\ listening' = b
  /\ UNCHANGED <<prompts, pending, taken, mode, always, stop, draining>>

----------------------------------------------------------------------------
(* The asking side. *)

\* open_prompt: insert, then publish.  An entry under the same id is replaced,
\* which drops the older prompt's sender.
OpenPrompt(i, tool) ==
  /\ Len(prompts) < MaxPrompts /\ Cardinality(Live) < MaxOpen
  /\ NeedsApproval(tool)
  /\ prompts' = Append(prompts,
       [id |-> i, tool |-> tool, at |-> "opened", woken |-> FALSE,
        shown |-> listening, said |-> None, answer |-> None, result |-> None])
  /\ pending' = [pending EXCEPT ![i] = Len(prompts) + 1]
  /\ UNCHANGED <<taken, listening, mode, always, stop, draining>>

\* Slip: the select! registers with the interrupt but does not test the flag.
AwaitUntested(n) ==
  /\ prompts[n].at = "opened"
  /\ prompts' = [prompts EXCEPT ![n].at = "waiting"]
  /\ UNCHANGED <<pending, taken, listening, mode, always, stop, draining>>

\* The select!'s first poll: notified() registers, and is ready at once when
\* the flag is up.
Await(n) ==
  /\ prompts[n].at = "opened"
  /\ prompts' = [prompts EXCEPT ![n].at = "waiting", ![n].woken = stop]
  /\ UNCHANGED <<pending, taken, listening, mode, always, stop, draining>>

Return(n, result) ==
  prompts' = [prompts EXCEPT ![n].at = "over", ![n].result = result]

\* The channel delivered a decision; "always" is remembered under the name of
\* the tool this call asked about.
Answered(n) ==
  /\ prompts[n].at = "waiting" /\ prompts[n].answer # None
  /\ Return(n, prompts[n].answer)
  /\ always' = IF prompts[n].answer = "AllowAlways"
               THEN always \cup {prompts[n].tool} ELSE always
  /\ UNCHANGED <<pending, taken, listening, mode, stop, draining>>

Discard(n) == pending' = [pending EXCEPT ![prompts[n].id] = 0]

\* Slip: a closed channel is waved through.
ClosedAllows(n) ==
  /\ prompts[n].at = "waiting" /\ prompts[n].answer = None /\ ~HasSender(n)
  /\ Return(n, "AllowOnce")
  /\ IF prompts[n].id \in AskIds THEN Discard(n) ELSE UNCHANGED pending
  /\ UNCHANGED <<taken, listening, mode, always, stop, draining>>

\* The sender was dropped unsent.  ask() discards its id as after a timeout,
\* ask_cancellable() does not; both refuse.
Closed(n) ==
  /\ prompts[n].at = "waiting" /\ prompts[n].answer = None /\ ~HasSender(n)
  /\ Return(n, "Deny")
  /\ IF prompts[n].id \in AskIds THEN Discard(n) ELSE UNCHANGED pending
  /\ UNCHANGED <<taken, listening, mode, always, stop, draining>>

\* APPROVAL_TIMEOUT.  Only ask() takes its entry back out of the map.
TimeOut(n) ==
  /\ prompts[n].at = "waiting" /\ prompts[n].answer = None
  /\ Return(n, "Deny")
  /\ IF prompts[n].id \in AskIds THEN Discard(n) ELSE UNCHANGED pending
  /\ UNCHANGED <<taken, listening, mode, always, stop, draining>>

\* The select!'s other branch.
Interrupted(n) ==
  /\ prompts[n].at = "waiting" /\ prompts[n].id \notin AskIds
  /\ prompts[n].woken
  /\ Return(n, "Stopped")
  /\ Discard(n)
  /\ UNCHANGED <<taken, listening, mode, always, stop, draining>>

----------------------------------------------------------------------------
(* The answering side: resolve() removes the sender under the lock and sends
   after releasing it. *)

Take(i, d) ==
  /\ taken' = taken \cup {<<pending[i], d>>}
  /\ pending' = [pending EXCEPT ![i] = 0]

\* A user answers the card of prompt n.  The gate only sees its id.
UserAnswers(n, d) ==
  /\ prompts[n].shown /\ prompts[n].said = None
  /\ prompts' = [prompts EXCEPT ![n].said = d]
  /\ IF pending[prompts[n].id] # 0
     THEN Take(prompts[n].id, d) ELSE UNCHANGED <<pending, taken>>
  /\ UNCHANGED <<listening, mode, always, stop, draining>>

\* A send to a receiver that is gone is discarded.
Send(n, d) ==
  /\ <<n, d>> \in taken
  /\ taken' = taken \ {<<n, d>>}
  /\ prompts' = IF n \in Live THEN [prompts EXCEPT ![n].answer = d] ELSE prompts
  /\ UNCHANGED <<pending, listening, mode, always, stop, draining>>

----------------------------------------------------------------------------
(* The kill switch (gateway Stop, TUI /stop): fire, then deny what pends. *)

Fire ==
  /\ ~stop
  /\ stop' = TRUE
  /\ prompts' = [n \in DOMAIN prompts |->
                   [prompts[n] EXCEPT !.woken = @ \/ prompts[n].at = "waiting"]]
  /\ UNCHANGED <<pending, taken, listening, mode, always, draining>>

PendingIds ==
  /\ draining = {} /\ stop
  /\ draining' = {i \in Ids : pending[i] # 0}
  /\ UNCHANGED <<prompts, pending, taken, listening, mode, always, stop>>

DenyPending(i) ==
  /\ i \in draining
  /\ draining' = draining \ {i}
  /\ IF pending[i] # 0 THEN Take(i, "Deny") ELSE UNCHANGED <<pending, taken>>
  /\ UNCHANGED <<prompts, listening, mode, always, stop>>

\* save_user_message() of the next turn.
GateReset ==
  /\ stop
  /\ stop' = FALSE
  /\ UNCHANGED <<prompts, pending, taken, listening, mode, always, draining>>

----------------------------------------------------------------------------
Wakeup(n) == Await(n) \/ Answered(n) \/ Closed(n) \/ Interrupted(n)

GateNext ==
  \/ \E i \in Ids, tool \in Tools : OpenPrompt(i, tool)
  \/ \E n \in DOMAIN prompts : Wakeup(n) \/ TimeOut(n)
  \/ \E n \in DOMAIN prompts, d \in Decisions : UserAnswers(n, d) \/ Send(n, d)
  \/ \E m \in Modes : SetMode(m)
  \/ \E b \in BOOLEAN : SetEvents(b)
  \/ Fire \/ PendingIds \/ GateReset
  \/ \E i \in Ids : DenyPending(i)

GateSpec == GateInit /\ [][GateNext]_gateVars

\* A task whose select! has a ready branch is polled.  The timer is left out:
\* a stop must not need it.
GateFairSpec == GateSpec /\ \A n \in 1..MaxPrompts : WF_gateVars(n \in DOMAIN prompts /\ Wakeup(n))

----------------------------------------------------------------------------
Allowed(n) == prompts[n].result \in Allows

\* A timeout, a dropped channel or a stop is never an allow, and one answer
\* allows at most one call: the calls allowed under an id are no more than the
\* allowing answers the user gave to that id's cards.
OneAnswerOneCall ==
  \A i \in Ids :
    Cardinality({n \in DOMAIN prompts : prompts[n].id = i /\ Allowed(n)})
      <= Cardinality({n \in DOMAIN prompts : prompts[n].id = i /\ prompts[n].said \in Allows})

\* What is behind it: a prompt carries an allow from the moment its sender is
\* taken with one, and only under the id the allowing answer was given to.
Carries(n) == Allowed(n) \/ prompts[n].answer \in Allows \/ \E d \in Allows : <<n, d>> \in taken
Bearing(i) == {n \in DOMAIN prompts : prompts[n].id = i /\ Carries(n)}
Given(i)   == {n \in DOMAIN prompts : prompts[n].id = i /\ prompts[n].said \in Allows}
AnswerInv ==
  /\ GateTypeOK
  /\ \A i \in Ids : pending[i] # 0 => prompts[pending[i]].id = i
  /\ \A i \in Ids : Cardinality(Bearing(i)) <= Cardinality(Given(i))

\* A kill switch that is up while a prompt waits, or fires while it waits, ends
\* the prompt without its timer, even if the next turn resets the flag first.
StopEndsPrompts ==
  \A n \in 1..MaxPrompts :
    (stop /\ n \in Live /\ prompts[n].at = "waiting" /\ prompts[n].id \notin AskIds)
      ~> (n \notin Live)
=============================================================================
