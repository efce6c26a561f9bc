----------------------------- MODULE MCSessions -----------------------------
(***************************************************************************)
(* The conversation, the turns taken in it, the nudges about tasks, the     *)
(* page watches and the browser tab, side by side: they share no variable,  *)
(* and a behaviour moves one of the five.                                   *)
(***************************************************************************)
EXTENDS Sessions, Turn, Tasks, BrowserTab, TLC

CONSTANTS s0, s1, s2, p1, p2

VARIABLE part

MCLegacyTurns == <<Said("before", "user"), Said("before", "lucy")>>

\* A page opened, a click with and without its element, a tool that is not
\* there, one that wants approval, and one that wants nothing.
Cmd(o, t, n, k, r) == [opens |-> o, touches |-> t, named |-> n, known |-> k, risky |-> r]
MCCommands == {Cmd(TRUE, FALSE, TRUE, TRUE, FALSE), Cmd(FALSE, TRUE, TRUE, TRUE, FALSE),
               Cmd(FALSE, TRUE, FALSE, TRUE, FALSE), Cmd(FALSE, FALSE, TRUE, FALSE, FALSE),
               Cmd(FALSE, FALSE, TRUE, TRUE, TRUE), Cmd(FALSE, FALSE, TRUE, TRUE, FALSE)}

Swaps == Permutations({s1, s2}) \cup Permutations({p1, p2})

MCLength == [a |-> 1, b |-> 2, c |-> 2]
MCAlike == {<<"b", "c">>, <<"c", "b">>}

Link(p, s, t) == [place |-> p, search |-> s, tube |-> t]
MCBlank == Link("blank", "", FALSE)
MCLinks == {Link("video", "tla", TRUE), Link("video", "rust", TRUE)}

MCInit ==
  /\ part \in {"sessions", "turn", "nudges", "watches", "tab"}
  /\ SessionsInit /\ TurnInit /\ NudgeInit /\ WatchInit /\ TabInit
  /\ part # "turn" => request = "ask"
  /\ part # "tab" => chrome.up

MCNext ==
  \/ part = "sessions" /\ SessionsNext /\ UNCHANGED <<turnVars, nudgeVars, watchVars, tabVars, part>>
  \/ part = "turn" /\ TurnNext /\ UNCHANGED <<sessionsVars, nudgeVars, watchVars, tabVars, part>>
  \/ part = "nudges" /\ NudgeNext /\ UNCHANGED <<sessionsVars, turnVars, watchVars, tabVars, part>>
  \/ part = "watches" /\ WatchNext /\ UNCHANGED <<sessionsVars, turnVars, nudgeVars, tabVars, part>>
  \/ part = "tab" /\ TabNext /\ UNCHANGED <<sessionsVars, turnVars, nudgeVars, watchVars, part>>

MCSpec == MCInit /\ [][MCNext]_<<sessionsVars, turnVars, nudgeVars, watchVars, tabVars, part>>
=============================================================================
