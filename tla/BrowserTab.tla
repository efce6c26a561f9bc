------------------------------ MODULE BrowserTab ------------------------------
(***************************************************************************)
(* The browser tab behind the browser loop (lucy-systemone, browser_cdp.rs  *)
(* and hyprfast_browser.rs). An operation of the client is a row of calls;  *)
(* each call is numbered, sent over one socket and answered with its number,*)
(* and the next one is made when the last has been heard, or given up. The  *)
(* tab carries out what it was sent in order, also what nobody waits for    *)
(* any more. What a page says when it is asked is left open.                *)
(***************************************************************************)
EXTENDS Naturals, Sequences, SequencesExt, FiniteSetsExt

CONSTANTS Links,      \* the addresses: a place, what is searched there, and whether only that counts
          Blank,      \* the address of an empty tab
          MaxPolls,   \* bound on the polls of one wait, in place of its deadline
          MaxOps,     \* bound on the operations begun
          MaxLate,    \* bound on the calls given up while their answer may still come
          MaxTabs

VARIABLES chrome,  \* the browser: whether it runs, its tabs, and the profile's preference
          target,  \* the tab held, 0 without one
          socket,  \* the connection: the tab it leads to, what was sent, what came back
          doing,   \* the operation under way
          ops, unheard,
          log      \* what the page carried out, by operation
tabVars == <<chrome, target, socket, doing, ops, unheard, log>>

ClosedTab == [place |-> "closed", search |-> "", tube |-> FALSE]
NoSocket == [open |-> FALSE, tab |-> 0, calls |-> 0, sent |-> << >>, back |-> << >>]
Resting == [op |-> "none", at |-> "rest", link |-> Blank, todo |-> << >>, id |-> 0, calm |-> FALSE, polls |-> 0]

TabInit ==
  /\ \E up \in BOOLEAN : chrome = [up |-> up, tabs |-> IF up THEN <<Blank>> ELSE << >>, pref |-> "on"]
  /\ target = 0 /\ socket = NoSocket /\ doing = Resting /\ ops = 0 /\ unheard = 0 /\ log = << >>
-----------------------------------------------------------------------------
(* The rows of calls *)

Enter == <<"enter_down", "enter_up">>
Click == <<"press", "release">>
\* What an action sends; without a text nothing is inserted and Enter is not pressed.
Calls(kind, text) ==
  CASE kind = "wait" -> << >>
    [] kind = "scroll" -> <<"load", "wheel">>
    [] kind = "select" -> <<"load", "guard">>
    [] kind = "click" -> <<"load", "guard">> \o Click
    [] kind = "fill" -> <<"load", "guard">> \o Click \o <<"all_down", "all_up">>
                          \o (IF text THEN <<"insert">> \o Enter ELSE << >>)

\* Asking the page, and what is sent to it.
Looks == {"load", "guard", "ready", "frames", "options", "idle", "snapshot"}
Waits == {"load", "ready", "options", "guard"}
\* Whatever comes of these, the operation goes on.
BestEffort == {"navigate", "frames", "idle"}

Begin(op, todo) ==
  /\ doing = Resting /\ ops < MaxOps /\ ops' = ops + 1
  /\ doing' = [Resting EXCEPT !.op = op, !.at = "calls", !.todo = todo]
  /\ log' = IF op = "act" THEN Append(log, [row |-> todo, ran |-> << >>]) ELSE log
  /\ UNCHANGED <<chrome, target, socket, unheard>>
Held == socket.tab # 0
Act == Held /\ \E kind \in {"wait", "scroll", "select", "click", "fill"}, text \in BOOLEAN :
                 Begin("act", Calls(kind, text))
PressEnter == Held /\ Begin("enter", Enter)
ObservePage == Held /\ Begin("observe", <<"snapshot">>)
SettlePage == Held /\ Begin("settle", <<"ready", "frames">>)
SeekOptions == Held /\ Begin("suggestions", <<"options">>)
IdleNetwork == Held /\ Begin("idle", <<"idle">>)
-----------------------------------------------------------------------------
(* Connecting *)

\* The same place; where only the search counts, the same search as well.
SameTab(have, want) ==
  /\ have.place = want.place
  /\ want.tube /\ {have.search, want.search} # {""} => have.search = want.search

Connects(phase) == doing.op = "connect" /\ doing.at = phase
Goes(phase) == doing' = [doing EXCEPT !.at = phase]
ConnectOnly == UNCHANGED <<target, socket, ops, unheard, log>>

\* With or without an address; the daemon is started first, whatever comes of it.
Connect ==
  /\ doing = Resting /\ ops < MaxOps /\ ops' = ops + 1
  /\ \E link \in Links \cup {Blank} : doing' = [Resting EXCEPT !.op = "connect", !.at = "probe", !.link = link]
  /\ UNCHANGED <<chrome, target, socket, unheard, log>>
Probe == Connects("probe") /\ Goes(IF chrome.up THEN "tab" ELSE "pref") /\ UNCHANGED chrome /\ ConnectOnly
\* The preference goes in before the launch, as far as the profile can be written.
WritePref ==
  /\ Connects("pref") /\ Goes("launch") /\ ConnectOnly
  /\ \E ok \in BOOLEAN : chrome' = IF ok THEN [chrome EXCEPT !.pref = "off"] ELSE chrome
\* hyprfast launches it on the address, or does not; then the port is polled.
Launch ==
  /\ Connects("launch") /\ Goes("poll") /\ ConnectOnly
  /\ chrome' \in {chrome, [chrome EXCEPT !.up = TRUE, !.tabs = <<doing.link>>]}
Poll ==
  /\ Connects("poll") /\ ConnectOnly /\ UNCHANGED chrome
  /\ IF chrome.up THEN Goes("tab") ELSE doing' = Resting

\* A tab that is there already, else a new one; without an address the first there is.
Kept == {t \in DOMAIN chrome.tabs : chrome.tabs[t] # ClosedTab}
Fit == {t \in DOMAIN chrome.tabs : SameTab(chrome.tabs[t], doing.link)}
TakeTab ==
  /\ Connects("tab") /\ chrome.up /\ UNCHANGED <<chrome, socket, ops, unheard, log>>
  /\ IF doing.link = Blank
     THEN IF Kept = {} THEN doing' = Resting /\ UNCHANGED target
          ELSE target' = Min(Kept) /\ Goes("socket")
     ELSE Fit # {} /\ target' = Min(Fit) /\ Goes("socket")
\* Also when the tabs could not be listed.
OpenTab ==
  /\ Connects("tab") /\ chrome.up /\ doing.link # Blank /\ Len(chrome.tabs) < MaxTabs
  /\ chrome' = [chrome EXCEPT !.tabs = Append(@, Blank)] /\ target' = Len(chrome.tabs) + 1
  /\ Goes("socket") /\ UNCHANGED <<socket, ops, unheard, log>>
TabFails == Connects("tab") /\ doing' = Resting /\ UNCHANGED chrome /\ ConnectOnly
\* The new connection takes the place of the old one; without it the old one stays.
OpenSocket ==
  /\ Connects("socket") /\ UNCHANGED <<chrome, target, ops, unheard, log>>
  /\ \/ /\ socket' = [NoSocket EXCEPT !.open = TRUE, !.tab = target, !.calls = socket.calls]
        /\ doing' = [doing EXCEPT !.at = "calls",
                                  !.todo = (IF doing.link = Blank THEN << >> ELSE <<"navigate">>)
                                             \o <<"metrics", "focus", "load">>]
     \/ doing' = Resting /\ UNCHANGED socket

\* The tab held is closed, whoever opened it, if the browser hears of it.
Close ==
  /\ doing = Resting /\ target # 0 /\ target' = 0
  /\ socket' = [NoSocket EXCEPT !.calls = socket.calls]
  /\ chrome' \in {chrome, [chrome EXCEPT !.tabs[target] = ClosedTab]}
  /\ UNCHANGED <<doing, ops, unheard, log>>
-----------------------------------------------------------------------------
(* Calls *)

NextCall == Head(doing.todo)
Finished == doing' = Resting
Onward == doing' = IF Len(doing.todo) = 1 THEN Resting
                   ELSE [doing EXCEPT !.todo = Tail(@), !.id = 0, !.calm = FALSE, !.polls = 0]
Again(calm) ==
  /\ doing.polls < MaxPolls
  /\ doing' = [doing EXCEPT !.id = 0, !.calm = calm, !.polls = @ + 1]

\* A call that failed, for the loops that wait: they ask again or let it be. A page
\* counts as loaded when it was found with the same content twice running.
Polled(says) ==
  CASE NextCall = "load" -> \/ says = "yes" /\ doing.calm /\ Onward
                            \/ says = "yes" /\ Again(TRUE)
                            \/ says = "no" /\ Again(FALSE)
                            \/ says = "error" /\ Again(doing.calm)
                            \/ Onward
    [] NextCall = "ready" -> \/ says = "yes" /\ Onward
                             \/ says # "yes" /\ Again(FALSE)
                             \/ Finished
    [] NextCall = "options" -> Onward \/ (says # "yes" /\ Again(FALSE))
    [] NextCall = "guard" -> \/ says = "yes" /\ Onward
                             \/ says = "no" /\ Again(FALSE)
                             \/ says # "yes" /\ Finished
Hears(says) ==
  CASE NextCall \in Waits -> Polled(says)
    [] NextCall \in BestEffort -> Onward
    [] OTHER -> IF says = "yes" THEN Onward ELSE Finished

Calling == doing.at = "calls" /\ doing.todo # << >>
Untouched == UNCHANGED <<chrome, target, ops, log>>
CallOnly == Untouched /\ UNCHANGED unheard
NothingToSend == doing.at = "calls" /\ doing.todo = << >> /\ Finished /\ UNCHANGED socket /\ CallOnly
SendCall ==
  /\ Calling /\ doing.id = 0 /\ socket.open /\ CallOnly
  /\ socket' = [socket EXCEPT !.calls = @ + 1,
                              !.sent = Append(@, [id |-> socket.calls + 1, cmd |-> NextCall, act |-> IF doing.op = "act" THEN Len(log) ELSE 0])]
  /\ doing' = [doing EXCEPT !.id = socket.calls + 1]
CallUnsent == Calling /\ doing.id = 0 /\ ~socket.open /\ Hears("error") /\ UNCHANGED socket /\ CallOnly

\* Slip: whatever comes back is taken for the answer.
AnswersAnything(frame) == TRUE

AnswersCall(frame) == frame.id = doing.id

Answer ==
  /\ Calling /\ doing.id # 0 /\ socket.back # << >> /\ CallOnly
  /\ socket' = [socket EXCEPT !.back = Tail(@)]
  /\ IF AnswersCall(Head(socket.back)) THEN Hears(Head(socket.back).says) ELSE UNCHANGED doing
GivesUpCall == socket.open /\ unheard < MaxLate /\ unheard' = unheard + 1
\* Five seconds without a frame, or a connection that is gone.
NoAnswer ==
  /\ Calling /\ doing.id # 0 /\ socket.back = << >> /\ Hears("error")
  /\ GivesUpCall \/ (~socket.open /\ UNCHANGED unheard)
  /\ UNCHANGED socket /\ Untouched
\* The two frames are waited for a third of a second and no longer.
LeavesFrames ==
  /\ Calling /\ doing.id # 0 /\ NextCall = "frames" /\ Onward /\ GivesUpCall
  /\ UNCHANGED socket /\ Untouched

\* The tab does what it was sent first: it looks, or it does as it is told, or it
\* cannot. A choice is made where the element is looked for.
Says(cmd) == IF cmd \in Looks THEN {"yes", "no", "error"} ELSE {"yes", "error"}
Execute ==
  /\ socket.open /\ socket.sent # << >>
  /\ LET c == Head(socket.sent)
     IN  \E says \in Says(c.cmd) :
           /\ socket' = [socket EXCEPT !.sent = Tail(@), !.back = Append(@, [id |-> c.id, says |-> says])]
           /\ log' = IF c.act # 0 /\ c.cmd # "load" /\ says = "yes"
                     THEN [log EXCEPT ![c.act].ran = Append(@, c.cmd)] ELSE log
           /\ chrome' = IF c.cmd = "navigate" /\ says = "yes"
                        THEN [chrome EXCEPT !.tabs[socket.tab] = doing.link] ELSE chrome
  /\ UNCHANGED <<target, doing, ops, unheard>>
Breaks ==
  /\ socket.open /\ socket' = [socket EXCEPT !.open = FALSE, !.sent = << >>, !.back = << >>]
  /\ UNCHANGED <<chrome, target, doing, ops, unheard, log>>

TabNext ==
  \/ Act \/ PressEnter \/ ObservePage \/ SettlePage \/ SeekOptions \/ IdleNetwork
  \/ Connect \/ Probe \/ WritePref \/ Launch \/ Poll \/ TakeTab \/ OpenTab \/ TabFails \/ OpenSocket \/ Close
  \/ NothingToSend \/ SendCall \/ CallUnsent \/ Answer \/ NoAnswer \/ LeavesFrames
  \/ Execute \/ Breaks
TabSpec == TabInit /\ [][TabNext]_tabVars
-----------------------------------------------------------------------------
TabTypeOK ==
  /\ chrome.pref \in {"on", "off"} /\ target \in 0..MaxTabs
  /\ doing.polls \in 0..MaxPolls /\ ops \in 0..MaxOps /\ unheard \in 0..MaxLate
  /\ \A k \in DOMAIN log : log[k].ran \in Seq(STRING)

\* The inputs of an action: its calls but for the wait for the page they begin with.
Inputs(row) == IF row = << >> THEN row ELSE Tail(row)

\* What the page carries out of an action is what the action sends, from its
\* first input on and without a gap: no click goes to an element that was not
\* found, no text into a field that was not selected, and no Enter is pressed on
\* a text that was refused, however late the answers of earlier calls come
\* ("wait for its matching response", browser_cdp.rs:672).
EachStepOnTheLast == \A k \in DOMAIN log : IsPrefix(log[k].ran, Inputs(log[k].row))

\* What is behind it: an input that is still on its way to the page is the next one
\* of its action, there is one at most, and while an action is under way what came
\* back says how far the page is with it.
Cmds ==
  Looks \cup BestEffort
  \cup {"metrics", "focus", "wheel", "press", "release", "all_down", "all_up", "insert", "enter_down", "enter_up"}
OpensWithLoad(row) ==
  row # << >> => row[1] = "load" /\ \A i \in 2..Len(row) : row[i] \notin (Waits \ {"guard"}) \cup BestEffort
Follows(ran, row) == Len(ran) <= Len(Inputs(row)) /\ \A i \in 1..Len(ran) : ran[i] = Inputs(row)[i]
Awaits(e, cmd) == Len(e.ran) < Len(Inputs(e.row)) /\ cmd = Inputs(e.row)[Len(e.ran) + 1]
LogInv ==
  /\ log \in Seq([row : Seq(Cmds), ran : Seq(Cmds)])
  /\ \A k \in DOMAIN log : OpensWithLoad(log[k].row) /\ Follows(log[k].ran, log[k].row)

OneDoing(d) ==
  /\ d = [op |-> d.op, at |-> d.at, link |-> d.link, todo |-> d.todo, id |-> d.id, calm |-> d.calm, polls |-> d.polls]
  /\ d.todo \in Seq(Cmds) /\ d.id \in Nat
SentFrames(calls, acts) == [id : 1..calls, cmd : Cmds, act : 0..acts]
BackFrames(calls) == [id : 1..calls, says : {"yes", "no", "error"}]
OneSocket(s) ==
  /\ s = [open |-> s.open, tab |-> s.tab, calls |-> s.calls, sent |-> s.sent, back |-> s.back]
  /\ s.calls \in Nat
  /\ s.sent \in Seq(SentFrames(s.calls, Len(log)))
  /\ s.back \in Seq(BackFrames(s.calls))

IsInput(c) == c.act # 0 /\ c.cmd # "load"
WireInv ==
  /\ \A i, j \in DOMAIN socket.sent : socket.sent[i].id = socket.sent[j].id => i = j
  /\ \A i \in DOMAIN socket.sent, j \in DOMAIN socket.back : socket.sent[i].id # socket.back[j].id
  /\ \A i \in DOMAIN socket.sent : IsInput(socket.sent[i]) => Awaits(log[socket.sent[i].act], socket.sent[i].cmd)
  /\ \A i, j \in DOMAIN socket.sent :
       IsInput(socket.sent[i]) /\ IsInput(socket.sent[j]) /\ socket.sent[i].act = socket.sent[j].act => i = j

\* How far an action is: the calls it has behind it, and the inputs among them.
Cut(row) == Len(row) - Len(doing.todo)
UnderWay(e) ==
  /\ Len(doing.todo) <= Len(e.row)
  /\ \A i \in 1..Len(doing.todo) : doing.todo[i] = e.row[Cut(e.row) + i]
  /\ doing.id = 0 \/ NextCall = "load" =>
       /\ Len(e.ran) = IF NextCall = "load" THEN 0 ELSE Cut(e.row) - 1
       /\ \A i \in DOMAIN socket.sent : IsInput(socket.sent[i]) => socket.sent[i].act # Len(log)
  /\ doing.id # 0 /\ NextCall # "load" =>
       /\ \A i \in DOMAIN socket.sent :
            IF socket.sent[i].id = doing.id
            THEN socket.sent[i].act = Len(log) /\ socket.sent[i].cmd = NextCall /\ Len(e.ran) = Cut(e.row) - 1
            ELSE IsInput(socket.sent[i]) => socket.sent[i].act # Len(log)
       /\ \A j \in DOMAIN socket.back : socket.back[j].id = doing.id =>
            Len(e.ran) = IF socket.back[j].says = "yes" THEN Cut(e.row) ELSE Cut(e.row) - 1
ActInv == doing.op = "act" /\ doing.todo # << >> => log # << >> /\ UnderWay(log[Len(log)])

TabInv == LogInv /\ OneDoing(doing) /\ OneSocket(socket) /\ WireInv /\ ActInv
=============================================================================
