-------------------------------- MODULE Tasks --------------------------------
(***************************************************************************)
(* lucy-tasks: the to-do list (lib.rs), the loop that nudges about it      *)
(* (nudge.rs) and the watcher of web pages (watch.rs). Every operation of  *)
(* the list is one statement; a round of nudges makes three of them, each  *)
(* against the clock of its own moment, and keeps what it has read while   *)
(* the list goes on changing. Every watch has a baseline that its owner    *)
(* sets; a check fetches the page and reports how it differs from it, line *)
(* by line. A line is a model value with a length; which lines resemble    *)
(* each other is given.                                                    *)
(***************************************************************************)
EXTENDS Integers, Sequences, SequencesExt, FiniteSetsExt, Bags

CONSTANTS TaskIds,
          SoonWithin,  \* one hour
          StalledFor,  \* one day
          MaxTime,     \* bound on the clock
          MaxRounds    \* bound on the rounds of nudges

VARIABLES time,
          todo,     \* the rows of the table, by task
          nudger,   \* the loop: where it is, the time its round began, what it found
          rounds,
          listener  \* whether anyone holds the other end of the channel
nudgeVars == <<time, todo, nudger, rounds, listener>>

Never == -1
Absent == [status |-> "none", due |-> Never, created |-> 0]
Open(row) == row.status \in {"pending", "in_progress"}
Idle == [at |-> "waiting", now |-> 0, found |-> << >>]

NudgeInit ==
  /\ time = 0 /\ todo = [t \in TaskIds |-> Absent] /\ nudger = Idle /\ rounds = 0
  /\ listener = TRUE
-----------------------------------------------------------------------------
List == UNCHANGED <<time, nudger, rounds, listener>>
Exists(t) == todo[t].status \notin {"none", "deleted"}

\* A task starts pending, under an id never used, with the deadline it is given or none.
AddTask(t) ==
  /\ todo[t].status = "none" /\ List
  /\ \E d \in {Never} \cup 0..MaxTime :
       todo' = [todo EXCEPT ![t] = [status |-> "pending", due |-> d, created |-> time]]
\* Anything but a completed task can be completed, a cancelled one too.
CompleteTask(t) ==
  /\ Exists(t) /\ todo[t].status # "completed" /\ List
  /\ todo' = [todo EXCEPT ![t].status = "completed"]
\* A status is set whatever it was.
SetStatus(t) ==
  /\ Exists(t) /\ List
  /\ \E s \in {"pending", "in_progress", "completed", "cancelled"} : todo' = [todo EXCEPT ![t].status = s]
DeleteTask(t) == Exists(t) /\ List /\ todo' = [todo EXCEPT ![t] = [Absent EXCEPT !.status = "deleted"]]
-----------------------------------------------------------------------------
Overdue == {t \in TaskIds : Open(todo[t]) /\ todo[t].due # Never /\ todo[t].due < time}

DueSoon ==
  {t \in TaskIds : /\ Open(todo[t]) /\ todo[t].due # Never
                   /\ todo[t].due >= time /\ todo[t].due <= time + SoonWithin}
Stalled(now) == {t \in TaskIds : todo[t].status = "in_progress" /\ now - todo[t].created > StalledFor}

\* The rows come in some order: by deadline, or the newest first.
Orders(ids) == SetToSeqs(ids)
Notes(s, why) == [i \in DOMAIN s |-> [id |-> s[i], why |-> why]]
ByDue(s) == \A i, j \in DOMAIN s : i < j => todo[s[i]].due <= todo[s[j]].due
ByAge(s) == \A i, j \in DOMAIN s : i < j => todo[s[i]].created >= todo[s[j]].created

Round == UNCHANGED <<time, todo, rounds, listener>>
Finds(s, why, next) ==
  nudger' = [nudger EXCEPT !.at = next, !.found = @ \o Notes(s, why)]

BeginRound ==
  /\ nudger.at = "waiting" /\ rounds < MaxRounds /\ rounds' = rounds + 1
  /\ nudger' = [at |-> "overdue", now |-> time, found |-> << >>]
  /\ UNCHANGED <<time, todo, listener>>
ReadOverdue ==
  /\ nudger.at = "overdue" /\ Round
  /\ \E s \in Orders(Overdue) : ByDue(s) /\ Finds(s, "overdue", "due soon")
\* A task that was overdue when the round began is left out here.
ReadDueSoon ==
  /\ nudger.at = "due soon" /\ Round
  /\ \E s \in Orders({t \in DueSoon : ~(todo[t].due < nudger.now)}) : ByDue(s) /\ Finds(s, "due soon", "stalled")
ReadStalled ==
  /\ nudger.at = "stalled" /\ Round
  /\ \E s \in Orders(Stalled(nudger.now)) : ByAge(s) /\ Finds(s, "stalled", "sending")
\* A statement that fails ends the round, and nothing that was found is sent.
ReadFails == nudger.at \in {"overdue", "due soon", "stalled"} /\ Round /\ nudger' = Idle

\* One after the other, as they were read; without a listener the loop is over.
SendNudge ==
  /\ nudger.at = "sending" /\ UNCHANGED <<time, todo, rounds, listener>>
  /\ IF nudger.found = << >> THEN nudger' = Idle
     ELSE IF ~listener THEN nudger' = [Idle EXCEPT !.at = "over"]
     ELSE nudger' = [nudger EXCEPT !.found = Tail(@)]

HangsUp ==
  /\ listener /\ listener' = FALSE /\ UNCHANGED <<time, todo, nudger, rounds>>
Tick == time < MaxTime /\ time' = time + 1 /\ UNCHANGED <<todo, nudger, rounds, listener>>

NudgeNext ==
  \/ \E t \in TaskIds : AddTask(t) \/ CompleteTask(t) \/ SetStatus(t) \/ DeleteTask(t)
  \/ BeginRound \/ ReadOverdue \/ ReadDueSoon \/ ReadStalled \/ ReadFails \/ SendNudge
  \/ HangsUp \/ Tick
NudgeSpec == NudgeInit /\ [][NudgeNext]_nudgeVars
-----------------------------------------------------------------------------
NudgeTypeOK ==
  /\ time \in 0..MaxTime /\ rounds \in 0..MaxRounds /\ listener \in BOOLEAN
  /\ \A t \in TaskIds : todo[t].due \in {Never} \cup 0..MaxTime

----------------------------------------------------------------------------
(* Watching pages *)

CONSTANTS Lines,
          Length,     \* of each line
          Alike,      \* the pairs of lines that share more than half their text
          MaxLines,   \* of a page
          Urls,
          MaxWatches, \* bound on the watches kept
          MaxChecks   \* bound on the checks made

VARIABLES watchers, \* each a page and the content last known of it
          checking, \* the check being made, and the changes it has found
          checks,
          change    \* the change reported last, with the content it was made from
watchVars == <<watchers, checking, checks, change>>

Contents == BoundedSeq(Lines, MaxLines)
NoBaseline == << "none" >>
NotChecking == [next |-> 0, found |-> 0]
NoChange == [kind |-> "none", old |-> << >>, new |-> << >>,
             diff |-> [added |-> << >>, removed |-> << >>, modified |-> << >>]]

WatchInit == watchers = << >> /\ checking = NotChecking /\ checks = 0 /\ change = NoChange
-----------------------------------------------------------------------------
\* The longest common rest of old from i and new from j.
LcsTable(old, new) ==
  LET t[p \in (1..Len(old) + 1) \X (1..Len(new) + 1)] ==
        IF p[1] > Len(old) \/ p[2] > Len(new) THEN 0
        ELSE IF old[p[1]] = new[p[2]] THEN t[<<p[1] + 1, p[2] + 1>>] + 1
        ELSE Max({t[<<p[1] + 1, p[2]>>], t[<<p[1], p[2] + 1>>]})
  IN  t

\* Slip: the rests are compared the wrong way round.
DropsOldShort(t, i, j) == t[<<i + 1, j>>] <= t[<<i, j + 1>>]

\* Where the lines differ, the old one goes if that leaves as much in common.
DropsOld(t, i, j) == t[<<i + 1, j>>] >= t[<<i, j + 1>>]

\* Along both pages: what only the old one has, and what only the new one has.
Walk(old, new) ==
  LET t == LcsTable(old, new)
      Rest(i, j) == [removed |-> SubSeq(old, i, Len(old)), added |-> SubSeq(new, j, Len(new))]
      w[p \in (1..Len(old) + 1) \X (1..Len(new) + 1)] ==
        LET i == p[1]
            j == p[2]
        IN  IF i > Len(old) \/ j > Len(new) THEN Rest(i, j)
            ELSE IF old[i] = new[j] THEN w[<<i + 1, j + 1>>]
            ELSE IF DropsOld(t, i, j)
                 THEN [w[<<i + 1, j>>] EXCEPT !.removed = <<old[i]>> \o @]
                 ELSE [w[<<i, j + 1>>] EXCEPT !.added = <<new[j]>> \o @]
  IN  w[<<1, 1>>]

\* A removed and an added line that are alike make one that was modified; of two
\* that are not, the longer one is settled first, the old one when they are equal.
Pair(walk) ==
  LET r == walk.removed
      a == walk.added
      w[p \in (1..Len(r) + 1) \X (1..Len(a) + 1)] ==
        LET i == p[1]
            j == p[2]
        IN  IF i > Len(r) \/ j > Len(a)
            THEN [removed |-> SubSeq(r, i, Len(r)), added |-> SubSeq(a, j, Len(a)), modified |-> << >>]
            ELSE IF <<r[i], a[j]>> \in Alike
            THEN [w[<<i + 1, j + 1>>] EXCEPT !.modified = <<<<r[i], a[j]>>>> \o @]
            ELSE IF Length[a[j]] > Length[r[i]]
            THEN [w[<<i, j + 1>>] EXCEPT !.added = <<a[j]>> \o @]
            ELSE [w[<<i + 1, j>>] EXCEPT !.removed = <<r[i]>> \o @]
  IN  w[<<1, 1>>]
Diff(old, new) == Pair(Walk(old, new))

\* A page whose bytes changed and whose lines did not differs in structure alone.
KindOf(d) ==
  CASE d.added = << >> /\ d.removed = << >> /\ d.modified = << >> -> "structure"
    [] d.added # << >> /\ d.removed = << >> /\ d.modified = << >> -> "added"
    [] d.added = << >> /\ d.removed # << >> /\ d.modified = << >> -> "removed"
    [] OTHER -> "modified"
-----------------------------------------------------------------------------
Free == checking = NotChecking
Watch ==
  /\ Free /\ Len(watchers) < MaxWatches
  /\ \E u \in Urls : watchers' = Append(watchers, [url |-> u, baseline |-> NoBaseline])
  /\ UNCHANGED <<checking, checks, change>>
Unwatch ==
  /\ Free /\ \E n \in DOMAIN watchers : watchers' = RemoveAt(watchers, n)
  /\ UNCHANGED <<checking, checks, change>>
\* The owner gives the content to compare with: a report holds none.
UpdateBaseline ==
  /\ Free /\ \E n \in DOMAIN watchers, c \in Contents : watchers' = [watchers EXCEPT ![n].baseline = c]
  /\ UNCHANGED <<checking, checks, change>>

CheckAll ==
  /\ Free /\ watchers # << >> /\ checks < MaxChecks /\ checks' = checks + 1
  /\ checking' = [next |-> 1, found |-> 0] /\ UNCHANGED <<watchers, change>>
\* A page that cannot be fetched ends the check, and what it found is lost.
FetchFails == ~Free /\ checking' = NotChecking /\ UNCHANGED <<watchers, checks, change>>

Reports(c) == change' = c /\ checking' = [next |-> checking.next + 1, found |-> checking.found + 1]
\* The page under the selector, whatever it is by now. Without a baseline it is
\* reported as a change of structure, and so again until its owner sets one.
CheckPage ==
  /\ ~Free /\ checking.next <= Len(watchers) /\ UNCHANGED <<watchers, checks>>
  /\ \E new \in Contents :
       LET old == watchers[checking.next].baseline
       IN  IF old = NoBaseline THEN Reports([NoChange EXCEPT !.kind = "structure"])
           ELSE \/ /\ old = new
                   /\ checking' = [checking EXCEPT !.next = @ + 1] /\ UNCHANGED change
                \/ Reports([kind |-> KindOf(Diff(old, new)), old |-> old, new |-> new, diff |-> Diff(old, new)])
CheckEnds ==
  /\ ~Free /\ checking.next > Len(watchers) /\ checking' = NotChecking
  /\ UNCHANGED <<watchers, checks, change>>

WatchNext ==
  \/ Watch \/ Unwatch \/ UpdateBaseline \/ CheckAll \/ FetchFails \/ CheckPage \/ CheckEnds
WatchSpec == WatchInit /\ [][WatchNext]_watchVars
-----------------------------------------------------------------------------
WatchTypeOK == Len(watchers) <= MaxWatches /\ checking.next \in 0..MaxWatches + 1 /\ checks \in 0..MaxChecks

CountOf(s) == [x \in ToSet(s) |-> Cardinality({i \in DOMAIN s : s[i] = x})]
Firsts(pairs) == [i \in DOMAIN pairs |-> pairs[i][1]]
Seconds(pairs) == [i \in DOMAIN pairs |-> pairs[i][2]]

\* What two pages may keep of each other: equal lines, in the order of both.
Matchings(old, new) ==
  {m \in SUBSET {p \in (DOMAIN old) \X (DOMAIN new) : old[p[1]] = new[p[2]]} :
     \A p, q \in m : p[1] < q[1] <=> p[2] < q[2]}

\* A report accounts for both pages: the old one less what it says is gone and
\* the new one less what it says is new are the same lines, and they are as
\* many as any two pages read in order have in common, so that a change is
\* never told longer than it is (watch.rs:290, "Simple LCS-based diff").
DiffIsExact ==
  LET d == change.diff
      gone == CountOf(d.removed \o Firsts(d.modified))
      come == CountOf(d.added \o Seconds(d.modified))
  IN  /\ CountOf(change.old) (-) gone = CountOf(change.new) (-) come
      /\ gone \sqsubseteq CountOf(change.old) /\ come \sqsubseteq CountOf(change.new)
      /\ Len(change.old) - Len(d.removed) - Len(d.modified)
           = Max({Cardinality(m) : m \in Matchings(change.old, change.new)})

\* What is behind it: a report is the difference of the two pages it names, of
\* which the old one was a watch's baseline when the check came to it.
WatchInv ==
  /\ watchers \in Seq([url : Urls, baseline : Contents \cup {NoBaseline}])
  /\ checking \in [next : Nat, found : Nat] /\ (Free \/ checking.next > 0)
  /\ change.old \in Seq(Lines) /\ change.new \in Seq(Lines)
  /\ change.diff = Diff(change.old, change.new)
=============================================================================
