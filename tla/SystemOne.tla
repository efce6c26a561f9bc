------------------------------- MODULE SystemOne -------------------------------
(***************************************************************************)
(* A goal carried out on the desktop by System One: the subtasks of a plan  *)
(* one after the other (run_automation_with_plan), each a loop of look,     *)
(* ask, act (automation.rs), and the client that asks (client.rs) over      *)
(* HTTP or through a local daemon (bridge.rs). Windows, answers and what    *)
(* the desktop shows are the environment's; the wording is left out.        *)
(***************************************************************************)
EXTENDS Naturals, Sequences, FiniteSets

CONSTANTS Windows,
          Controls,   \* buttons and fields that may be shown
          FieldsOf,   \* those of them that take text
          Subtasks,   \* how many the plan has
          StepLimit,  \* steps a subtask is given
          BatchSize,  \* targets put to System One at once: 5 in the code
          MaxAstray   \* bound: questions of one daemon its reader goes away from

VARIABLES provider,   \* system_one.provider
          daemon,     \* the local daemon: "none", "up", or "dead" and not noticed
          owed,       \* requests given to the daemon whose answer nobody has read
          astray,     \* those of them nobody waits for: a stray line was read, or the asker left
          asking,     \* the prediction on its way
          run,        \* where the loop is
          space,      \* the desktop as last observed
          history,    \* what this subtask did
          done,       \* subtasks completed
          halted,     \* the interrupt signal
          end         \* how the goal ended, or "running"
debts == <<owed, astray>>
client == <<provider, daemon, debts, asking>>
systemOneVars == <<client, run, space, history, done, halted, end>>

NoSpace == [windows |-> {}, active |-> "none", ui |-> {}]
Silent == [at |-> "idle", tries |-> 0]
Asking(place) == [at |-> place, tries |-> 1]

SystemOneInit ==
  /\ provider \in {"decider", "laya_direct", "typesafe", "unknown"}
  /\ daemon = "none" /\ owed = 0 /\ astray = 0 /\ asking = Silent
  /\ run = "next" /\ space = NoSpace /\ history = << >> /\ done = 0
  /\ halted = FALSE /\ end = "running"
-----------------------------------------------------------------------------
\* predict(): which way the request goes.
Predict ==
  asking' = Asking(CASE provider = "decider"     -> "health"
                     [] provider = "laya_direct" -> "daemon"
                     [] provider = "typesafe"    -> "posting_once"
                     [] OTHER                    -> "failed")

Becomes(place) == asking' = [asking EXCEPT !.at = place]
Client(place) == asking.at = place /\ UNCHANGED <<provider, run, space, history, done, halted, end>>

\* The server is looked for first, and not started.
CheckAlive ==
  /\ Client("health") /\ UNCHANGED <<daemon, debts>>
  /\ Becomes("posting") \/ Becomes("failed")
\* A request that times out or finds nobody is sent again, twice at most.
PostLost ==
  /\ Client("posting") /\ UNCHANGED <<daemon, debts>>
  /\ IF asking.tries <= 2 THEN asking' = [asking EXCEPT !.tries = @ + 1] ELSE Becomes("failed")
\* Any other error, a status that is no success, or a body that does not parse.
PostFails ==
  /\ Client(asking.at) /\ asking.at \in {"posting", "posting_once"} /\ UNCHANGED <<daemon, debts>>
  /\ Becomes("failed")
PostAnswered ==
  /\ Client(asking.at) /\ asking.at \in {"posting", "posting_once"} /\ UNCHANGED <<daemon, debts>>
  /\ Becomes("answered")

\* The daemon is started when there is none; a start that fails leaves none.
EnsureStarted ==
  /\ Client("daemon") /\ daemon = "none" /\ UNCHANGED debts
  /\ \/ daemon' = "up" /\ UNCHANGED asking
     \/ Becomes("failed") /\ UNCHANGED daemon
\* The request is written; to a daemon that died, it goes to a new one, once.
WriteRequest ==
  /\ Client("daemon") /\ daemon = "up"
  /\ owed' = owed + 1 /\ Becomes("reading") /\ UNCHANGED <<daemon, astray>>
PipeBroken ==
  /\ Client("daemon") /\ daemon = "dead"
  /\ IF asking.tries = 1
     THEN daemon' = "none" /\ asking' = [asking EXCEPT !.tries = 2]
     ELSE Becomes("failed") /\ UNCHANGED daemon
  /\ UNCHANGED debts
\* A line of the daemon's script, the oldest it owes: a result or an error.
ReadLine ==
  /\ Client("reading") /\ daemon = "up" /\ owed' = owed - 1 /\ UNCHANGED <<daemon, astray>>
  /\ Becomes("answered") \/ Becomes("failed")
\* A line a library printed: it does not parse, and the daemon is kept with its answer
\* still to come.
ReadStray ==
  /\ Client("reading") /\ daemon = "up" /\ Becomes("failed")
  /\ astray < MaxAstray /\ astray' = astray + 1 /\ UNCHANGED <<daemon, owed>>
\* Slip: the daemon that took too long is kept.
DropsSlow == UNCHANGED <<daemon, debts>>

\* The daemon that took too long is killed, one whose line cannot be read is let go;
\* its answers go with it.
Drops == daemon' = "none" /\ owed' = 0 /\ astray' = 0
ReadTimesOut == Client("reading") /\ daemon = "up" /\ Becomes("failed") /\ Drops
\* The daemon ends: its reader says so, the process stays listed.
ReadClosed ==
  /\ Client("reading") /\ Becomes("failed") /\ daemon' = "dead" /\ owed' = 0 /\ astray' = 0
DaemonDies ==
  /\ daemon = "up" /\ asking.at # "reading" /\ daemon' = "dead" /\ owed' = 0 /\ astray' = 0
  /\ UNCHANGED <<provider, asking, run, space, history, done, halted, end>>

ClientStep ==
  \/ CheckAlive \/ PostLost \/ PostFails \/ PostAnswered
  \/ EnsureStarted \/ WriteRequest \/ PipeBroken \/ ReadLine \/ ReadStray \/ ReadTimesOut \/ ReadClosed
  \/ DaemonDies
-----------------------------------------------------------------------------
Halts(how) == end' = how /\ run' = "over" /\ UNCHANGED <<space, history, done>>
Loop == UNCHANGED <<provider, daemon, debts, halted>>
Ready(place) == run = place /\ asking.at = "idle"
Got == asking.at = "answered" /\ asking' = Silent
Lost == asking.at = "failed" /\ asking' = Silent

\* The next subtask, unless the interrupt is set; it is not looked at inside one.
NextSubtask ==
  /\ Ready("next") /\ Loop /\ UNCHANGED asking
  /\ IF done = Subtasks THEN Halts("completed")
     ELSE IF halted THEN Halts("cancelled")
     ELSE run' = "observing" /\ history' = << >> /\ UNCHANGED <<space, done, end>>

\* The desktop and the controls of its active window; controls that cannot be read are none.
ObserveDesktop ==
  /\ Ready("observing") /\ Loop
  /\ \E w \in SUBSET Windows : \E a \in w \cup {"none"} : \E u \in SUBSET Controls :
       /\ a = "none" => u = {}
       /\ space' = [windows |-> w, active |-> a, ui |-> u]
  /\ IF history # << >> THEN run' = "satisfied?" ELSE run' = "operation"
  /\ Predict /\ UNCHANGED <<history, done, end>>
ObserveDesktopFails == Ready("observing") /\ Loop /\ UNCHANGED asking /\ Halts("failed")

Succeeds ==
  /\ done' = done + 1 /\ run' = "next" /\ history' = << >> /\ space' = NoSpace /\ UNCHANGED end

\* System One finds the goal reached, and is sure enough.
Satisfied == run = "satisfied?" /\ Got /\ Loop /\ Succeeds
\* It does not, or could not be asked: the step goes on.
NotSatisfied ==
  /\ run = "satisfied?" /\ asking.at \in {"answered", "failed"} /\ Loop
  /\ run' = "operation" /\ Predict /\ UNCHANGED <<space, history, done, end>>
\* Without an operation the step fails.
NoOperation == run = "operation" /\ asking.at \in {"answered", "failed"} /\ asking' = Silent /\ Loop /\ Halts("failed")

\* A third action in a row worded like the two before it ends the subtask, as a success.
Repeats(d) == Len(history) >= 2 /\ history[Len(history)] = d /\ history[Len(history) - 1] = d
GoesOn(d) ==
  IF Len(history) + 1 = StepLimit THEN Halts("step limit")
  ELSE run' = "observing" /\ history' = Append(history, d) /\ UNCHANGED <<space, done, end>>
Continued(d) == IF Repeats(d) THEN Succeeds ELSE GoesOn(d)
\* The wording holds a confidence, or a text: twice the same may read differently.
ContinuedAt(kind, target) == Continued(<<kind, target>>) \/ GoesOn(<<kind, target>>)

Operation == run = "operation" /\ Got /\ Loop
Targets == space.ui \cup space.windows

OpDone == Operation /\ Succeeds
OpBlocked == Operation /\ Halts("blocked")
\* Waiting, scrolling, launching, and an operation it does not know.
OpPlain == Operation /\ \E op \in {"wait", "scroll", "launch", "unknown"} : Continued(<<op, "none">>)
OpSwitch == Operation /\ \E w \in (space.windows \ {space.active}) \cup {"none"} : Continued(<<"switch", w>>)
OpClick == Operation /\ \E t \in Targets : ContinuedAt("click", t)
\* The field is clicked and the main model asked for the text; without it the step is blocked.
Types(t) == ContinuedAt("type", t) \/ Halts("blocked")
OpType == Operation /\ \E t \in space.ui \cap FieldsOf : Types(t)

\* A click or a text for no target in particular: a target that is alone is it; else
\* they are put to System One, in batches, and the batches' winners once more.
OpUnaimedAlone ==
  /\ Operation
  /\ \/ \E t \in Targets : Targets = {t} /\ Continued(<<"click", t>>)
     \/ \E t \in space.ui : space.ui \cap FieldsOf = {t} /\ Types(t)
OpUnaimed ==
  /\ run = "operation" /\ asking.at = "answered" /\ Loop /\ Predict
  /\ UNCHANGED <<space, history, done, end>>
  /\ \/ Cardinality(Targets) > 1 /\ run' = "click"
     \/ Cardinality(space.ui \cap FieldsOf) > 1 /\ run' = "type"
Aimed == IF run = "click" THEN Targets ELSE space.ui \cap FieldsOf
NextBatch ==
  /\ run \in {"click", "type"} /\ asking.at \in {"answered", "failed"} /\ Loop /\ Predict
  /\ Cardinality(Aimed) > BatchSize /\ UNCHANGED <<run, space, history, done, end>>
\* The best of them; nothing at all when that could not be told.
Aims ==
  /\ run \in {"click", "type"} /\ asking.at \in {"answered", "failed"} /\ asking' = Silent /\ Loop
  /\ \E t \in IF asking.at = "failed" THEN {"none"} ELSE Aimed :
       IF run = "click" THEN ContinuedAt("click", t) ELSE Types(t)

\* Whoever runs the goal lets go of it while a line is awaited: the question is out.
Deserted ==
  /\ asking.at = "reading" /\ asking' = Silent
  /\ astray < MaxAstray /\ astray' = astray + 1 /\ UNCHANGED <<provider, daemon, owed, halted>>
  /\ Halts("deserted")
\* The client, and its daemon, outlive the goal.
NextGoal ==
  /\ Ready("over") /\ Loop /\ UNCHANGED asking
  /\ run' = "next" /\ space' = NoSpace /\ history' = << >> /\ done' = 0 /\ end' = "running"

Interrupts ==
  /\ ~halted /\ halted' = TRUE
  /\ UNCHANGED <<client, run, space, history, done, end>>

SystemOneNext ==
  \/ ClientStep \/ Interrupts \/ Deserted \/ NextGoal
  \/ NextSubtask \/ ObserveDesktop \/ ObserveDesktopFails \/ Satisfied \/ NotSatisfied \/ NoOperation
  \/ OpDone \/ OpBlocked \/ OpPlain \/ OpSwitch \/ OpClick \/ OpType
  \/ OpUnaimedAlone \/ OpUnaimed \/ NextBatch \/ Aims
SystemOneSpec == SystemOneInit /\ [][SystemOneNext]_systemOneVars
-----------------------------------------------------------------------------
SystemOneTypeOK ==
  /\ daemon \in {"none", "up", "dead"} /\ owed \in 0..(MaxAstray + 1) /\ astray \in 0..MaxAstray /\ asking.tries \in 1..3 \cup {0}
  /\ space.windows \subseteq Windows /\ space.ui \subseteq Controls
  /\ done \in 0..Subtasks /\ Len(history) < StepLimit

\* The daemon numbers nothing: whoever reads a line takes it for the answer to
\* what was asked last. So a daemon that is asked owes nothing but the answers a stray
\* line or an asker that left made it owe since it was started: none that a timeout,
\* an error, a broken pipe or a daemon before it left behind.
NoAnswerOwed == asking.at # "reading" => owed = astray

\* What is behind it: one answer more is owed exactly while the client reads, by the
\* daemon it reads from; one that is not up owes none.
OwedInv ==
  /\ asking \in [at : {"idle", "health", "posting", "posting_once", "daemon", "reading",
                      "answered", "failed"},
                tries : 0..3]
  /\ astray \in Nat /\ owed = IF asking.at = "reading" THEN astray + 1 ELSE astray
  /\ asking.at = "reading" => daemon = "up"
  /\ daemon # "up" => astray = 0
=============================================================================
