------------------------------- MODULE Decider -------------------------------
(***************************************************************************)
(* The client of the classification server (lucy-systemone, decider.rs):    *)
(* the search for the path a build of the server answers at, shared by all  *)
(* clones of the client, and what is read out of an answer. A server may    *)
(* be replaced by another build at any time; each path of it answers, is    *)
(* missing (404), is broken (any other failure) or is silent.               *)
(***************************************************************************)
EXTENDS Naturals, Sequences, FiniteSets

CONSTANTS Askers,      \* callers holding a clone of the client
          Paths,       \* how many paths there are
          Builds,      \* servers: what each path does, by its place from 0 on, and what its health says
          Intents, Levels, Picks, \* what the heads of an answer may say
          SlugFor,       \* topics there are, by the option the server may pick
          MaxQueries,     \* bound on the calls
          MaxBuilds    \* bound on the replacements of the server

ASSUME DeciderAssumption == Paths \in Nat \ {0}

VARIABLES server,   \* the build that is up
          builds,
          pinned,   \* the place of the path that answered last
          sweep,    \* what each caller is at
          verdict,  \* what it was told last
          queries
deciderVars == <<server, builds, pinned, sweep, verdict, queries>>

NoSweep == [at |-> "none", from |-> 0, step |-> 0, topics |-> FALSE, same |-> TRUE]
NoVerdict == [is |-> "none"]
Failed(why) == [is |-> why]

DeciderInit ==
  /\ server \in Builds /\ builds = 0 /\ pinned = 0 /\ queries = 0
  /\ sweep = [a \in Askers |-> NoSweep] /\ verdict = [a \in Askers |-> NoVerdict]
-----------------------------------------------------------------------------
\* What an answer says under each of its heads; a head may be missing.
Silence == ""
Answers == [intent : Intents \cup {Silence}, level : Levels \cup {Silence}, pick : Picks \cup {Silence}]
Acts == {"act", "no", "false", "0", "action", "actions"}

\* Whatever does not ask for actions is answered in text; a level that is
\* not one is the second.
BranchOf(head) == IF head \in Acts THEN "act" ELSE "chat"
LevelOf(head) == IF head \in {"1", "2", "3"} THEN head ELSE "2"
\* The pick is made a topic whether or not it was one of those offered.
TopicOf(head) == IF head \in {Silence, "none"} THEN "" ELSE SlugFor[head]
VerdictOf(answer) ==
  [is |-> "verdict", branch |-> BranchOf(answer.intent), level |-> LevelOf(answer.level), topic |-> TopicOf(answer.pick)]
-----------------------------------------------------------------------------
Free(a) == sweep[a].at = "none" /\ queries < MaxQueries /\ queries' = queries + 1
Sweeps(topics) == [NoSweep EXCEPT !.at = "sweep", !.from = pinned, !.topics = topics]
Ends(a, v) == sweep' = [sweep EXCEPT ![a] = NoSweep] /\ verdict' = [verdict EXCEPT ![a] = v]
ServerRests == UNCHANGED <<server, builds>>

\* One request asks for the intent, the level and, when there are topics,
\* which of them is meant.
ClassifyTurn(a) ==
  /\ Free(a) /\ \E topics \in BOOLEAN : sweep' = [sweep EXCEPT ![a] = Sweeps(topics)]
  /\ ServerRests /\ UNCHANGED <<pinned, verdict>>
\* The settings' test asks for the health first, then a single question.
Probe(a) ==
  /\ Free(a)
  /\ IF server.health \in {"silent", "broken", "garbled"}
     THEN Ends(a, Failed("unhealthy"))
     ELSE sweep' = [sweep EXCEPT ![a] = Sweeps(FALSE)] /\ verdict' = verdict
  /\ ServerRests /\ UNCHANGED pinned

Place(s) == (s.from + s.step) % Paths
LastStep(s) == s.step + 1 = Paths
Onward(a) == sweep' = [sweep EXCEPT ![a].step = @ + 1] /\ verdict' = verdict

\* The path that answered is tried first from then on, even when nothing
\* can be made of what it said.
GetsAnswer(a) ==
  /\ sweep[a].at = "sweep" /\ server.does[Place(sweep[a])] = "answers" /\ pinned' = Place(sweep[a])
  /\ \/ Ends(a, Failed("unreadable"))
     \/ \E answer \in Answers :
          /\ sweep[a].topics \/ answer.pick = Silence
          /\ Ends(a, VerdictOf(answer))
  /\ ServerRests /\ UNCHANGED queries
\* The answer breaks off while it is read.
BreaksOff(a) ==
  /\ sweep[a].at = "sweep" /\ server.does[Place(sweep[a])] # "silent"
  /\ ~(server.does[Place(sweep[a])] = "missing" /\ ~LastStep(sweep[a]))
  /\ Ends(a, Failed("cut_off")) /\ ServerRests /\ UNCHANGED <<pinned, queries>>
\* Slip: each step starts from wherever the pin is by now.
FollowsPin(a) ==
  /\ sweep[a].at = "sweep" /\ server.does[Place(sweep[a])] = "missing"
  /\ IF LastStep(sweep[a]) THEN Ends(a, Failed("missing"))
     ELSE sweep' = [sweep EXCEPT ![a].step = @ + 1, ![a].from = pinned] /\ verdict' = verdict
  /\ ServerRests /\ UNCHANGED <<pinned, queries>>

Missing(a) ==
  /\ sweep[a].at = "sweep" /\ server.does[Place(sweep[a])] = "missing"
  /\ IF LastStep(sweep[a]) THEN Ends(a, Failed("missing")) ELSE Onward(a)
  /\ ServerRests /\ UNCHANGED <<pinned, queries>>
Silent(a) ==
  /\ sweep[a].at = "sweep" /\ server.does[Place(sweep[a])] = "silent"
  /\ IF LastStep(sweep[a]) THEN Ends(a, Failed("silent")) ELSE Onward(a)
  /\ ServerRests /\ UNCHANGED <<pinned, queries>>
\* Any other failure ends the search.
Broken(a) ==
  /\ sweep[a].at = "sweep" /\ server.does[Place(sweep[a])] = "broken"
  /\ Ends(a, Failed("broken")) /\ ServerRests /\ UNCHANGED <<pinned, queries>>

Replaced ==
  /\ builds < MaxBuilds /\ builds' = builds + 1
  /\ \E b \in Builds \ {server} : server' = b
  /\ sweep' = [a \in Askers |-> [sweep[a] EXCEPT !.same = sweep[a].at = "none"]]
  /\ UNCHANGED <<pinned, verdict, queries>>

DeciderNext ==
  \/ \E a \in Askers : \/ ClassifyTurn(a) \/ Probe(a) \/ GetsAnswer(a) \/ BreaksOff(a)
                       \/ Missing(a) \/ Silent(a) \/ Broken(a)
  \/ Replaced

DeciderSpec == DeciderInit /\ [][DeciderNext]_deciderVars

DeciderTypeOK ==
  /\ pinned \in 0..Paths - 1 /\ builds \in 0..MaxBuilds /\ queries \in 0..MaxQueries
  /\ \A a \in Askers : sweep[a].from \in 0..Paths - 1 /\ sweep[a].step \in 0..Paths - 1

\* A call is told that nothing is there only by a server at which no path
\* answers, unless the server was replaced during the call: whatever the
\* pin was left at, by this caller or by others meanwhile, all paths are
\* tried (decider.rs: predict_inner).
PathIsFound ==
  [][\A a \in Askers :
       /\ sweep[a].at = "sweep" /\ sweep'[a] = NoSweep /\ verdict'[a].is \in {"missing", "silent"} /\ sweep[a].same
       => \A i \in 0..Paths - 1 : server.does[i] \in {"missing", "silent"}]_deciderVars

\* What is behind it: a call that saw one server only has found nothing at every
\* path it has passed.
Nothing == {"missing", "silent"}
PassedIn(s) == \A k \in 0..s.step - 1 : server.does[(s.from + k) % Paths] \in Nothing
SweepType == [at : {"none", "sweep"}, from : 0..Paths - 1, step : 0..Paths - 1, topics : BOOLEAN, same : BOOLEAN]
SweepInv ==
  /\ pinned \in 0..Paths - 1
  /\ sweep \in [Askers -> SweepType] /\ verdict = [a \in Askers |-> verdict[a]]
  /\ \A a \in Askers : sweep[a].at = "sweep" /\ sweep[a].same => PassedIn(sweep[a])
=============================================================================
