------------------------------ MODULE Terminal ------------------------------
(***************************************************************************)
(* The chat screen (crates/lucy-tui: lib.rs run_voice, commands.rs,         *)
(* model.rs).  One loop draws, takes the events that turns have queued and  *)
(* handles one key; every turn is a task of its own that speaks to the      *)
(* screen through the queue only.  What is written on the screen is left    *)
(* out; what decides who gets the next key, and when a turn may start, is   *)
(* kept.                                                                    *)
(***************************************************************************)
EXTENDS Integers, FiniteSets, Sequences

CONSTANTS Turns,      \* the turns that may be asked for
          MaxCards,   \* bound on the prompts raised
          MaxSpoken   \* bound on the recordings made

ASSUME TerminalAssumption == MaxCards \in Nat /\ MaxSpoken \in Nat

VARIABLES busy,       \* work is shown, and Enter refuses another prompt
          screens,    \* the overlays that are open
          card,       \* the prompt on the screen, or NoCard
          queue,      \* task events the loop has not taken yet
          stage,      \* of every turn, how far it is
          prompts,    \* of every turn, the prompt it waits for, or NoCard
          raised,     \* prompts raised so far
          recording, recordings, transcripts,
          spoken,     \* turns that came from a recording
          ownKey,     \* push-to-talk is on a key other than F2
          quit
terminalVars == <<busy, screens, card, queue, stage, prompts, raised, recording,
                  recordings, transcripts, spoken, ownKey, quit>>
screenVars == <<screens, card>>
voiceVars == <<recording, recordings, transcripts, ownKey>>
turnVars == <<stage, prompts, raised>>

NoCard == 0
Overlays == {"help", "sessions", "settings"}
Working == {"saving", "routing", "answering", "acting"}
Running == {t \in Turns : stage[t] \in Working}

TerminalTypeOK ==
  /\ busy \in BOOLEAN /\ screens \subseteq Overlays /\ card \in 0..MaxCards
  /\ queue \in Seq([kind : {"phase", "card", "finished"}, id : 0..MaxCards])
  /\ stage \in [Turns -> Working \cup {"none", "closing", "over"}]
  /\ prompts \in [Turns -> 0..MaxCards] /\ raised \in 0..MaxCards
  /\ recording \in BOOLEAN /\ recordings \in 0..MaxSpoken /\ transcripts \in 0..MaxSpoken
  /\ spoken \subseteq Turns /\ ownKey \in BOOLEAN /\ quit \in BOOLEAN

TerminalInit ==
  /\ busy = FALSE /\ screens = {} /\ card = NoCard /\ queue = << >>
  /\ stage = [t \in Turns |-> "none"] /\ prompts = [t \in Turns |-> NoCard] /\ raised = 0
  /\ recording = FALSE /\ recordings = 0 /\ transcripts = 0
  /\ spoken = {} /\ ownKey \in BOOLEAN /\ quit = FALSE

----------------------------------------------------------------------------
\* What the loop does with a queued event.
Phase == [kind |-> "phase", id |-> NoCard]
Card(p) == [kind |-> "card", id |-> p]
Finished == [kind |-> "finished", id |-> NoCard]

\* A card that comes takes the place of the one shown.
Shows(event) == IF event.kind = "card" THEN event.id ELSE card
TakeEvent ==
  /\ ~quit /\ queue # << >>
  /\ queue' = Tail(queue)
  /\ busy' = (Head(queue).kind # "finished")
  /\ card' = Shows(Head(queue))
  /\ UNCHANGED <<screens, turnVars, voiceVars, spoken, quit>>

\* submit_prompt(): the screen is busy before the task has taken a step.
Submits(t) ==
  /\ stage[t] = "none"
  /\ stage' = [stage EXCEPT ![t] = "saving"] /\ busy' = TRUE
  /\ UNCHANGED <<prompts, raised>>

\* The kill switch: the card goes, every open prompt is denied, and the screen
\* says so by way of a phase.
StopRun ==
  /\ card' = NoCard /\ prompts' = [t \in Turns |-> NoCard] /\ busy' = TRUE
  /\ UNCHANGED <<stage, raised>>

----------------------------------------------------------------------------
\* Keys.  Ctrl+C comes first, then the card, the help, the sessions, the
\* settings, and the chat line last.
CtrlC == ~quit /\ StopRun /\ UNCHANGED <<screens, queue, voiceVars, spoken, quit>>

AnswerCard ==
  /\ ~quit /\ card # NoCard
  /\ prompts' = [t \in Turns |-> IF prompts[t] = card THEN NoCard ELSE prompts[t]]
  /\ card' = NoCard
  /\ UNCHANGED <<busy, screens, queue, stage, raised, voiceVars, spoken, quit>>

ChatLine == ~quit /\ card = NoCard /\ screens = {}

\* A key that an overlay takes: any key closes the help; Esc, Enter and n close
\* the sessions; Esc closes the settings, whose other keys Settings.tla models.
\* Switching to a session or starting one reloads the chat, which ends the busy
\* state.
OverlayKey ==
  /\ ~quit /\ card = NoCard /\ screens # {}
  /\ \/ "help" \in screens /\ screens' = screens \ {"help"} /\ UNCHANGED busy
     \/ /\ "help" \notin screens /\ "sessions" \in screens
        /\ screens' = screens \ {"sessions"} /\ busy' \in {busy, FALSE}
     \/ /\ "help" \notin screens /\ "sessions" \notin screens
        /\ screens' = screens \ {"settings"} /\ UNCHANGED busy
  /\ UNCHANGED <<card, queue, turnVars, voiceVars, spoken, quit>>

\* Ctrl+, F2, Ctrl+O.
OpenOverlay ==
  /\ ChatLine
  /\ \/ screens' \in {{"help"}, {"settings"}}
     \/ ~busy /\ screens' = {"sessions"}
  /\ UNCHANGED <<busy, card, queue, turnVars, voiceVars, spoken, quit>>

\* Slip: Enter does not look whether something runs.
AcceptsAlways == TRUE

\* Enter with a line of text.
Accepts == ~busy
EnterText(t) ==
  /\ ChatLine /\ Accepts
  /\ Submits(t)
  /\ UNCHANGED <<screenVars, queue, voiceVars, spoken, quit>>
\* Enter with a command, /agent apart, which is a turn as any other.  Those that
\* reload the chat, /clear, /new, /switch, /delete, /fork and /compact, end a
\* busy state that is not there.
OpensScreen == screens' \in {{"sessions"}, {"settings"}} /\ UNCHANGED <<busy, card, turnVars, quit>>
StopCommand == StopRun /\ UNCHANGED <<screens, quit>>
Quits == quit' = TRUE /\ UNCHANGED <<busy, screenVars, turnVars>>
EnterCommand ==
  /\ ChatLine /\ Accepts
  /\ OpensScreen \/ StopCommand \/ Quits
  /\ UNCHANGED <<queue, voiceVars, spoken>>

\* Esc: a recording is dropped, else a run is stopped, else the program ends.
Escape ==
  /\ ChatLine
  /\ \/ recording /\ recording' = FALSE /\ UNCHANGED <<busy, card, turnVars, quit>>
     \/ ~recording /\ busy /\ StopRun /\ UNCHANGED <<recording, quit>>
     \/ ~recording /\ ~busy /\ quit' = TRUE /\ UNCHANGED <<recording, busy, card, turnVars>>
  /\ UNCHANGED <<screens, queue, recordings, transcripts, ownKey, spoken>>

----------------------------------------------------------------------------
\* Voice: one key starts and stops a recording, and a minute stops it too.  F2
\* is the help before it is the voice key.
VoiceKey ==
  /\ ChatLine /\ ownKey
  /\ \/ /\ ~recording /\ recordings < MaxSpoken
        /\ recording' = TRUE /\ recordings' = recordings + 1 /\ UNCHANGED transcripts
     \/ /\ recording /\ recording' = FALSE /\ transcripts' = transcripts + 1
        /\ UNCHANGED recordings
  /\ UNCHANGED <<busy, screenVars, queue, turnVars, spoken, ownKey, quit>>
RecordingRunsOut ==
  /\ ~quit /\ recording /\ recording' = FALSE /\ transcripts' = transcripts + 1
  /\ UNCHANGED <<busy, screenVars, queue, turnVars, recordings, spoken, ownKey, quit>>

\* A transcript is submitted whatever the screen is doing; an empty or failed
\* one is reported.
Transcribed(t) ==
  /\ ~quit /\ transcripts > 0 /\ transcripts' = transcripts - 1
  /\ \/ Submits(t) /\ spoken' = spoken \cup {t}
     \/ UNCHANGED <<busy, turnVars, spoken>>
  /\ UNCHANGED <<screenVars, queue, recording, recordings, ownKey, quit>>

----------------------------------------------------------------------------
\* A turn, on its own task.
Sends(t, to, events) ==
  /\ ~quit /\ stage' = [stage EXCEPT ![t] = to] /\ queue' = queue \o events
  /\ UNCHANGED <<busy, screenVars, raised, voiceVars, spoken, quit>>

\* save_user_message() fails, or the turn goes on to be classified.
Saved(t) ==
  /\ stage[t] = "saving" /\ UNCHANGED prompts
  /\ Sends(t, "routing", <<Phase>>) \/ Sends(t, "over", <<Finished>>)
\* No verdict ends the turn; text is answered, anything else is acted on.
Routed(t) ==
  /\ stage[t] = "routing" /\ UNCHANGED prompts
  /\ \/ Sends(t, "over", <<Finished>>)
     \/ Sends(t, "answering", <<Phase>>) \/ Sends(t, "acting", <<Phase>>)
\* A reply and a failure are told alike.
Replied(t) ==
  /\ stage[t] = "answering" /\ UNCHANGED prompts /\ Sends(t, "over", <<Finished>>)

\* run_goal(): prompts and progress as they come, then the outcome.
AskCard(t) ==
  /\ ~quit /\ stage[t] = "acting" /\ prompts[t] = NoCard /\ raised < MaxCards
  /\ raised' = raised + 1 /\ prompts' = [prompts EXCEPT ![t] = raised + 1]
  /\ queue' = Append(queue, Card(raised + 1))
  /\ UNCHANGED <<busy, screenVars, stage, voiceVars, spoken, quit>>
\* Nobody answers in time: the run goes on, the card stays.
TimesOut(t) ==
  /\ ~quit /\ prompts[t] # NoCard /\ prompts' = [prompts EXCEPT ![t] = NoCard]
  /\ UNCHANGED <<busy, screenVars, queue, stage, raised, voiceVars, spoken, quit>>
Progresses(t) ==
  /\ stage[t] = "acting" /\ prompts[t] = NoCard /\ UNCHANGED prompts
  /\ Phase \notin {queue[i] : i \in 1..Len(queue)}   \* one in the queue is enough
  /\ Sends(t, "acting", <<Phase>>)
Acted(t) ==
  /\ stage[t] = "acting" /\ prompts[t] = NoCard /\ UNCHANGED prompts
  /\ Sends(t, "closing", <<Finished>>)
\* auto_compact_if_needed(), behind the turn's back.
Compacted(t) ==
  /\ stage[t] = "closing" /\ UNCHANGED prompts /\ Sends(t, "over", << >>)

TerminalNext ==
  \/ TakeEvent \/ CtrlC \/ AnswerCard \/ OverlayKey \/ OpenOverlay \/ EnterCommand
  \/ Escape \/ VoiceKey \/ RecordingRunsOut
  \/ \E t \in Turns : \/ EnterText(t) \/ Transcribed(t) \/ Saved(t) \/ Routed(t)
                      \/ Replied(t) \/ AskCard(t) \/ TimesOut(t) \/ Progresses(t)
                      \/ Acted(t) \/ Compacted(t)

TerminalSpec == TerminalInit /\ [][TerminalNext]_terminalVars

----------------------------------------------------------------------------
\* Whoever only types has one turn running at a time, whatever is stopped,
\* closed, switched or answered in between and in whatever order the events of
\* a turn are taken; so the prompt it waits for is on the screen or on its way
\* there, and an old card never hides it.
TypedTurnsAlone ==
  spoken = {} =>
    /\ Cardinality(Running) <= 1
    /\ \A t \in Turns : prompts[t] # NoCard =>
         card = prompts[t] \/ \E i \in 1..Len(queue) : queue[i] = Card(prompts[t])

\* What is behind it: the events of a turn are taken before the screen is free
\* again, its Finished last of all, and the sessions are only open where no turn
\* is; a turn that waits waits for the newest card, behind which no other comes.
Event == [kind : {"phase", "card", "finished"}, id : 0..MaxCards]
Slots == 1..Len(queue)
AwaitsCard(t) ==
  /\ stage[t] = "acting" /\ prompts[t] = raised
  /\ \/ card = raised /\ \A i \in Slots : queue[i].kind # "card"
     \/ \E i \in Slots : /\ queue[i] = Card(raised)
                          /\ \A j \in Slots : j > i => queue[j].kind # "card"
OneTurn ==
  /\ \A s, t \in Running : s = t
  /\ Running # {} => busy /\ \A i \in Slots : queue[i].kind # "finished"
  /\ ~busy \/ "sessions" \in screens => Running = {} /\ queue = << >>
  /\ \A i \in Slots : queue[i].kind = "finished" => i = Len(queue)
  /\ \A t \in Turns : prompts[t] # NoCard => AwaitsCard(t)
TurnInv ==
  /\ busy \in BOOLEAN /\ queue \in Seq(Event)
  /\ stage \in [Turns -> Working \cup {"none", "closing", "over"}]
  /\ prompts \in [Turns -> 0..MaxCards] /\ raised \in 0..MaxCards
  /\ spoken = {} => OneTurn

\* A screen that says it is busy is busy with something: some turn works, or
\* its events are yet to be taken.  Refuted: a stop with nothing to stop sets the
\* busy state, and no turn is there to end it.
BusyMeansWork == busy => Running # {} \/ queue # << >>
=============================================================================
