--------------------------- MODULE ServicesProofs ---------------------------
(***************************************************************************)
(* The services a turn reaches: providers, the MCP client, the terminal,   *)
(* the settings, the browser loop, System One and the tool catalog, each   *)
(* for any values of its constants.                                        *)
(***************************************************************************)
EXTENDS Provider, McpClient, Terminal, Settings, BrowserLoop, SystemOne, ToolCatalog, FiniteSetTheorems, TLAPS

-----------------------------------------------------------------------------
\* Providers: every call leaves one record.

\* A way out writes its record and returns its result in one: both sequences
\* grow by one, and what was so of the earlier calls is so still.
LEMMA EndsAddUp ==
  ASSUME CallsInv, NEW record \in {"ok", "failed"}, NEW result \in {"ok", "failed", "cancelled"},
         result = "ok" => record = "ok", result = "cancelled" => record = "failed",
         Ends(record, result)
  PROVE  /\ log' \in Seq({"ok", "failed"}) /\ results' \in Seq({"ok", "failed", "cancelled"})
         /\ Len(log') = Len(results')
         /\ \A i \in 1..Len(log') : results'[i] = "ok" => log'[i] = "ok"
         /\ \A i \in 1..Len(log') : results'[i] = "cancelled" => log'[i] = "failed"
  BY DEF CallsInv, CallsAddUp, Ends

\* Every step keeps CallsInv.
LEMMA CallsInvStep == CallsInv /\ [ProviderNext]_providerVars => CallsInv'
<1> SUFFICES ASSUME CallsInv, [ProviderNext]_providerVars PROVE CallsInv'
  OBVIOUS
<1>1. ASSUME NEW record \in {"ok", "failed"}, NEW result \in {"ok", "failed", "cancelled"},
             result = "ok" => record = "ok", result = "cancelled" => record = "failed",
             Ends(record, result), op' \in Operations,
             UNCHANGED <<attempt, sends>>, spent' \in Nat, usage' = spent'
      PROVE  CallsInv'
  <2>1. /\ log' \in Seq({"ok", "failed"}) /\ results' \in Seq({"ok", "failed", "cancelled"})
        /\ Len(log') = Len(results')
        /\ \A i \in 1..Len(log') : results'[i] = "ok" => log'[i] = "ok"
        /\ \A i \in 1..Len(log') : results'[i] = "cancelled" => log'[i] = "failed"
    BY <1>1, EndsAddUp
  <2> QED BY <1>1, <2>1 DEF CallsInv, CallsAddUp, Ends, Attempts
<1>2. ASSUME NEW o \in Operations, NEW named \in BOOLEAN, CallsModel(o, named)
      PROVE  CallsInv'
  <2>1. CASE EndsCancelled /\ UNCHANGED <<attempt, sends>>
    BY <1>1, <1>2, <2>1 DEF CallsModel, EndsCancelled, CallsInv, CallsAddUp
  <2>2. CASE Ends("failed", "failed") /\ UNCHANGED <<attempt, sends>>
    BY <1>1, <1>2, <2>2 DEF CallsModel, CallsInv, CallsAddUp
  <2>3. CASE phase' = "sending" /\ attempt' = 1 /\ sends' = 1 /\ UNCHANGED <<log, results>>
    BY <1>2, <2>3 DEF CallsModel, CallsInv, CallsAddUp, Attempts
  <2> QED BY <1>2, <2>1, <2>2, <2>3 DEF CallsModel
<1>3. CASE Notified
  BY <1>1, <1>3 DEF Notified, EndsCancelled, CallsInv, CallsAddUp
<1>4. ASSUME NEW outcome \in {"success", "refused", "busy"}, SendReturns(outcome)
      PROVE  CallsInv'
  <2>1. CASE Ends("failed", "failed")
    BY <1>1, <1>4, <2>1 DEF SendReturns, CallsInv, CallsAddUp
  <2>2. CASE EndsCancelled
    BY <1>1, <1>4, <2>2 DEF SendReturns, EndsCancelled, CallsInv, CallsAddUp
  <2>3. CASE phase' \in {"body", "backoff"} /\ UNCHANGED <<log, results>>
             /\ (phase' = "backoff" => attempt < Attempts)
    BY <1>4, <2>3 DEF SendReturns, CallsInv, CallsAddUp
  <2> QED BY <1>4, <2>1, <2>2, <2>3 DEF SendReturns
<1>5. CASE Slept
  <2>1. CASE EndsCancelled /\ UNCHANGED <<attempt, sends>>
    BY <1>1, <1>5, <2>1 DEF Slept, EndsCancelled, CallsInv, CallsAddUp
  <2>2. CASE phase' = "sending" /\ attempt' = attempt + 1 /\ sends' = sends + 1
             /\ UNCHANGED <<log, results>>
    BY <1>5, <2>2 DEF Slept, CallsInv, CallsAddUp, Attempts
  <2> QED BY <1>5, <2>1, <2>2 DEF Slept
<1>6. ASSUME NEW content \in Contents, BodyRead(content)
      PROVE  CallsInv'
  <2> DEFINE result == IF Usable(op, content) THEN "ok" ELSE "failed"
  <2>1. /\ Record(op, content) \in {"ok", "failed"} /\ result \in {"ok", "failed", "cancelled"}
        /\ result = "ok" => Record(op, content) = "ok"
        /\ result # "cancelled"
    BY DEF Record
  <2>2. spent' \in Nat /\ usage' = spent'
    BY <1>6 DEF BodyRead, Counts, CallsInv, CallsAddUp
  <2>3. Ends(Record(op, content), result) /\ op' \in Operations /\ UNCHANGED <<attempt, sends>>
    BY <1>6 DEF BodyRead, CallsInv
  <2> HIDE DEF result
  <2> QED BY <1>1, <2>1, <2>2, <2>3
<1>7. CASE BodyFails
  BY <1>1, <1>7 DEF BodyFails, CallsInv, CallsAddUp
<1>8. CASE Stops \/ Resets
  BY <1>8 DEF Stops, Resets, CallsInv, CallsAddUp
<1>9. CASE UNCHANGED providerVars
  BY <1>9 DEF providerVars, CallsInv, CallsAddUp
<1> QED BY <1>2, <1>3, <1>4, <1>5, <1>6, <1>7, <1>8, <1>9 DEF ProviderNext

\* However a call to the provider ends (complete_text_on, complete_json_on,
\* complete_with_tools_on over post_json), it has left one record, it sent three
\* requests at most, and the tokens of every reply that came are counted.
THEOREM CallsAddUpHolds == ProviderSpec => []CallsAddUp
<1>1. ProviderInit => CallsInv
  BY DEF ProviderInit, CallsInv, CallsAddUp, Operations, Attempts
<1>2. CallsInv => CallsAddUp
  BY DEF CallsInv
<1> QED BY <1>1, <1>2, CallsInvStep, PTL DEF ProviderSpec
-----------------------------------------------------------------------------
\* The MCP client: a reply is the caller's own.

\* Nobody calls yet.
LEMMA McpInitially == McpInit => McpInv
<1> SUFFICES ASSUME McpInit PROVE McpInv
  OBVIOUS
<1>1. Idle \in CallState /\ Idle.at = "idle"
  BY DEF Idle, CallState, CallPlaces, NoServer
<1>2. started \in Nat /\ session \in Nat /\ nextId \in Nat
  BY DEF McpInit, NoServer
<1>3. call \in [Callers -> CallState] /\ \A c \in Callers : ~Reads(c)
  BY <1>1 DEF McpInit, Reads
<1>4. got = {}
  BY DEF McpInit
<1> QED BY <1>2, <1>3, <1>4 DEF McpInv, ReplyIsOwn

\* A step in which nobody begins to read and no answer is taken.
LEMMA McpQuiet ==
  ASSUME McpInv, got' = got, nextId' \in Nat, nextId <= nextId',
         started' \in Nat, session' \in Nat,
         call' \in [Callers -> CallState],
         \A c \in Callers : Reads(c)' => Reads(c) /\ call'[c].id = call[c].id /\ holder' = holder
  PROVE  McpInv'
<1>1. \A c \in Callers : Reads(c)' => holder' = c /\ call'[c].id < nextId'
  <2> SUFFICES ASSUME NEW c \in Callers, Reads(c)' PROVE holder' = c /\ call'[c].id < nextId'
    OBVIOUS
  <2>1. holder' = c /\ call'[c].id = call[c].id /\ call[c].id < nextId
    BY DEF McpInv
  <2>2. call'[c].id \in Nat /\ nextId \in Nat
    BY DEF McpInv, CallState
  <2> QED BY <2>1, <2>2
<1>2. \A c \in Callers, a \in got : Reads(c)' => a.id # call'[c].id
  BY DEF McpInv
<1>3. \A a \in got : a.id \in 0..nextId'-1
  <2> SUFFICES ASSUME NEW a \in got PROVE a.id \in 0..nextId'-1
    OBVIOUS
  <2>1. a.id \in 0..nextId-1 /\ nextId \in Nat
    BY DEF McpInv
  <2> QED BY <2>1
<1>4. ReplyIsOwn'
  BY DEF McpInv, ReplyIsOwn
<1> QED BY <1>1, <1>2, <1>3, <1>4 DEF McpInv

\* Where a call is moved to a place that reads nothing, and an idle one.
LEMMA CallTypes ==
  ASSUME McpInv, NEW c \in Callers
  PROVE  /\ [call EXCEPT ![c] = Idle] \in [Callers -> CallState]
         /\ \A p \in CallPlaces : [call EXCEPT ![c].at = p] \in [Callers -> CallState]
<1>1. Idle \in CallState
  BY DEF Idle, CallState, CallPlaces, NoServer
<1>2. call \in [Callers -> CallState]
  BY DEF McpInv
<1> QED BY <1>1, <1>2 DEF CallState

\* A call that moves on without reading, or that returns.
LEMMA CallMoves ==
  ASSUME McpInv, NEW c \in Callers, got' = got, nextId' \in {nextId, nextId + 1},
         started' \in Nat, session' \in Nat,
         Returns(c) \/ Moves(c, "connect") \/ Moves(c, "request"),
         holder' = holder \/ holder = c \/ Reads(c)
  PROVE  McpInv'
<1>1. call' \in [Callers -> CallState]
  BY CallTypes, ZenonT(30) DEF Returns, Moves, CallPlaces
<1>2. call \in [Callers -> CallState] /\ nextId \in Nat
  BY DEF McpInv
<1>3. ~Reads(c)'
  BY <1>1, <1>2 DEF Returns, Moves, Reads, Idle, CallState
<1>4. \A d \in Callers \ {c} : call'[d] = call[d]
  BY <1>2 DEF Returns, Moves
<1>5. \A d \in Callers : Reads(d)' => Reads(d) /\ call'[d].id = call[d].id /\ holder' = holder
  <2> SUFFICES ASSUME NEW d \in Callers, Reads(d)'
               PROVE  Reads(d) /\ call'[d].id = call[d].id /\ holder' = holder
    OBVIOUS
  <2>1. d # c /\ call'[d] = call[d] /\ Reads(d)
    BY <1>3, <1>4 DEF Reads
  <2>2. holder = d /\ ~Reads(c) 
    BY <2>1 DEF McpInv
  <2> QED BY <2>1, <2>2
<1>6. nextId' \in Nat /\ nextId <= nextId'
  BY <1>2
<1> QED BY <1>1, <1>5, <1>6, McpQuiet

\* A call that starts to read: it took the free lock, and its id is a new one.
LEMMA CallReads ==
  ASSUME McpInv, NEW c \in Callers, holder = "nobody", holder' = c, got' = got,
         NEW p \in {"init", "reading"}, NEW s \in Nat,
         call' = [call EXCEPT ![c] = [at |-> p, id |-> nextId, server |-> s]],
         nextId' = nextId + 1, started' \in Nat, session' \in Nat
  PROVE  McpInv'
<1>1. call \in [Callers -> CallState] /\ nextId \in Nat
  BY DEF McpInv
<1>2. call' \in [Callers -> CallState]
  <2>1. [at |-> p, id |-> nextId, server |-> s] \in CallState
    BY <1>1 DEF CallState, CallPlaces
  <2> QED BY <1>1, <2>1
<1>3. \A d \in Callers : ~Reads(d)
  BY McpAssumption DEF McpInv
<1>4. \A d \in Callers : Reads(d)' => d = c
  <2>1. \A d \in Callers \ {c} : call'[d] = call[d]
    BY <1>1
  <2> QED BY <1>3, <2>1 DEF Reads
<1>5. call'[c].id = nextId
  BY <1>1
<1>6. \A d \in Callers : Reads(d)' => holder' = d /\ call'[d].id < nextId'
  BY <1>1, <1>4, <1>5
<1>7. \A a \in got : a.id \in 0..nextId'-1 /\ a.id # nextId
  BY <1>1 DEF McpInv
<1>8. \A d \in Callers, a \in got' : Reads(d)' => a.id # call'[d].id
  BY <1>4, <1>5, <1>7
<1>9. ReplyIsOwn'
  BY DEF McpInv, ReplyIsOwn
<1> QED BY <1>1, <1>2, <1>6, <1>7, <1>8, <1>9 DEF McpInv

\* The one step that hands out an answer: it is for the id in hand, which had none.
LEMMA AnsweredKeeps == ASSUME McpInv, NEW c \in Callers, Answered(c) PROVE McpInv'
<1> DEFINE new == [caller |-> c, id |-> call[c].id, answer |-> Head(Pipe(c)).id]
<1>1. new.answer = new.id /\ new.id = call[c].id /\ got' = got \cup {new}
  BY DEF Answered, AnswersCall
<1>2. Reads(c) /\ call \in [Callers -> CallState] /\ nextId \in Nat
  BY DEF Answered, At, Reads, McpInv
<1>3. call[c].id \in 0..nextId-1
  <2>1. call[c].id \in Nat
    BY <1>2 DEF CallState
  <2> QED BY <1>2, <2>1 DEF McpInv
<1>4. UNCHANGED <<session, started, nextId>> /\ Returns(c)
  BY DEF Answered
<1>5. call' \in [Callers -> CallState]
  BY <1>4, CallTypes DEF Returns
<1>6. \A d \in Callers : ~Reads(d)'
  <2>1. \A d \in Callers \ {c} : ~Reads(d) /\ call'[d] = call[d]
    BY <1>2, <1>4 DEF McpInv, Returns
  <2>2. call'[c].at = "idle"
    BY <1>2, <1>4 DEF Returns, Idle
  <2> QED BY <2>1, <2>2 DEF Reads
<1> HIDE DEF new
<1>7. \A a \in got' : a.id \in 0..nextId'-1
  BY <1>1, <1>3, <1>4 DEF McpInv
<1>8. ReplyIsOwn'
  <2>1. \A a \in got : a.answer = a.id /\ a.id # new.id
    BY <1>1, <1>2 DEF McpInv, ReplyIsOwn
  <2> QED BY <1>1, <2>1 DEF ReplyIsOwn, McpInv
<1>9. started' \in Nat /\ session' \in Nat /\ nextId' \in Nat
  BY <1>4 DEF McpInv
<1> QED BY <1>5, <1>6, <1>7, <1>8, <1>9 DEF McpInv

\* Every step keeps McpInv.
LEMMA McpStep == McpInv /\ [McpNext]_mcpVars => McpInv'
<1> SUFFICES ASSUME McpInv, [McpNext]_mcpVars PROVE McpInv'
  OBVIOUS
<1>n. started \in Nat /\ session \in Nat /\ nextId \in Nat
  BY DEF McpInv
<1>1. CASE UNCHANGED mcpVars
  BY <1>1 DEF mcpVars, McpInv, ReplyIsOwn, Reads
<1>2. ASSUME NEW c \in Callers, Asks(c) PROVE McpInv'
  BY <1>2, <1>n, CallMoves DEF Asks, NoServer
<1>3. ASSUME NEW c \in Callers, Connect(c) PROVE McpInv'
  BY <1>3, <1>n, CallMoves DEF Connect, NoServer
<1>4. ASSUME NEW c \in Callers, SpawnFails(c) PROVE McpInv'
  BY <1>4, <1>n, CallMoves DEF SpawnFails, NoServer
<1>5. ASSUME NEW c \in Callers, Unavailable(c) PROVE McpInv'
  BY <1>5, <1>n, CallMoves DEF Unavailable, NoServer
<1>6. ASSUME NEW c \in Callers, WriteFails(c) PROVE McpInv'
  BY <1>6, <1>n, CallMoves DEF WriteFails, NoServer
<1>7. ASSUME NEW c \in Callers, Initialized(c) PROVE McpInv'
  <2>1. call[c].server \in Nat
    BY DEF McpInv, CallState
  <2> QED BY <1>7, <2>1, <1>n, CallMoves DEF Initialized, At, Reads
<1>8. ASSUME NEW c \in Callers, ReadFails(c) PROVE McpInv'
  BY <1>8, <1>n, CallMoves DEF ReadFails, NoServer
<1>9. ASSUME NEW c \in Callers, Aborted(c) PROVE McpInv'
  BY <1>9, <1>n, CallMoves DEF Aborted, NoServer
<1>10. ASSUME NEW c \in Callers, SpawnServer(c) PROVE McpInv'
  <2>1. holder = "nobody" /\ holder' = c /\ nextId' = nextId + 1 /\ UNCHANGED <<session, got>>
    BY <1>10 DEF SpawnServer, Holds
  <2>2. call' = [call EXCEPT ![c] = [at |-> "init", id |-> nextId, server |-> started + 1]]
    BY <1>10 DEF SpawnServer
  <2>3. started + 1 \in Nat /\ started' \in Nat /\ session' \in Nat
    BY <1>10, <1>n DEF SpawnServer
  <2> QED BY <2>1, <2>2, <2>3, CallReads
<1>11. ASSUME NEW c \in Callers, Write(c) PROVE McpInv'
  BY <1>11, <1>n, CallReads DEF Write
<1>12. ASSUME NEW c \in Callers, Answered(c) PROVE McpInv'
  BY <1>12, AnsweredKeeps
<1>13. ASSUME NEW c \in Callers, PassOver(c) PROVE McpInv'
  BY <1>13 DEF PassOver, McpInv, ReplyIsOwn, Reads
<1>14. ASSUME NEW s \in servers, \/ Talks(s) \/ Dies(s)
                                  \/ \E id \in asked[s], ok \in BOOLEAN : Reply(s, id, ok)
      PROVE McpInv'
  BY <1>14 DEF Talks, Dies, Reply, Counted, McpInv, ReplyIsOwn, Reads
<1> QED BY <1>1, <1>2, <1>3, <1>4, <1>5, <1>6, <1>7, <1>8, <1>9, <1>10, <1>11, <1>12, <1>13, <1>14 DEF McpNext

\* Every call has the answer to its own request, once, for any callers, aborts
\* and servers.
THEOREM ReplyIsOwnHolds == McpSpec => []ReplyIsOwn
<1>1. McpInv => ReplyIsOwn
  BY DEF McpInv
<1> QED BY <1>1, McpInitially, McpStep, PTL DEF McpSpec
-----------------------------------------------------------------------------
\* The terminal: a typed turn runs alone, and its prompt comes to the screen.

\* One more event is behind all the others and changes none of them.
LEMMA OneMoreEvent ==
  ASSUME NEW q \in Seq(Event), NEW e \in Event
  PROVE  /\ q \o <<e>> = Append(q, e) /\ Append(q, e) \in Seq(Event)
         /\ Len(Append(q, e)) = Len(q) + 1 /\ Len(q) \in Nat
         /\ Append(q, e)[Len(q) + 1] = e
         /\ \A i \in 1..Len(q) : Append(q, e)[i] = q[i]
  OBVIOUS

\* What the terminal sends itself are events.
LEMMA EventTypes ==
  /\ Phase \in Event /\ Finished \in Event /\ \A p \in 0..MaxCards : Card(p) \in Event
  /\ Phase.kind = "phase" /\ Finished.kind = "finished" /\ \A p : Card(p).kind = "card"
  BY TerminalAssumption DEF Event, Phase, Finished, Card, NoCard

\* A turn that waits for its card is one that works.
LEMMA WaitingWorks ==
  ASSUME OneTurn, NEW t \in Turns, prompts[t] # NoCard
  PROVE  t \in Running
  BY DEF OneTurn, AwaitsCard, Running, Working

\* What the loop, the keys and the turns change, one kind of step at a time: first
\* the types, then the rest.
LEMMA TurnTypes ==
  ASSUME TurnInv, [TerminalNext]_terminalVars
  PROVE  /\ busy' \in BOOLEAN /\ queue' \in Seq(Event)
         /\ stage' \in [Turns -> Working \cup {"none", "closing", "over"}]
         /\ prompts' \in [Turns -> 0..MaxCards] /\ raised' \in 0..MaxCards
         /\ spoken \subseteq spoken'
<1> USE TerminalAssumption
<1>t. /\ busy \in BOOLEAN /\ queue \in Seq(Event)
      /\ stage \in [Turns -> Working \cup {"none", "closing", "over"}]
      /\ prompts \in [Turns -> 0..MaxCards] /\ raised \in 0..MaxCards
  BY DEF TurnInv
<1> HIDE DEF TurnInv
<1>1. CASE TakeEvent
  <2>1. busy' \in BOOLEAN
    BY <1>1 DEF TakeEvent
  <2> QED BY <1>t, <1>1, <2>1 DEF TakeEvent, turnVars
<1>s. ASSUME StopRun
      PROVE  /\ busy' \in BOOLEAN /\ prompts' \in [Turns -> 0..MaxCards] /\ UNCHANGED <<stage, raised>>
  <2>1. busy' \in BOOLEAN /\ UNCHANGED <<stage, raised>>
    BY <1>s DEF StopRun
  <2>2. prompts' \in [Turns -> 0..MaxCards]
    BY <1>s DEF StopRun, NoCard
  <2> QED BY <2>1, <2>2
<1>2. CASE CtrlC
  BY <1>t, <1>s, <1>2 DEF CtrlC
<1>2a. CASE AnswerCard
  <2>1. prompts' \in [Turns -> 0..MaxCards]
    BY <1>t, <1>2a DEF AnswerCard, NoCard
  <2> QED BY <1>t, <1>2a, <2>1 DEF AnswerCard
<1>3. CASE OverlayKey \/ OpenOverlay
  BY <1>t, <1>3 DEF OverlayKey, OpenOverlay, turnVars
<1>4. CASE EnterCommand \/ Escape
  BY <1>t, <1>s, <1>4 DEF EnterCommand, OpensScreen, StopCommand, Quits, Escape, turnVars, screenVars
<1>5. CASE VoiceKey \/ RecordingRunsOut
  BY <1>t, <1>5 DEF VoiceKey, RecordingRunsOut, turnVars
<1>6. ASSUME NEW t \in Turns, EnterText(t) \/ Transcribed(t)
      PROVE  /\ busy' \in BOOLEAN /\ queue' \in Seq(Event)
             /\ stage' \in [Turns -> Working \cup {"none", "closing", "over"}]
             /\ prompts' \in [Turns -> 0..MaxCards] /\ raised' \in 0..MaxCards
             /\ spoken \subseteq spoken'
  BY <1>t, <1>6 DEF EnterText, Transcribed, Submits, turnVars, Working
<1>7. ASSUME NEW t \in Turns, NEW to \in Working \cup {"over", "closing"}, NEW e \in Event,
             Sends(t, to, <<e>>) \/ Sends(t, to, << >>), UNCHANGED prompts
      PROVE  /\ busy' \in BOOLEAN /\ queue' \in Seq(Event)
             /\ stage' \in [Turns -> Working \cup {"none", "closing", "over"}]
             /\ prompts' \in [Turns -> 0..MaxCards] /\ raised' \in 0..MaxCards
             /\ spoken \subseteq spoken'
  <2>1. queue' \in Seq(Event)
    <3>1. queue' = queue \o <<e>> \/ queue' = queue \o << >>
      BY <1>7 DEF Sends
    <3> HIDE DEF Event
    <3>2. queue \o <<e>> \in Seq(Event) /\ queue \o << >> = queue
      BY <1>t
    <3> QED BY <1>t, <3>1, <3>2
  <2>2. stage' \in [Turns -> Working \cup {"none", "closing", "over"}]
    BY <1>t, <1>7 DEF Sends
  <2> QED BY <1>t, <1>7, <2>1, <2>2 DEF Sends
<1>8. ASSUME NEW t \in Turns, Saved(t) \/ Routed(t) \/ Replied(t) \/ Progresses(t) \/ Acted(t) \/ Compacted(t)
      PROVE  /\ busy' \in BOOLEAN /\ queue' \in Seq(Event)
             /\ stage' \in [Turns -> Working \cup {"none", "closing", "over"}]
             /\ prompts' \in [Turns -> 0..MaxCards] /\ raised' \in 0..MaxCards
             /\ spoken \subseteq spoken'
  <2>1. PICK to \in Working \cup {"over", "closing"}, e \in Event : 
          (Sends(t, to, <<e>>) \/ Sends(t, to, << >>)) /\ UNCHANGED prompts
    BY <1>8, EventTypes DEF Saved, Routed, Replied, Progresses, Acted, Compacted, Working
  <2> QED BY <1>7, <2>1
<1>9. ASSUME NEW t \in Turns, AskCard(t) \/ TimesOut(t)
      PROVE  /\ busy' \in BOOLEAN /\ queue' \in Seq(Event)
             /\ stage' \in [Turns -> Working \cup {"none", "closing", "over"}]
             /\ prompts' \in [Turns -> 0..MaxCards] /\ raised' \in 0..MaxCards
             /\ spoken \subseteq spoken'
  <2>1. CASE AskCard(t)
    <3>1. raised + 1 \in 0..MaxCards
      BY <1>t, <2>1 DEF AskCard
    <3> QED BY <1>t, <2>1, <3>1, EventTypes DEF AskCard
  <2>2. CASE TimesOut(t)
    BY <1>t, <2>2 DEF TimesOut, NoCard
  <2> QED BY <1>9, <2>1, <2>2
<1>10. CASE UNCHANGED terminalVars
  BY <1>t, <1>10 DEF terminalVars
<1> QED BY <1>1, <1>2, <1>2a, <1>3, <1>4, <1>5, <1>6, <1>8, <1>9, <1>10 DEF TerminalNext

\* A turn tells of itself: of a step on its way, or of its end.
LEMMA TurnTells ==
  ASSUME TurnInv, OneTurn, NEW t \in Turns, t \in Running, prompts[t] = NoCard, UNCHANGED prompts,
         NEW to \in Working \cup {"over", "closing"}, NEW e \in {Phase, Finished},
         e = Finished => to \notin Working, Sends(t, to, <<e>>)
  PROVE  OneTurn'
<1>t. /\ queue \in Seq(Event) /\ stage \in [Turns -> Working \cup {"none", "closing", "over"}]
      /\ e \in Event
  BY EventTypes DEF TurnInv
<1>1. /\ queue' = Append(queue, e) /\ stage' = [stage EXCEPT ![t] = to]
      /\ UNCHANGED <<busy, screens, card, raised>>
  BY <1>t, OneMoreEvent DEF Sends, screenVars
<1>2. Running \subseteq {t} /\ busy /\ "sessions" \notin screens
      /\ \A i \in Slots : queue[i].kind # "finished"
  BY DEF OneTurn
<1>3. \A s \in Turns : prompts'[s] = NoCard
  BY <1>2, WaitingWorks
<1>4. Running' \subseteq {t} /\ (e = Finished => Running' = {})
  BY <1>t, <1>1, <1>2 DEF Running
<1>5. \A i \in Slots' : queue'[i].kind = "finished" => e = Finished /\ i = Len(queue')
  BY <1>t, <1>1, <1>2, OneMoreEvent, EventTypes DEF Slots
<1> QED BY <1>1, <1>2, <1>3, <1>4, <1>5 DEF OneTurn

\* Stopping denies every prompt and leaves the turns to their tasks.
LEMMA StoppingKeeps ==
  ASSUME OneTurn, StopRun, UNCHANGED <<screens, queue>>
  PROVE  OneTurn'
  BY DEF OneTurn, StopRun, Running, Slots, NoCard

\* A step that touches neither a turn nor the queue, and opens no sessions over one.
LEMMA OtherKeeps ==
  ASSUME OneTurn, UNCHANGED <<queue, stage, prompts, raised, card>>,
         busy' = busy \/ "sessions" \in screens,
         "sessions" \in screens' => "sessions" \in screens \/ ~busy
  PROVE  OneTurn'
<1>1. Running' = Running /\ Slots' = Slots
  BY DEF Running, Slots
<1>2. \A t \in Turns : AwaitsCard(t)' <=> AwaitsCard(t)
  BY <1>1 DEF AwaitsCard
<1> QED BY <1>1, <1>2 DEF OneTurn

\* Every step keeps TurnInv.
LEMMA OneTurnStep ==
  ASSUME TurnInv, OneTurn, [TerminalNext]_terminalVars, spoken' = {}
  PROVE  OneTurn'
<1> USE TerminalAssumption
<1>t. /\ busy \in BOOLEAN /\ queue \in Seq(Event)
      /\ stage \in [Turns -> Working \cup {"none", "closing", "over"}]
      /\ prompts \in [Turns -> 0..MaxCards] /\ raised \in 0..MaxCards
  BY DEF TurnInv
<1>1. CASE TakeEvent
  <2>1. /\ queue # << >> /\ queue' = Tail(queue) /\ card' = Shows(Head(queue))
        /\ busy' = (Head(queue).kind # "finished")
        /\ UNCHANGED <<screens, stage, prompts, raised>>
    BY <1>1 DEF TakeEvent, turnVars
  <2>2. Head(queue) = queue[1] /\ 1 \in Slots /\ Len(queue') = Len(queue) - 1
        /\ \A i \in Slots' : queue'[i] = queue[i + 1] /\ i + 1 \in Slots
    BY <1>t, <2>1 DEF Slots
  <2>3. Running' = Running
    BY <2>1 DEF Running
  <2>4. \A i \in Slots' : queue'[i].kind = "finished" => i = Len(queue')
    BY <1>t, <2>2, SMTT(30) DEF OneTurn, Slots
  <2>5. ~busy' => Running = {} /\ queue' = << >>
    <3>1. SUFFICES ASSUME Head(queue).kind = "finished" PROVE Running = {} /\ queue' = << >>
      BY <2>1
    <3>2. Running = {}
      BY <2>2, <3>1 DEF OneTurn
    <3>3. 1 = Len(queue)
      BY <2>2, <3>1 DEF OneTurn
    <3> QED BY <1>t, <2>1, <3>2, <3>3
  <2>6. "sessions" \notin screens
    BY <2>1 DEF OneTurn
  <2>7. ASSUME NEW t \in Turns, prompts[t] # NoCard PROVE AwaitsCard(t)'
    <3>1. AwaitsCard(t)
      BY <2>7 DEF OneTurn
    <3>2. CASE card = raised /\ \A i \in Slots : queue[i].kind # "card"
      <4>1. card' = raised
        BY <2>1, <2>2, <3>2 DEF Shows
      <4>2. \A i \in Slots' : queue'[i].kind # "card"
        BY <2>2, <3>2
      <4> QED BY <2>1, <3>1, <4>1, <4>2 DEF AwaitsCard
    <3>3. ASSUME NEW i \in Slots, queue[i] = Card(raised),
                 \A j \in Slots : j > i => queue[j].kind # "card"
          PROVE  AwaitsCard(t)'
      <4>1. CASE i = 1
        <5>1. card' = raised
          BY <2>1, <2>2, <3>3, <4>1 DEF Shows, Card
        <5>2. \A j \in Slots' : queue'[j].kind # "card"
          BY <1>t, <2>2, <3>3, <4>1 DEF Slots
        <5> QED BY <2>1, <3>1, <5>1, <5>2 DEF AwaitsCard
      <4>2. CASE i # 1
        <5>0. Len(queue) \in Nat /\ Len(queue') = Len(queue) - 1 /\ i \in 1..Len(queue) /\ i # 1
          BY <1>t, <2>2, <3>3, <4>2 DEF Slots
        <5>1. i - 1 \in Slots' /\ queue'[i - 1] = Card(raised)
          <6>1. i - 1 \in Slots' /\ (i - 1) + 1 = i
            BY <5>0 DEF Slots
          <6> QED BY <2>2, <3>3, <6>1
        <5>2. ASSUME NEW j \in Slots', j > i - 1 PROVE queue'[j].kind # "card"
          <6>1. j + 1 \in Slots /\ j + 1 > i /\ queue'[j] = queue[j + 1]
            BY <2>2, <5>0, <5>2 DEF Slots
          <6> QED BY <3>3, <6>1
        <5>3. stage'[t] = "acting" /\ prompts'[t] = raised' /\ Card(raised)' = Card(raised)
          BY <2>1, <3>1 DEF AwaitsCard, Card
        <5> QED BY <5>1, <5>2, <5>3 DEF AwaitsCard
      <4> QED BY <4>1, <4>2
    <3> QED BY <3>1, <3>2, <3>3 DEF AwaitsCard
  <2>8. Running # {} => busy' /\ \A i \in Slots' : queue'[i].kind # "finished"
    BY <2>2, <2>5 DEF OneTurn
  <2> QED BY <2>1, <2>3, <2>4, <2>5, <2>6, <2>7, <2>8 DEF OneTurn
<1>2. CASE CtrlC
  BY <1>2, StoppingKeeps DEF CtrlC
<1>3. CASE AnswerCard
  <2>1. /\ card # NoCard /\ card' = NoCard
        /\ prompts' = [t \in Turns |-> IF prompts[t] = card THEN NoCard ELSE prompts[t]]
        /\ UNCHANGED <<busy, screens, queue, stage, raised>>
    BY <1>3 DEF AnswerCard
  <2>2. Running' = Running /\ Slots' = Slots
    BY <2>1 DEF Running, Slots
  <2>3. ASSUME NEW t \in Turns, prompts'[t] # NoCard PROVE AwaitsCard(t)'
    <3>1. prompts'[t] = prompts[t] /\ prompts[t] # card /\ AwaitsCard(t)
      BY <2>1, <2>3 DEF OneTurn
    <3> QED BY <2>1, <2>2, <3>1 DEF AwaitsCard, Card
  <2> QED BY <2>1, <2>2, <2>3 DEF OneTurn
<1>4. CASE OverlayKey
  BY <1>4, OtherKeeps DEF OverlayKey, turnVars
<1>5. CASE OpenOverlay
  BY <1>5, OtherKeeps DEF OpenOverlay, turnVars, ChatLine
<1>6. CASE EnterCommand
  <2>1. CASE OpensScreen
    BY <1>6, <2>1, OtherKeeps DEF EnterCommand, OpensScreen, turnVars, Accepts
  <2>2. CASE StopCommand
    BY <1>6, <2>2, StoppingKeeps DEF EnterCommand, StopCommand
  <2>3. CASE Quits
    BY <1>6, <2>3, OtherKeeps DEF EnterCommand, Quits, turnVars, screenVars
  <2> QED BY <1>6, <2>1, <2>2, <2>3 DEF EnterCommand
<1>7. CASE Escape
  <2>1. CASE StopRun
    BY <1>7, <2>1, StoppingKeeps DEF Escape
  <2>2. CASE UNCHANGED <<busy, card, turnVars>>
    BY <1>7, <2>2, OtherKeeps DEF Escape, turnVars
  <2> QED BY <1>7, <2>1, <2>2 DEF Escape
<1>8. CASE VoiceKey \/ RecordingRunsOut
  BY <1>8, OtherKeeps DEF VoiceKey, RecordingRunsOut, turnVars, screenVars
<1>9. ASSUME NEW t \in Turns, EnterText(t) PROVE OneTurn'
  <2>1. /\ ~busy /\ screens = {} /\ stage' = [stage EXCEPT ![t] = "saving"] /\ busy'
        /\ UNCHANGED <<prompts, raised, screens, card, queue>>
    BY <1>9 DEF EnterText, ChatLine, Accepts, Submits, screenVars
  <2>2. Running = {} /\ queue = << >>
    BY <2>1 DEF OneTurn
  <2>3. \A s \in Turns : prompts'[s] = NoCard
    BY <2>1, <2>2, WaitingWorks
  <2>4. Running' \subseteq {t}
    BY <1>t, <2>1, <2>2 DEF Running
  <2>5. queue' = << >> /\ Slots' = {}
    BY <2>1, <2>2 DEF Slots
  <2> QED BY <2>1, <2>3, <2>4, <2>5 DEF OneTurn
<1>10. ASSUME NEW t \in Turns, Transcribed(t) PROVE OneTurn'
  <2>1. UNCHANGED <<busy, turnVars, spoken, screenVars, queue>>
    BY <1>10 DEF Transcribed
  <2> QED BY <2>1, OtherKeeps DEF turnVars, screenVars
<1>11. ASSUME NEW t \in Turns, stage[t] \in Working, prompts[t] # NoCard => FALSE, UNCHANGED prompts,
              NEW to \in Working \cup {"over", "closing"}, NEW e \in {Phase, Finished},
              e = Finished => to \notin Working, Sends(t, to, <<e>>)
       PROVE  OneTurn'
  BY <1>11, TurnTells DEF Running
<1>12. ASSUME NEW t \in Turns, Saved(t) \/ Routed(t) \/ Replied(t) \/ Progresses(t) \/ Acted(t)
       PROVE  OneTurn'
  <2>1. stage[t] \in Working /\ UNCHANGED prompts
    BY <1>12 DEF Saved, Routed, Replied, Progresses, Acted, Working
  <2>2. prompts[t] = NoCard
    BY <1>12 DEF Saved, Routed, Replied, Progresses, Acted, OneTurn, AwaitsCard
  <2>3. PICK to \in Working \cup {"over", "closing"}, e \in {Phase, Finished} :
          (e = Finished => to \notin Working) /\ Sends(t, to, <<e>>)
    <3>1. Phase # Finished
      BY EventTypes
    <3> QED BY <1>12, <3>1 DEF Saved, Routed, Replied, Progresses, Acted, Working
  <2> QED BY <1>11, <2>1, <2>2, <2>3
<1>13. ASSUME NEW t \in Turns, Compacted(t) PROVE OneTurn'
  <2>1. /\ stage[t] = "closing" /\ stage' = [stage EXCEPT ![t] = "over"] /\ queue' = queue
        /\ UNCHANGED <<prompts, raised, screens, card, busy>>
    BY <1>t, <1>13 DEF Compacted, Sends, screenVars
  <2>2. Running' = Running /\ Slots' = Slots
    BY <1>t, <2>1 DEF Running, Slots, Working
  <2>3. ASSUME NEW s \in Turns, prompts'[s] # NoCard PROVE AwaitsCard(s)'
    BY <1>t, <2>1, <2>2, <2>3 DEF OneTurn, AwaitsCard, Card
  <2> QED BY <2>1, <2>2, <2>3 DEF OneTurn
<1>14. ASSUME NEW t \in Turns, AskCard(t) PROVE OneTurn'
  <2>1. /\ stage[t] = "acting" /\ prompts[t] = NoCard /\ raised' = raised + 1
        /\ raised + 1 \in 0..MaxCards
        /\ prompts' = [prompts EXCEPT ![t] = raised + 1] /\ queue' = Append(queue, Card(raised + 1))
        /\ UNCHANGED <<stage, screens, card, busy>>
    BY <1>t, <1>14 DEF AskCard, screenVars
  <2>2. /\ Len(queue') = Len(queue) + 1 /\ queue'[Len(queue) + 1] = Card(raised + 1)
        /\ \A i \in 1..Len(queue) : queue'[i] = queue[i]
    BY <1>t, <2>1, OneMoreEvent, EventTypes
  <2>3. t \in Running /\ Running' = Running
    BY <2>1 DEF Running, Working
  <2>4. Running = {t} /\ busy /\ "sessions" \notin screens
        /\ \A i \in Slots : queue[i].kind # "finished"
    BY <2>3 DEF OneTurn
  <2>5. \A i \in Slots' : queue'[i].kind # "finished"
    BY <1>t, <2>2, <2>4, EventTypes, SMTT(30) DEF Slots
  <2>6. ASSUME NEW s \in Turns, prompts'[s] # NoCard PROVE AwaitsCard(s)'
    <3>1. s = t
      BY <1>t, <2>1, <2>4, <2>6, WaitingWorks
    <3>2. stage'[t] = "acting" /\ prompts'[t] = raised'
      BY <1>t, <2>1
    <3>3. Len(queue) + 1 \in Slots' /\ \A j \in Slots' : ~(j > Len(queue) + 1)
      BY <1>t, <2>2 DEF Slots
    <3>4. Card(raised)' = Card(raised + 1)
      BY <2>1 DEF Card
    <3>5. queue'[Len(queue) + 1] = Card(raised)'
      BY <2>2, <3>4
    <3> QED BY <3>1, <3>2, <3>3, <3>5 DEF AwaitsCard
  <2> QED BY <2>1, <2>3, <2>4, <2>5, <2>6 DEF OneTurn
<1>15. ASSUME NEW t \in Turns, TimesOut(t) PROVE OneTurn'
  <2>1. /\ prompts' = [prompts EXCEPT ![t] = NoCard]
        /\ UNCHANGED <<busy, screens, card, queue, stage, raised>>
    BY <1>15 DEF TimesOut, screenVars
  <2>2. Running' = Running /\ Slots' = Slots
    BY <2>1 DEF Running, Slots
  <2>3. ASSUME NEW s \in Turns, prompts'[s] # NoCard PROVE AwaitsCard(s)'
    <3>1. prompts'[s] = prompts[s] /\ AwaitsCard(s)
      BY <1>t, <2>1, <2>3 DEF OneTurn
    <3> QED BY <2>1, <2>2, <3>1 DEF AwaitsCard, Card
  <2> QED BY <2>1, <2>2, <2>3 DEF OneTurn
<1>16. CASE UNCHANGED terminalVars
  BY <1>16, OtherKeeps DEF terminalVars
<1> QED BY <1>1, <1>2, <1>3, <1>4, <1>5, <1>6, <1>7, <1>8, <1>9, <1>10, <1>12, <1>13, <1>14, <1>15,
           <1>16 DEF TerminalNext

\* As long as nobody speaks, the chat screen (run_voice) has one turn at work at
\* most, and the prompt this turn waits for is on the screen or on its way there,
\* whatever is stopped, opened and closed and however far behind the queue is.
THEOREM TypedTurnsAloneHolds == TerminalSpec => []TypedTurnsAlone
<1>1. TerminalInit => TurnInv
  <2> SUFFICES ASSUME TerminalInit PROVE TurnInv
    OBVIOUS
  <2>1. Running = {} /\ queue = << >> /\ screens = {} /\ \A t \in Turns : prompts[t] = NoCard
    BY DEF TerminalInit, Running, Working
  <2>2. OneTurn
    BY <2>1 DEF OneTurn, Slots
  <2>3. busy \in BOOLEAN
    BY DEF TerminalInit
  <2> QED BY <2>1, <2>2, <2>3, TerminalAssumption DEF TerminalInit, TurnInv, NoCard
<1>2. TurnInv => TypedTurnsAlone
  <2> SUFFICES ASSUME TurnInv, spoken = {}
               PROVE  /\ Cardinality(Running) <= 1
                      /\ \A t \in Turns : prompts[t] # NoCard =>
                           card = prompts[t] \/ \E i \in 1..Len(queue) : queue[i] = Card(prompts[t])
    BY DEF TypedTurnsAlone
  <2>1. OneTurn
    BY DEF TurnInv
  <2>2. Cardinality(Running) <= 1
    <3>1. CASE Running = {}
      BY <3>1, FS_EmptySet
    <3>2. CASE Running # {}
      <4>1. PICK t : t \in Running
        BY <3>2
      <4>2. Running = {t}
        BY <2>1, <4>1 DEF OneTurn
      <4> QED BY <4>2, FS_Singleton
    <3> QED BY <3>1, <3>2
  <2>3. \A t \in Turns : prompts[t] # NoCard =>
          card = prompts[t] \/ \E i \in 1..Len(queue) : queue[i] = Card(prompts[t])
    BY <2>1 DEF OneTurn, AwaitsCard, Slots
  <2> QED BY <2>2, <2>3
<1>3. TurnInv /\ [TerminalNext]_terminalVars => TurnInv'
  <2> SUFFICES ASSUME TurnInv, [TerminalNext]_terminalVars PROVE TurnInv'
    OBVIOUS
  <2>1. spoken' = {} => OneTurn'
    BY TurnTypes, OneTurnStep DEF TurnInv
  <2> QED BY <2>1, TurnTypes DEF TurnInv
<1> QED BY <1>1, <1>2, <1>3, PTL DEF TerminalSpec
-----------------------------------------------------------------------------
\* The settings: the models stored for an endpoint are a list it gave.

\* The environment changes the chat mode of a copy and nothing else.
LEMMA OverlaidKeeps ==
  ASSUME NEW c \in Config, env \in {"none", "manual"}
  PROVE  Overlaid(c) \in Config /\ Overlaid(c).providers = c.providers
  BY DEF Overlaid, Config

\* Replacing the list of one endpoint replaces no other's.
LEMMA ProviderReplaced ==
  ASSUME NEW c \in Config, NEW u \in Urls, NEW models \in SUBSET Models
  PROVE  /\ [c EXCEPT !.providers[u] = models] \in Config
         /\ [c EXCEPT !.providers[u] = models].providers = [c.providers EXCEPT ![u] = models]
  BY DEF Config

\* Fields other than the providers.
LEMMA OtherFields ==
  ASSUME NEW c \in Config
  PROVE  /\ \A m \in Modes : [c EXCEPT !.mode = m] \in Config /\ [c EXCEPT !.mode = m].providers = c.providers
         /\ \A m \in {"auto", "manual"} :
              [c EXCEPT !.chat = m] \in Config /\ [c EXCEPT !.chat = m].providers = c.providers
         /\ \A b \in BOOLEAN : [c EXCEPT !.bridge = b] \in Config /\ [c EXCEPT !.bridge = b].providers = c.providers
<1>1. ASSUME NEW m \in Modes
      PROVE [c EXCEPT !.mode = m] \in Config /\ [c EXCEPT !.mode = m].providers = c.providers
  BY DEF Config
<1>2. ASSUME NEW m \in {"auto", "manual"}
      PROVE [c EXCEPT !.chat = m] \in Config /\ [c EXCEPT !.chat = m].providers = c.providers
  BY DEF Config
<1>3. ASSUME NEW b \in BOOLEAN
      PROVE [c EXCEPT !.bridge = b] \in Config /\ [c EXCEPT !.bridge = b].providers = c.providers
  BY DEF Config
<1> QED BY <1>1, <1>2, <1>3

\* A tier bound to a model leaves the providers as they were.
LEMMA TierBound ==
  ASSUME NEW c \in Config, NEW t \in Tiers, NEW k \in ModelKeys \cup {Unbound, Default}
  PROVE  [c EXCEPT !.tiers[t] = k] \in Config /\ [c EXCEPT !.tiers[t] = k].providers = c.providers
  BY DEF Config

\* The configuration compiled in is one, and offers no model.
LEMMA CompiledIsConfig ==
  Compiled \in Config /\ \A u \in Urls : Compiled.providers[u] = {}
  BY DEF Compiled, Config, Empty, Modes

\* A step after which every copy has the providers of some copy before it, and
\* which leaves the form and the answers alone.
LEMMA CopiesOfCopies ==
  ASSUME CopiesInv, file' \in Config, app' \in Config, rt' \in Config,
         WasAnswered(file)', WasAnswered(app)', WasAnswered(rt)', UNCHANGED <<env, answered>>,
         (UNCHANGED <<typed, tested, found>>) \/ (tested' = FALSE /\ found' \in {found, {}})
  PROVE  CopiesInv'
  BY DEF CopiesInv, CopiesTypeOK

\* A copy with the providers of one whose models were answered has answered models only.
LEMMA SameProviders ==
  ASSUME NEW c, NEW d, UNCHANGED answered, WasAnswered(c), d.providers = c.providers
  PROVE  \A u \in Urls : d.providers[u] # {} => d.providers[u] \in answered'[u]
  BY DEF WasAnswered

\* Every step keeps CopiesInv.
LEMMA CopiesInvStep == CopiesInv /\ [SettingsNext]_settingsVars => CopiesInv'
<1> USE SettingsAssumption
<1> SUFFICES ASSUME CopiesInv, [SettingsNext]_settingsVars PROVE CopiesInv'
  OBVIOUS
<1>t. /\ file \in Config /\ app \in Config /\ rt \in Config /\ env \in {"none", "manual"}
      /\ found \in SUBSET Models /\ answered \in [Urls -> SUBSET SUBSET Models]
      /\ WasAnswered(file) /\ WasAnswered(app) /\ WasAnswered(rt)
  BY DEF CopiesInv, CopiesTypeOK
<1>1. CASE Restart
  <2> DEFINE laid == Overlaid(file)
  <2>1. laid \in Config /\ laid.providers = file.providers
    BY <1>t, OverlaidKeeps
  <2>2. app' = laid /\ tested' = FALSE /\ found' = {} /\ env' = env
    BY <1>1 DEF Restart, DraftIs, Closed
  <2>3. CASE rt' = laid /\ UNCHANGED <<file, writes, answered>>
    <3>1. WasAnswered(file)' /\ WasAnswered(app)' /\ WasAnswered(rt)'
      BY <2>1, <2>2, <2>3, <1>t DEF WasAnswered
    <3> HIDE DEF laid
    <3> QED BY <1>t, <2>1, <2>2, <2>3, <3>1 DEF CopiesInv, CopiesTypeOK
  <2>4. CASE /\ rt' = Synced(laid) /\ file' = rt'
             /\ answered' = [answered EXCEPT ![Endpoint] = @ \cup {Serves[Endpoint]}]
    <3> DEFINE synced == Synced(laid)
    <3>1. synced \in Config /\ synced.providers = [file.providers EXCEPT ![Endpoint] = Serves[Endpoint]]
      BY <2>1, ProviderReplaced DEF Synced
    <3> HIDE DEF laid, synced
    <3>2. file.providers \in [Urls -> SUBSET Models]
      BY <1>t DEF Config
    <3>3. /\ answered' \in [Urls -> SUBSET SUBSET Models]
          /\ \A u \in Urls : answered[u] \subseteq answered'[u]
          /\ Serves[Endpoint] \in answered'[Endpoint]
      BY <1>t, <2>4
    <3>4. \A u \in Urls : synced.providers[u] # {} => synced.providers[u] \in answered'[u]
      BY <1>t, <3>1, <3>2, <3>3 DEF WasAnswered
    <3>5. \A u \in Urls : laid.providers[u] # {} => laid.providers[u] \in answered'[u]
      BY <1>t, <2>1, <3>3 DEF WasAnswered
    <3>6. rt' = synced /\ file' = synced
      BY <2>4 DEF synced
    <3>7. WasAnswered(file)' /\ WasAnswered(app)' /\ WasAnswered(rt)'
      BY <3>4, <3>5, <3>6, <2>2 DEF WasAnswered
    <3> QED BY <1>t, <2>1, <2>2, <3>1, <3>3, <3>6, <3>7 DEF CopiesInv, CopiesTypeOK
  <2> QED BY <1>1, <2>3, <2>4 DEF Restart, Saves
<1>2. CASE OpenSettings
  <2>1. UNCHANGED <<file, app, rt, env, answered>> /\ tested' = FALSE /\ found' = {}
    BY <1>2 DEF OpenSettings, DraftIs, Closed, copies
  <2> QED BY <2>1, <1>t DEF CopiesInv, CopiesTypeOK, WasAnswered
<1>3. CASE CloseSettings \/ TypeKey
  BY <1>3 DEF CloseSettings, TypeKey, copies, CopiesInv, CopiesTypeOK, WasAnswered
<1>4. CASE PickPreset
  BY <1>4 DEF PickPreset, copies, CopiesInv, CopiesTypeOK, WasAnswered
<1>5. ASSUME NEW u \in Urls, TypeUrl(u) PROVE CopiesInv'
  BY <1>5 DEF TypeUrl, TypedTested, copies, CopiesInv, CopiesTypeOK, WasAnswered
<1>6. CASE TestProvider
  <2>1. CASE tested' = FALSE /\ UNCHANGED <<found, answered>>
    BY <1>6, <2>1 DEF TestProvider, copies, CopiesInv, CopiesTypeOK, WasAnswered
  <2>2. CASE /\ tested' = TRUE /\ found' = Serves[typed]
             /\ answered' = [answered EXCEPT ![typed] = @ \cup {Serves[typed]}]
    <3>1. typed \in Urls /\ UNCHANGED <<file, app, rt, env, typed>>
      BY <1>6 DEF TestProvider, copies
    <3>2. /\ answered' \in [Urls -> SUBSET SUBSET Models]
          /\ \A u \in Urls : answered[u] \subseteq answered'[u]
          /\ Serves[typed] \in answered'[typed]
      BY <1>t, <2>2, <3>1
    <3> QED BY <1>t, <2>2, <3>1, <3>2 DEF CopiesInv, CopiesTypeOK, WasAnswered
  <2> QED BY <1>6, <2>1, <2>2 DEF TestProvider
<1>7. CASE SaveProvider
  <2>1. /\ typed \in Urls /\ tested /\ found \in answered[typed]
        /\ app' = [app EXCEPT !.providers[typed] = found] /\ file' = app'
        /\ UNCHANGED <<rt, env, typed, tested, found, answered>>
    BY <1>7 DEF SaveProvider, WithProvider, Saves, CopiesInv
  <2>2. app' \in Config /\ app'.providers = [app.providers EXCEPT ![typed] = found]
    BY <1>t, <2>1, ProviderReplaced
  <2>3. app.providers \in [Urls -> SUBSET Models]
    BY <1>t DEF Config
  <2>4. \A u \in Urls : app'.providers[u] # {} => app'.providers[u] \in answered[u]
    BY <1>t, <2>1, <2>2, <2>3 DEF WasAnswered
  <2> QED BY <1>t, <2>1, <2>2, <2>4 DEF CopiesInv, CopiesTypeOK, WasAnswered
<1>8. ASSUME NEW t \in Tiers, NEW k \in ModelKeys \cup {Unbound, Default}, BindTier(t, k)
      PROVE  CopiesInv'
  <2>1. /\ app' = [app EXCEPT !.tiers[t] = k] /\ file' = app'
        /\ UNCHANGED <<rt, env, typed, tested, found, answered>>
    BY <1>8 DEF BindTier, Saves
  <2>2. app' \in Config /\ app'.providers = app.providers
    BY <1>t, <2>1, TierBound
  <2> QED BY <1>t, <2>1, <2>2 DEF CopiesInv, CopiesTypeOK, WasAnswered
<1>9. ASSUME NEW m \in {"auto", "manual"}, ChooseChat(m) PROVE CopiesInv'
  <2>1. /\ app' = [app EXCEPT !.chat = m] /\ file' = app'
        /\ UNCHANGED <<rt, env, typed, tested, found, answered>>
    BY <1>9 DEF ChooseChat, Saves, draft
  <2>2. app' \in Config /\ app'.providers = app.providers
    BY <1>t, <2>1, OtherFields
  <2> QED BY <1>t, <2>1, <2>2 DEF CopiesInv, CopiesTypeOK, WasAnswered
<1>10. ASSUME NEW m \in Modes, NEW from \in {file, app'}, RuntimeMode(from, m),
              app' \in Config, app'.providers = app.providers,
              UNCHANGED <<env, typed, tested, found, answered>>
       PROVE  CopiesInv'
  <2>1. from \in Config /\ (from.providers = file.providers \/ from.providers = app.providers)
    BY <1>t, <1>10
  <2>2. Overlaid(from) \in Config /\ Overlaid(from).providers = from.providers
    BY <1>t, <2>1, OverlaidKeeps
  <2>3. file' \in Config /\ file'.providers = from.providers
    BY <1>10, <2>2, OtherFields DEF RuntimeMode
  <2>4. rt' \in Config /\ rt'.providers = rt.providers
    BY <1>t, <1>10, OtherFields DEF RuntimeMode
  <2>5. WasAnswered(file)' /\ WasAnswered(app)' /\ WasAnswered(rt)'
    BY <1>t, <1>10, <2>1, <2>3, <2>4 DEF WasAnswered
  <2> QED BY <1>t, <1>10, <2>3, <2>4, <2>5 DEF CopiesInv, CopiesTypeOK
<1>11. ASSUME NEW m \in Modes, ChooseMode(m) PROVE CopiesInv'
  <2>1. /\ app' = [app EXCEPT !.mode = m] /\ RuntimeMode(app', m)
        /\ UNCHANGED <<env, typed, tested, found, answered>>
    BY <1>11 DEF ChooseMode, draft
  <2>2. app' \in Config /\ app'.providers = app.providers
    BY <1>t, <2>1, OtherFields
  <2> QED BY <1>10, <2>1, <2>2
<1>12. ASSUME NEW m \in Modes, AutoCommand(m) PROVE CopiesInv'
  <2>1. RuntimeMode(file, m) /\ UNCHANGED <<app, env, typed, tested, found, answered>>
    BY <1>12 DEF AutoCommand, draft
  <2> QED BY <1>t, <1>10, <2>1
<1>13. ASSUME NEW c \in Config, Saves(c), UNCHANGED <<app, rt, env, typed, tested, found, answered>>,
              (\A u \in Urls : c.providers[u] = {}) \/ (c.providers = file.providers)
                \/ (c.providers = app.providers)
       PROVE  CopiesInv'
  <2>1. file' = c
    BY <1>13 DEF Saves
  <2>2. \A u \in Urls : c.providers[u] # {} => c.providers[u] \in answered[u]
    BY <1>t, <1>13 DEF WasAnswered
  <2> QED BY <1>t, <1>13, <2>1, <2>2 DEF CopiesInv, CopiesTypeOK, WasAnswered
<1>14. ASSUME NEW on \in BOOLEAN, ServeCommand(on) PROVE CopiesInv'
  <2>1. [app EXCEPT !.bridge = on] \in Config /\ [app EXCEPT !.bridge = on].providers = app.providers
    BY <1>t, OtherFields
  <2> QED BY <1>13, <1>14, <2>1 DEF ServeCommand, draft
<1>15. CASE ConfigSet
  <2>1. PICK c \in Settable(file) : Saves(c)
    BY <1>15 DEF ConfigSet
  <2>2. c \in Config /\ c.providers = file.providers
    <3>1. CASE \E m \in {"auto", "manual"} : c = [file EXCEPT !.chat = m]
      BY <1>t, <3>1, OtherFields, ZenonT(30)
    <3>2. CASE \E m \in Modes : c = [file EXCEPT !.mode = m]
      <4>1. PICK m \in Modes : c = [file EXCEPT !.mode = m]
        BY <3>2
      <4> QED BY <1>t, <4>1, OtherFields
    <3> QED BY <3>1, <3>2 DEF Settable
  <2> QED BY <1>13, <1>15, <2>1, <2>2 DEF ConfigSet, draft
<1>16. CASE ConfigReset
  BY <1>13, <1>16, CompiledIsConfig DEF ConfigReset, draft
<1>17. CASE ServeSwitch
  <2>1. PICK on \in BOOLEAN : Saves([file EXCEPT !.bridge = on])
    BY <1>17 DEF ServeSwitch
  <2>2. [file EXCEPT !.bridge = on] \in Config /\ [file EXCEPT !.bridge = on].providers = file.providers
    BY <1>t, OtherFields
  <2> QED BY <1>13, <1>17, <2>1, <2>2 DEF ServeSwitch, draft
<1>18. CASE UNCHANGED settingsVars
  BY <1>18 DEF settingsVars, copies, draft, CopiesInv, CopiesTypeOK, WasAnswered
<1> QED BY <1>1, <1>2, <1>3, <1>4, <1>5, <1>6, <1>7, <1>8, <1>9, <1>11, <1>12, <1>14, <1>15, <1>16,
           <1>17, <1>18 DEF SettingsNext

\* Whatever was typed, tested and saved in the settings screen, by the runtime or by
\* a command (lucy-config, settings.rs), the models the file stores for an endpoint
\* are a list this endpoint gave.
THEOREM ModelsOfTheirEndpointHolds == SettingsSpec => []ModelsOfTheirEndpoint
<1>1. SettingsInit => CopiesInv
  <2> SUFFICES ASSUME SettingsInit PROVE CopiesInv
    OBVIOUS
  <2>1. env \in {"none", "manual"} /\ file = Compiled /\ app = Overlaid(Compiled) /\ rt = Overlaid(Compiled)
        /\ found = {} /\ tested = FALSE /\ answered = [u \in Urls |-> {}]
    BY DEF SettingsInit
  <2>2. app \in Config /\ app.providers = Compiled.providers /\ rt = app
    BY <2>1, CompiledIsConfig, OverlaidKeeps
  <2> QED BY <2>1, <2>2, CompiledIsConfig DEF CopiesInv, CopiesTypeOK, WasAnswered
<1>2. CopiesInv => ModelsOfTheirEndpoint
  BY DEF CopiesInv, WasAnswered, ModelsOfTheirEndpoint
<1> QED BY <1>1, <1>2, CopiesInvStep, PTL DEF SettingsSpec
-----------------------------------------------------------------------------
\* The browser loop: what it calls done is verified.

\* The policy decides only where the loop asks it to.
LEMMA PolicyStepsWhenAsked == PolicyStep => doing \in {"suggestions", "requirements"}
<1>1. ASSUME NEW i \in Reqs, Unsettled(i) PROVE doing = "requirements"
  BY <1>1 DEF Unsettled
<1>2. ASSUME NEW i \in Reqs, Asked(i) PROVE doing = "requirements"
  BY <1>2 DEF Asked, Searches, Unmet, Unsettled
<1>3. ASSUME NEW i \in Reqs,
             \/ GiveUp(i) \/ ActOnField(i) \/ Shown(i) \/ NoCandidate(i) \/ DatedField(i)
             \/ AnswersFill(i) \/ AnswersSelect(i) \/ AnswersClick(i) \/ AnswersScroll(i)
             \/ AnswersWait(i) \/ AnswersDone(i) \/ AnswersBlocked(i)
      PROVE  doing = "requirements"
  <2>1. CASE GiveUp(i) \/ ActOnField(i) \/ Shown(i) \/ NoCandidate(i) \/ DatedField(i)
    <3>1. Unsettled(i)
      BY <2>1 DEF GiveUp, ActOnField, Shown, NoCandidate, DatedField, Searches, Unmet
    <3> QED BY <3>1, <1>1
  <2>2. CASE \/ AnswersFill(i) \/ AnswersSelect(i) \/ AnswersClick(i) \/ AnswersScroll(i)
             \/ AnswersWait(i) \/ AnswersDone(i) \/ AnswersBlocked(i)
    <3>1. Asked(i)
      BY <2>2 DEF AnswersFill, AnswersSelect, AnswersClick, AnswersScroll, AnswersWait,
                  AnswersDone, AnswersBlocked
    <3> QED BY <3>1, <1>2
  <2> QED BY <1>3, <2>1, <2>2
<1>4. ASSUME \/ ItemOpened \/ ScrollToItem \/ NothingLeft \/ ReadAsFinished \/ ReadAsResults
             \/ OperationDone \/ OperationScroll \/ OperationNone \/ OperationClick
      PROVE  doing = "requirements"
  <2>1. AllSettled
    BY <1>4 DEF ItemOpened, ScrollToItem, NothingLeft, ReadAsFinished, ReadAsResults,
                OperationDone, OperationScroll, OperationNone, OperationClick, AsksPage, Seeks
  <2> QED BY <2>1 DEF AllSettled
<1>5. CASE AskFails
  <2>1. CASE \E i \in Reqs : Asked(i)
    BY <2>1, <1>2
  <2>2. CASE AsksPage
    BY <2>2 DEF AsksPage, Seeks, AllSettled
  <2>3. CASE doing = "suggestions"
    BY <2>3
  <2> QED BY <1>5, <2>1, <2>2, <2>3 DEF AskFails
<1>6. CASE PickSuggestion \/ NoSuggestion \/ PassedOver
  BY <1>6 DEF PickSuggestion, NoSuggestion, PassedOver
<1> QED BY <1>3, <1>4, <1>5, <1>6 DEF PolicyStep

\* The policy reads what was observed, and leaves it.
LEMMA PolicyLeavesSnapshot == PolicyStep => snapshot' = snapshot
<1>1. ASSUME NEW d, Decides(d) PROVE snapshot' = snapshot
  BY <1>1 DEF Decides
<1>2. ASSUME NEW e, NEW i, Fill(e, i) \/ FillOwn(e, i) \/ OpenControl(e, i) \/ SelectOption(e, i)
      PROVE  snapshot' = snapshot
  BY <1>1, <1>2 DEF Fill, FillOwn, OpenControl, SelectOption
<1>3. ASSUME Waits \/ Scrolls PROVE snapshot' = snapshot
  BY <1>1, <1>3 DEF Waits, Scrolls
<1>4. ASSUME NEW i, WaitCounted(i) \/ ScrollOrWait(i) PROVE snapshot' = snapshot
  BY <1>3, <1>4 DEF WaitCounted, ScrollOrWait
<1>5. ASSUME NEW i \in Reqs,
             \/ GiveUp(i) \/ Shown(i) \/ NoCandidate(i) \/ AnswersWait(i) \/ AnswersBlocked(i)
             \/ AnswersScroll(i)
      PROVE  snapshot' = snapshot
  BY <1>3, <1>4, <1>5 DEF GiveUp, Shown, NoCandidate, AnswersWait, AnswersBlocked, AnswersScroll,
                          Continue
<1>6. ASSUME NEW i \in Reqs, ActOnField(i) PROVE snapshot' = snapshot
  BY <1>1, <1>2, <1>6 DEF ActOnField
<1>7. ASSUME NEW i \in Reqs, DatedField(i) \/ AnswersFill(i) \/ AnswersSelect(i)
      PROVE  snapshot' = snapshot
  BY <1>2, <1>4, <1>7 DEF DatedField, AnswersFill, AnswersSelect
<1>8. ASSUME NEW i \in Reqs, AnswersClick(i) \/ AnswersDone(i) PROVE snapshot' = snapshot
  BY <1>2, <1>4, <1>8 DEF AnswersClick, AnswersDone
<1>9. CASE PickSuggestion
  BY <1>1, <1>9 DEF PickSuggestion
<1>10. CASE NoSuggestion \/ PassedOver \/ AskFails
  BY <1>10 DEF NoSuggestion, PassedOver, Continue, AskFails, Unanswered
<1>11. CASE ItemOpened \/ ScrollToItem \/ NothingLeft \/ ReadAsFinished \/ ReadAsResults
  BY <1>1, <1>3, <1>11 DEF ItemOpened, ScrollToItem, NothingLeft, ReadAsFinished, ReadAsResults
<1>12. CASE OperationDone \/ OperationScroll \/ OperationNone
  BY <1>1, <1>12 DEF OperationDone, OperationScroll, OperationNone
<1>13. CASE OperationClick
  BY <1>1, <1>13 DEF OperationClick
<1> QED
  BY <1>5, <1>6, <1>7, <1>8, <1>9, <1>10, <1>11, <1>12, <1>13 DEF PolicyStep

\* Every step of a run that is over is a step that changes nothing.
LEMMA OverIsOver == BrowserNext => doing # "over"
<1>1. CASE Ask
  BY <1>1, PolicyStepsWhenAsked DEF Ask
<1>2. CASE \/ Begin \/ BeginFails \/ OutOfSteps \/ Observe \/ ObserveFails \/ StepFailed
  BY <1>2 DEF Begin, BeginFails, OutOfSteps, Observe, ObserveFails, StepFailed
<1>3. CASE \/ Carried \/ CarriedUnsettled \/ Stale \/ ActFails
           \/ DoneVerified \/ Unverified \/ UnverifiedUnsettled \/ GivesUp
  BY <1>3 DEF Carried, CarriedUnsettled, Stale, ActFails, DoneVerified, Unverified,
              UnverifiedUnsettled, GivesUp, Decided
<1>4. CASE PageMoves \/ ObserveAgain \/ ObserveAgainFails
  BY <1>4 DEF PageMoves, ObserveAgain, ObserveAgainFails, Decided
<1> QED BY <1>1, <1>2, <1>3, <1>4 DEF BrowserNext

\* Every step keeps DoneInv.
LEMMA DoneInvStep == DoneInv /\ [BrowserNext]_browserVars => DoneInv'
<1> SUFFICES ASSUME DoneInv, [BrowserNext]_browserVars PROVE DoneInv'
  OBVIOUS
<1>1. CASE UNCHANGED browserVars
  BY <1>1 DEF DoneInv, Viewing, browserVars, policyVars, tabVars, loopVars, VerifyDone, Titled,
              Open, Finish
<1>2. CASE BrowserNext
  <2>1. ending # "done"
    BY <1>2, OverIsOver DEF DoneInv
  <2>2. ASSUME NEW outcome, NEW told, outcome # "done", Over(outcome, told) PROVE DoneInv'
    BY <2>2 DEF Over, tabVars, DoneInv, Viewing
  <2>3. ASSUME FailsUntold PROVE DoneInv'
    BY <2>2, <2>3 DEF FailsUntold
  <2>4. CASE \/ BeginFails \/ ObserveFails \/ StepFailed \/ CarriedUnsettled \/ ObserveAgainFails
             \/ UnverifiedUnsettled
    BY <2>3, <2>4 DEF BeginFails, ObserveFails, StepFailed, CarriedUnsettled, ObserveAgainFails,
                      UnverifiedUnsettled
  <2>5. CASE OutOfSteps \/ ActFails \/ GivesUp
    BY <2>2, <2>5 DEF OutOfSteps, ActFails, GivesUp, StopsWith
  <2>6. CASE Observe
    <3>1. \/ StopsWith("blocked")
          \/ snapshot' = page /\ shown' = {page} /\ UNCHANGED <<page, ending>>
      BY <2>6 DEF Observe, Looks
    <3> QED BY <2>1, <2>2, <3>1 DEF StopsWith, DoneInv
  <2>7. CASE ObserveAgain
    BY <2>1, <2>7 DEF ObserveAgain, Looks, loopVars, DoneInv
  <2>8. CASE PageMoves
    BY <2>1, <2>8 DEF PageMoves, policyVars, loopVars, DoneInv, Viewing
  <2>9. CASE Ask
    <3>1. doing \in {"suggestions", "requirements"} /\ snapshot' = snapshot
      BY <2>9, PolicyStepsWhenAsked, PolicyLeavesSnapshot DEF Ask
    <3>2. Viewing
      BY <3>1 DEF Viewing
    <3> QED BY <2>1, <2>9, <3>1, <3>2 DEF Ask, tabVars, loopVars, DoneInv
  <2>10. CASE Begin \/ Unverified
    BY <2>1, <2>10 DEF Begin, Unverified, StepEnds, tabVars, loopVars, DoneInv, Viewing
  <2>11. CASE Carried \/ Stale
    BY <2>1, <2>11 DEF Carried, Stale, StepEnds, Acts, DoneInv, Viewing
  <2>12. CASE DoneVerified
    <3>1. VerifyDone(snapshot) /\ snapshot \in shown
      BY <2>12 DEF DoneVerified, Judged, Decided, DoneInv, Viewing
    <3>2. judged' = snapshot /\ doing' = "over" /\ UNCHANGED <<plan, page, shown>>
      BY <2>12 DEF DoneVerified, Judged, tabVars
    <3>3. VerifyDone(judged)'
      BY <3>1, <3>2 DEF VerifyDone, Titled, Open, Finish
    <3> QED BY <3>1, <3>2, <3>3 DEF DoneInv, Viewing
  <2> QED
    BY <1>2, <2>4, <2>5, <2>6, <2>7, <2>8, <2>9, <2>10, <2>11, <2>12 DEF BrowserNext
<1> QED BY <1>1, <1>2

\* A browser run (run_browser_loop) that reports success was judged by a page that says
\* so and that the tab has shown since the loop last looked or acted, whatever the page does
\* by itself or under an action, and whatever System One answers.
THEOREM DoneIsVerifiedHolds == BrowserSpec => []DoneIsVerified
<1>1. BrowserInit => DoneInv
  BY DEF BrowserInit, DoneInv, Viewing
<1>2. DoneInv => DoneIsVerified
  BY DEF DoneInv, DoneIsVerified
<1> QED BY <1>1, <1>2, DoneInvStep, PTL DEF BrowserSpec
-----------------------------------------------------------------------------
\* System One: what a daemon owes when it is asked, stray lines and askers gone explain.

\* A step of the loop gives the daemon nothing and reads nothing from it.
LEMMA LoopOwesNothing ==
  ASSUME OwedInv, Loop, asking.at # "reading",
         (asking' = Silent) \/ Predict \/ (asking' = asking)
  PROVE  OwedInv'
<1>1. CASE asking' = Silent
  BY <1>1 DEF OwedInv, Loop, debts, Silent
<1>2. CASE Predict
  BY <1>2 DEF OwedInv, Loop, debts, Predict, Asking
<1>3. CASE asking' = asking
  BY <1>3 DEF OwedInv, Loop, debts
<1> QED BY <1>1, <1>2, <1>3

\* Every step keeps OwedInv.
LEMMA OwedInvStep == OwedInv /\ [SystemOneNext]_systemOneVars => OwedInv'
<1> SUFFICES ASSUME OwedInv, [SystemOneNext]_systemOneVars PROVE OwedInv'
  OBVIOUS
<1>1. CASE CheckAlive
  BY <1>1 DEF OwedInv, CheckAlive, Client, debts, Becomes
<1>2. CASE PostLost
  BY <1>2 DEF OwedInv, PostLost, Client, debts, Becomes
<1>3. CASE PostFails \/ PostAnswered
  BY <1>3 DEF OwedInv, PostFails, PostAnswered, Client, debts, Becomes
<1>4. CASE EnsureStarted
  BY <1>4 DEF OwedInv, EnsureStarted, Client, debts, Becomes
<1>5. CASE WriteRequest
  BY <1>5 DEF OwedInv, WriteRequest, Client, Becomes
<1>6. CASE PipeBroken
  BY <1>6 DEF OwedInv, PipeBroken, Client, debts, Becomes
<1>7. CASE ReadLine
  BY <1>7 DEF OwedInv, ReadLine, Client, Becomes
<1>20. CASE ReadStray
  BY <1>20 DEF OwedInv, ReadStray, Client, Becomes
<1>8. CASE ReadTimesOut
  BY <1>8 DEF OwedInv, ReadTimesOut, Client, Becomes, Drops
<1>9. CASE ReadClosed
  BY <1>9 DEF OwedInv, ReadClosed, Client, Becomes
<1>10. CASE DaemonDies
  BY <1>10 DEF OwedInv, DaemonDies
<1>11. CASE Interrupts \/ UNCHANGED systemOneVars
  BY <1>11 DEF OwedInv, Interrupts, systemOneVars, client, debts
<1>21. CASE Deserted
  BY <1>21 DEF OwedInv, Deserted, Silent
<1>12. CASE NextSubtask \/ ObserveDesktopFails \/ NextGoal
  BY <1>12, LoopOwesNothing DEF NextSubtask, ObserveDesktopFails, NextGoal, Ready
<1>13. CASE ObserveDesktop
  BY <1>13, LoopOwesNothing DEF ObserveDesktop, Ready
<1>14. CASE Satisfied \/ NoOperation
  BY <1>14, LoopOwesNothing DEF Satisfied, NoOperation, Got
<1>15. CASE NotSatisfied
  BY <1>15, LoopOwesNothing DEF NotSatisfied
<1>16. CASE OpDone \/ OpBlocked \/ OpPlain \/ OpSwitch \/ OpClick \/ OpType \/ OpUnaimedAlone
  <2>1. Operation
    BY <1>16 DEF OpDone, OpBlocked, OpPlain, OpSwitch, OpClick, OpType, OpUnaimedAlone
  <2> QED BY <2>1, LoopOwesNothing DEF Operation, Got
<1>17. CASE OpUnaimed
  BY <1>17, LoopOwesNothing DEF OpUnaimed
<1>18. CASE NextBatch
  BY <1>18, LoopOwesNothing DEF NextBatch
<1>19. CASE Aims
  BY <1>19, LoopOwesNothing DEF Aims
<1> QED
  BY <1>1, <1>2, <1>3, <1>4, <1>5, <1>6, <1>7, <1>8, <1>9, <1>10, <1>11, <1>12, <1>13,
     <1>14, <1>15, <1>16, <1>17, <1>18, <1>19, <1>20, <1>21 DEF SystemOneNext, ClientStep

\* Whoever asks the daemon (bridge.rs) asks one that owes exactly the answers its stray
\* lines and the askers that left made it owe: no timeout, error or restart adds one, and
\* without those the line read next is the answer to the question asked.
THEOREM NoAnswerOwedHolds == SystemOneSpec => []NoAnswerOwed
<1>1. SystemOneInit => OwedInv
  BY DEF SystemOneInit, OwedInv, Silent
<1>2. OwedInv => NoAnswerOwed
  BY DEF OwedInv, NoAnswerOwed
<1> QED BY <1>1, <1>2, OwedInvStep, PTL DEF SystemOneSpec
-----------------------------------------------------------------------------
\* The tool catalog: what is given as fresh is recent.

\* A step of one start, or of the files, within the hour.
LEMMA WithinTheHour ==
  ASSUME GivenInv, NEW p \in Starters, NEW s \in StartState, Goes(p, s), UNCHANGED world,
         GivenIn(s), defs' \in DefsFile, saved' \in SavedFile, AtMostGiven(defs')
  PROVE  GivenInv'
<1>1. \A q \in Starters : start'[q] = IF q = p THEN s ELSE start[q]
  BY DEF Goes, GivenInv, StartsTypeOK
<1>2. hour' = hour /\ release' = release /\ start' \in [Starters -> StartState]
  BY DEF Goes, world, GivenInv, StartsTypeOK
<1>3. \A q \in Starters : GivenIn(start'[q])
  BY <1>1 DEF GivenInv
<1>4. \A q \in Starters : GivenIn(start[q])'
  BY <1>2, <1>3 DEF GivenIn, AtMostGiven
<1> QED BY <1>2, <1>4 DEF GivenInv, StartsTypeOK, AtMostGiven

\* No file, and a torn one, are files.
LEMMA NoFileTyped == NoFile \in DefsFile /\ AtMostGiven(NoFile) /\ [NoFile EXCEPT !.is = "torn"] \in DefsFile
                     /\ AtMostGiven([NoFile EXCEPT !.is = "torn"])
  BY DEF NoFile, DefsFile, AtMostGiven, HyprLists, ExtraLists

\* A program not started was given nothing.
LEMMA OffTyped == Off \in StartState /\ GivenIn(Off)
  BY NoFileTyped DEF Off, StartState, GivenIn, HyprLists, ExtraLists

\* A start that goes on keeps what it was given.
LEMMA AtOnly ==
  ASSUME NEW s \in StartState,
         NEW a \in {"off", "asking", "storing", "writing_defs", "keeping", "writing_catalog", "lost", "up", "bare"}
  PROVE  LET r == [s EXCEPT !.at = a] IN
         r \in StartState /\ r.at = a /\ r.cache = s.cache /\ r.given = s.given /\ r.from = s.from
  BY DEF StartState

\* What a start offers is typed.
LEMMA EquippedTyped ==
  ASSUME NEW s, s.hypr \in HyprLists, s.extra \in ExtraLists
  PROVE  Equipped(s) \in StartState /\ GivenIn(Equipped(s))
<1>1. Equipped(s) \in StartState
  BY NoFileTyped DEF Equipped, Off, StartState, HyprLists, ExtraLists
<1>2. Equipped(s).at = "up" /\ Equipped(s).cache = NoFile
  BY DEF Equipped, Off
<1> QED BY <1>1, <1>2, NoFileTyped DEF GivenIn

\* Every step keeps GivenInv.
LEMMA GivenInvStep == GivenInv /\ [CatalogNext]_catalogVars => GivenInv'
<1> USE CatalogAssumption
<1> SUFFICES ASSUME GivenInv, [CatalogNext]_catalogVars PROVE GivenInv'
  OBVIOUS
<1>t. /\ hour \in Nat /\ release \in Releases /\ defs \in DefsFile /\ saved \in SavedFile
      /\ AtMostGiven(defs) /\ \A p \in Starters : start[p] \in StartState /\ GivenIn(start[p])
  BY DEF GivenInv, StartsTypeOK
<1>k. Ttl \in Nat
  OBVIOUS
<1>1. CASE Tick
  <2>1. hour' = hour + 1 /\ release' \in Releases /\ UNCHANGED <<defs, saved, start>>
        /\ \A p \in Starters : start[p].at \in {"off", "up", "bare"}
    BY <1>1 DEF Tick, files
  <2>2. ASSUME NEW p \in Starters PROVE GivenIn(start[p])'
    BY <1>t, <2>1 DEF GivenIn, AtMostGiven
  <2> QED BY <1>t, <2>1, <2>2 DEF GivenInv, StartsTypeOK, AtMostGiven
<1>2. ASSUME NEW p \in Starters, AskServers(p) PROVE GivenInv'
  <2> DEFINE cache == IF defs.is = "whole" THEN defs ELSE NoFile
             s == [Off EXCEPT !.at = "asking", !.cache = cache]
  <2>1. cache \in DefsFile /\ AtMostGiven(cache)
    BY <1>t, NoFileTyped
  <2> HIDE DEF cache
  <2>2. s \in StartState
    BY <2>1 DEF Off, StartState, HyprLists, ExtraLists
  <2>5. s.at = "asking" /\ s.cache = cache
    BY DEF Off
  <2> HIDE DEF s
  <2>3. GivenIn(s)
    BY <2>1, <2>5 DEF GivenIn
  <2>4. Goes(p, s) /\ UNCHANGED <<world, files>>
    BY <1>2 DEF AskServers, cache, s
  <2> QED BY <1>t, <2>2, <2>3, <2>4, WithinTheHour DEF files
<1>3. ASSUME NEW p \in Starters, NEW h \in HyprFor(p), NEW x \in ExtraFor(p), Discover(p, h, x)
      PROVE  GivenInv'
  <2> DEFINE c == start[p].cache
             a == IF h = "none" THEN "lost" ELSE IF Stores(p, x.from) THEN "storing" ELSE "keeping"
             s == [Off EXCEPT !.at = a, !.hypr = h, !.extra = x.list, !.given = x.given, !.from = x.from]
  <2>1. c \in DefsFile /\ AtMostGiven(c)
    BY <1>t DEF StartState, GivenIn
  <2>2. h \in HyprLists
    BY <1>t, <2>1 DEF HyprFor, DefsFile, HyprLists
  <2>3. /\ x.list \in ExtraLists /\ x.given \in Nat /\ x.from \in {"off", "failed", "fresh", "live"}
        /\ x.from = "live" => x.given = hour
        /\ x.from = "fresh" => hour - x.given <= Ttl
    <3>1. CASE p \in Disabled
      <4>1. x = [list |-> "none", given |-> hour, from |-> "off"]
        BY <3>1 DEF ExtraFor
      <4> QED BY <4>1, <1>t DEF ExtraLists
    <3>2. CASE p \notin Disabled /\ Fresh(c) /\ ToolsOn[c.extra] # {}
      <4>1. x = [list |-> c.extra, given |-> c.given, from |-> "fresh"]
        BY <3>2 DEF ExtraFor
      <4>2. hour - c.at <= Ttl /\ c.at <= c.given
        BY <3>2, <2>1 DEF Fresh, AtMostGiven
      <4> HIDE DEF c
      <4> QED BY <1>t, <1>k, <2>1, <4>1, <4>2 DEF DefsFile
    <3>3. CASE p \notin Disabled /\ ~(Fresh(c) /\ ToolsOn[c.extra] # {})
      <4>1. \/ x = [list |-> c.extra, given |-> c.given, from |-> "failed"]
            \/ \E e \in Extras : x = [list |-> e, given |-> hour, from |-> "live"]
        BY <3>3 DEF ExtraFor
      <4> HIDE DEF c
      <4> QED BY <1>t, <2>1, <4>1 DEF DefsFile, ExtraLists
    <3> QED BY <3>1, <3>2, <3>3
  <2>4. a \in {"lost", "storing", "keeping"} /\ (a = "storing" => x.from = "live")
    BY DEF Stores
  <2> HIDE DEF a
  <2>5. s \in StartState
    BY <2>2, <2>3, <2>4, NoFileTyped DEF Off, StartState
  <2>6. s.at = a /\ s.cache = NoFile /\ s.given = x.given /\ s.from = x.from
    BY DEF Off
  <2> HIDE DEF s
  <2>7. GivenIn(s)
    BY <2>3, <2>4, <2>6, NoFileTyped DEF GivenIn
  <2>8. Goes(p, s) /\ UNCHANGED <<world, files>>
    BY <1>3 DEF Discover, s, a
  <2> QED BY <1>t, <2>5, <2>7, <2>8, WithinTheHour DEF files
<1>4. ASSUME NEW p \in Starters, NEW a \in {"storing", "writing_defs", "keeping", "writing_catalog"},
             a \in {"storing", "writing_defs"} => start[p].at \in {"storing", "writing_defs"},
             start[p].at \in {"storing", "writing_defs", "keeping", "writing_catalog"},
             Goes(p, [start[p] EXCEPT !.at = a]), UNCHANGED world,
             defs' \in DefsFile, saved' \in SavedFile, AtMostGiven(defs')
      PROVE  GivenInv'
  <2> DEFINE s == [start[p] EXCEPT !.at = a]
  <2>1. s \in StartState /\ s.at = a /\ s.cache = start[p].cache /\ s.given = start[p].given /\ s.from = start[p].from
    BY <1>t DEF StartState
  <2>2. GivenIn(start[p]) /\ Goes(p, s)
    BY <1>t, <1>4
  <2> HIDE DEF s
  <2>3. GivenIn(s)
    BY <1>4, <2>1, <2>2 DEF GivenIn
  <2> QED BY <1>4, <2>1, <2>2, <2>3, WithinTheHour
<1>5. ASSUME NEW p \in Starters, EmptyDefs(p) PROVE GivenInv'
  BY <1>t, <1>4, <1>5, NoFileTyped DEF EmptyDefs
<1>6. ASSUME NEW p \in Starters, WriteDefs(p) PROVE GivenInv'
  <2>1. start[p] \in StartState /\ start[p].given = hour
    BY <1>t, <1>6 DEF WriteDefs, GivenIn
  <2>2. \/ defs' = [is |-> "whole", at |-> hour, hypr |-> start[p].hypr, extra |-> start[p].extra,
                   given |-> start[p].given]
        \/ defs' = [NoFile EXCEPT !.is = "torn"]
    BY <1>6 DEF WriteDefs
  <2>3. defs' \in DefsFile /\ AtMostGiven(defs')
    BY <1>t, <2>1, <2>2, NoFileTyped DEF DefsFile, AtMostGiven, StartState
  <2> QED BY <1>t, <1>4, <1>6, <2>3 DEF WriteDefs
<1>7. ASSUME NEW p \in Starters, EmptySaved(p) PROVE GivenInv'
  <2>1. saved' \in SavedFile
    BY <1>7 DEF EmptySaved, NoSave, SavedFile, HyprLists, ExtraLists
  <2> QED BY <1>t, <1>4, <1>7, <2>1 DEF EmptySaved
<1>8. ASSUME NEW p \in Starters, NEW s, s.hypr \in HyprLists, s.extra \in ExtraLists, Goes(p, Equipped(s)),
             UNCHANGED <<world, defs>>, saved' \in SavedFile
      PROVE  GivenInv'
  BY <1>t, <1>8, EquippedTyped, WithinTheHour
<1>9. ASSUME NEW p \in Starters, WriteSaved(p) PROVE GivenInv'
  <2>1. start[p].hypr \in HyprLists /\ start[p].extra \in ExtraLists
    BY <1>t DEF StartState
  <2>2. saved' \in SavedFile
    BY <1>9, <2>1 DEF WriteSaved, NoSave, SavedFile, HyprLists, ExtraLists
  <2> QED BY <1>8, <1>9, <2>1, <2>2 DEF WriteSaved
<1>10. ASSUME NEW p \in Starters, Unwritable(p) PROVE GivenInv'
  <2>1. start[p].hypr \in HyprLists /\ start[p].extra \in ExtraLists
    BY <1>t DEF StartState
  <2>2. CASE start[p].at \in {"storing", "writing_defs"}
    BY <1>t, <1>4, <1>10, <2>2 DEF Unwritable, files
  <2>3. CASE start[p].at \notin {"storing", "writing_defs"}
    BY <1>t, <1>8, <1>10, <2>1, <2>3 DEF Unwritable, files
  <2> QED BY <2>2, <2>3
<1>11. ASSUME NEW p \in Starters, Goes(p, Off), UNCHANGED <<world, files>> PROVE GivenInv'
  BY <1>t, <1>11, OffTyped, WithinTheHour DEF files
<1>12. ASSUME NEW p \in Starters, Recall(p) PROVE GivenInv'
  <2>1. CASE saved.is = "whole"
    <3>1. saved.hypr \in HyprLists /\ saved.extra \in ExtraLists
      BY <1>t DEF SavedFile
    <3> QED BY <1>t, <1>8, <1>12, <2>1, <3>1 DEF Recall, files
  <2>2. CASE saved.is # "whole"
    <3> DEFINE s == [Off EXCEPT !.at = "bare"]
    <3>1. s \in StartState /\ s.at = "bare" /\ s.cache = NoFile
      BY OffTyped, AtOnly DEF Off
    <3>2. Goes(p, s) /\ UNCHANGED <<world, files>>
      BY <1>12, <2>2 DEF Recall
    <3> HIDE DEF s
    <3>3. GivenIn(s)
      BY <3>1, NoFileTyped DEF GivenIn
    <3> QED BY <1>t, <3>1, <3>2, <3>3, WithinTheHour DEF files
  <2> QED BY <2>1, <2>2
<1>13. ASSUME NEW p \in Starters, Quit(p) \/ StartCrash(p) PROVE GivenInv'
  BY <1>11, <1>13 DEF Quit, StartCrash
<1>14. CASE UNCHANGED catalogVars
  <2>1. UNCHANGED <<hour, release, defs, saved, start>>
    BY <1>14 DEF catalogVars
  <2> QED BY <2>1 DEF GivenInv, StartsTypeOK, GivenIn, AtMostGiven
<1> QED BY <1>1, <1>2, <1>3, <1>5, <1>6, <1>7, <1>9, <1>10, <1>12, <1>13, <1>14 DEF CatalogNext

\* GivenInv holds throughout.
LEMMA GivenAlways == CatalogSpec => []GivenInv
<1>1. CatalogInit => GivenInv
  <2> SUFFICES ASSUME CatalogInit PROVE GivenInv
    OBVIOUS
  <2>1. saved \in SavedFile
    BY DEF CatalogInit, NoSave, SavedFile, HyprLists, ExtraLists
  <2>2. start = [p \in Starters |-> Off] /\ defs = NoFile /\ hour = 0 /\ release \in Releases
    BY DEF CatalogInit
  <2>3. \A p \in Starters : GivenIn(start[p])
    BY <2>2, OffTyped
  <2> QED BY <2>1, <2>2, <2>3, OffTyped, NoFileTyped DEF GivenInv, StartsTypeOK
<1> QED BY <1>1, GivenInvStep, PTL DEF CatalogSpec

\* Definitions that a start takes for fresh (load_cached_defs, the time-to-live of
\* the tool cache) are no older than they may be, whichever starts failed, fell
\* back, were cut off or wrote over each other before.
THEOREM FreshIsRecentHolds == CatalogSpec => []FreshIsRecent
<1>1. GivenInv => FreshIsRecent
  <2> SUFFICES ASSUME GivenInv, NEW p \in Starters, start[p].from = "fresh",
                      start[p].at \in {"storing", "writing_defs", "keeping", "writing_catalog"}
               PROVE  hour - start[p].given <= Ttl
    BY DEF FreshIsRecent
  <2> QED BY DEF GivenInv, GivenIn
<1> QED BY <1>1, GivenAlways, PTL
-----------------------------------------------------------------------------
\* The tool catalog: what is offered serves a plan.

\* Where some tool to look with is not hidden, nothing hidden is offered after all,
\* and that tool is.
LEMMA NothingBroughtBack ==
  ASSUME NEW tools, NEW ready \in BOOLEAN, NEW t \in tools,
         Observes(t), ~Removed(t), ~Addressed(t), ~Reopens(t, ready)
  PROVE  Offer(tools, ready) = Unhidden(tools, ready) /\ t \in Unhidden(tools, ready)
<1>1. ~Covered(t)
  BY DEF Covered
<1>2. t \in Unhidden(tools, ready)
  BY <1>1 DEF Unhidden
<1> HIDE DEF Unhidden
<1> QED BY <1>2 DEF Offer

\* A tool that finds its element itself is hidden from no plan.
LEMMA ResolverKept ==
  ASSUME NEW tools, NEW ready \in BOOLEAN, NEW t \in tools,
         Resolves(t), Core(t), ~Launches(t), ~Addressed(t)
  PROVE  t \in Unhidden(tools, ready)
<1>1. ~Removed(t)
  BY DEF Resolves
<1>2. ~Reopens(t, ready)
  BY DEF Reopens
<1>3. ~Covered(t)
  BY DEF Covered
<1> QED BY <1>1, <1>2, <1>3 DEF Unhidden

\* Giving a tool of computer use its longer name makes no resolver of it.
LEMMA MergedResolvesNot ==
  ASSUME NEW t \in [name : STRING, parts : SUBSET STRING, words : SUBSET STRING], ~Resolves(t)
  PROVE  ~Resolves(Merged(t))
<1>1. Merged(t).name = t.name /\ Merged(t).parts = t.parts
  BY DEF Merged
<1> QED BY <1>1 DEF Resolves, Removed, Named

\* Every resolver a start has is one of hyprfast's.
LEMMA ResolversAreNative ==
  ASSUME NEW s, s.hypr \in HyprLists, s.extra \in ExtraLists, NEW t \in Tools(s), Resolves(t)
  PROVE  Core(t) /\ ~Launches(t) /\ ~Addressed(t)
<1>1. CASE t \in ToolsOn[s.hypr]
  <2>1. s.hypr \in Releases
    BY <1>1, CatalogAssumption DEF HyprLists
  <2> QED BY <1>1, <2>1, ResolversAssumption
<1>2. CASE t \notin ToolsOn[s.hypr]
  <2>1. PICK u \in ToolsOn[s.extra] : t = Merged(u)
    BY <1>2 DEF Tools
  <2>2. s.extra \in Extras
    BY <2>1, CatalogAssumption DEF ExtraLists
  <2>3. u \in [name : STRING, parts : SUBSET STRING, words : SUBSET STRING] /\ ~Resolves(u)
    BY <2>1, <2>2, ResolversAssumption
  <2> QED BY <2>1, <2>3, MergedResolvesNot
<1> QED BY <1>1, <1>2

\* A blind plan is offered what serves it (planner_tool_set), from whichever source
\* the tools of its start came - the servers, the cached definitions or the saved
\* catalog - whatever lists of tools hyprfast and computer use give, as long as the
\* resolvers go by the planner's own names.
THEOREM OfferServesHolds == CatalogSpec => []OfferServes
<1>1. GivenInv => OfferServes
  <2> SUFFICES ASSUME GivenInv, NEW p \in Starters, NEW ready \in BOOLEAN,
                      NEW t \in Tools(start[p]),
                      Observes(t), ~Removed(t), ~Addressed(t), ~Reopens(t, ready)
               PROVE  LET tools == Tools(start[p])
                          served == Offer(tools, ready)
                      IN  /\ \E u \in served : Observes(u)
                          /\ ~\E u \in served : Removed(u)
                          /\ (\E u \in tools : Resolves(u)) =>
                               (\E u \in served : Resolves(u)) /\ ~\E u \in served : Addressed(u)
    BY DEF OfferServes
  <2> DEFINE tools == Tools(start[p])
             served == Offer(tools, ready)
  <2>1. start[p].hypr \in HyprLists /\ start[p].extra \in ExtraLists
    BY DEF GivenInv, StartsTypeOK, StartState
  <2>2. \A u \in tools : Resolves(u) => Core(u) /\ ~Launches(u) /\ ~Addressed(u)
    BY <2>1, ResolversAreNative
  <2> HIDE DEF tools
  <2>3. t \in tools
    BY DEF tools
  <2>4. served = Unhidden(tools, ready) /\ t \in served
    BY <2>3, NothingBroughtBack
  <2> HIDE DEF served
  <2>5. ~\E u \in served : Removed(u)
    BY <2>4 DEF Unhidden
  <2>6. ASSUME NEW u \in tools, Resolves(u)
        PROVE  u \in served /\ ~\E v \in served : Addressed(v)
    <3>1. u \in served
      BY <2>2, <2>4, <2>6, ResolverKept
    <3>2. ~\E v \in served : Addressed(v)
      BY <2>4, <2>6 DEF Unhidden
    <3> QED BY <3>1, <3>2
  <2> QED BY <2>4, <2>5, <2>6 DEF tools, served
<1> QED BY <1>1, GivenAlways, PTL
=============================================================================
