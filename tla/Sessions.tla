------------------------------ MODULE Sessions ------------------------------
(***************************************************************************)
(* The conversation of lucy-runtime: the live session behind its mutex, the *)
(* session store of lucy-adk it shadows, and the turns, session commands    *)
(* and compactions that interleave at their awaits                          *)
(* (crates/lucy-runtime/src/sessions.rs and lib.rs, crates/lucy-adk/src/    *)
(* session.rs and compaction.rs).  The store keeps every event; the live    *)
(* session is what the model is shown, trimmed or summarised.  Titles are   *)
(* left out, and with them rename_current.                                  *)
(***************************************************************************)
EXTENDS Integers, Sequences, SequencesExt

CONSTANTS Ids,         \* session ids; an id is drawn fresh for a new session
          Prompts,     \* turns to be taken
          LegacyId,    \* the id in the legacy session file
          LegacyTurns, \* and its turns
          MaxHistory,  \* sessions.max_history
          Keep,        \* DEFAULT_KEEP_TURNS
          AutoCompact, \* whether auto_compact is on
          MaxFaults,   \* bound on failed store writes and on crashes
          MaxCommands  \* bound on session commands

ASSUME SessionsAssumption ==
  /\ LegacyId \in Ids /\ LegacyTurns \in Seq(ToSet(LegacyTurns))
  /\ MaxHistory \in Nat \ {0} /\ Keep \in Nat
  /\ MaxFaults \in Nat /\ MaxCommands \in Nat
  /\ AutoCompact \in BOOLEAN

Said(p, who) == [of |-> p, by |-> who]
Summary      == [of |-> "older turns", by |-> "summary"]
NoData       == [id |-> "none", hist |-> << >>]
NoCommand    == [op |-> "none"]

VARIABLES store,   \* the session service: id -> its log
          live,    \* the runtime's session: id and history
          turn,    \* each prompt: where it is, and the session its save is for
          command, \* the session command (or the import) in hand
          process, \* "down", "starting", "up"
          used,    \* ids drawn so far
          refused, \* turns whose append failed, with their session
          faults, commands

sessionsVars == <<store, live, turn, command, process, used, refused, faults, commands>>

SessionsInit ==
  /\ store = << >> /\ live = NoData
  /\ turn = [p \in Prompts |-> [at |-> "new", owner |-> "none"]]
  /\ command = NoCommand /\ process = "down"
  /\ used = {} /\ refused = {} /\ faults = 0 /\ commands = 0

----------------------------------------------------------------------------
(* The store *)

Stored         == DOMAIN store
Written(id, s) == [i \in Stored \cup {id} |-> IF i = id THEN s ELSE store[i]]
Without(id)    == [i \in Stored \ {id} |-> store[i]]
Logged(id, t)  == [store EXCEPT ![id] = Append(@, t)]
Loaded(id)     == [id |-> id, hist |-> store[id]]
Fresh          == Ids \ (used \cup {LegacyId})
Fails          == faults < MaxFaults /\ faults' = faults + 1

\* trim_history: the newest turns, and the user turn that opens the session.
Trim(h, max) ==
  IF Len(h) <= max THEN h
  ELSE IF h[1].by = "user" THEN <<h[1]>> \o SubSeq(h, Len(h) - max + 2, Len(h))
  ELSE SubSeq(h, Len(h) - max + 1, Len(h))

\* apply_compaction: all but the newest `Keep` turns become one summary turn.
Compacted(h) == <<Summary>> \o SubSeq(h, Len(h) - Min({Keep, Len(h)}) + 1, Len(h))

----------------------------------------------------------------------------
(* Turns: save_user_message, the model's answer, save_assistant_text,       *)
(* auto_compact_if_needed                                                   *)

Up(p, at) == process = "up" /\ turn[p].at = at

\* Under the mutex: the push and the trim.  The session appended to
\* is the one that was live here.
SaveUser(p) ==
  /\ Up(p, "new")
  /\ live' = [live EXCEPT !.hist = Trim(Append(@, Said(p, "user")), MaxHistory)]
  /\ turn' = [turn EXCEPT ![p] = [at |-> "asking", owner |-> live.id]]
  /\ UNCHANGED <<store, command, process, used, refused, faults, commands>>

\* Slip: the reply is logged where its question was.
SaveReplyToAsker(p) ==
  /\ Up(p, "asked")
  /\ live' = [live EXCEPT !.hist = Trim(Append(@, Said(p, "lucy")), MaxHistory)]
  /\ turn' = [turn EXCEPT ![p].at = "answering"]
  /\ UNCHANGED <<store, command, process, used, refused, faults, commands>>

SaveReply(p) ==
  /\ Up(p, "asked")
  /\ live' = [live EXCEPT !.hist = Trim(Append(@, Said(p, "lucy")), MaxHistory)]
  /\ turn' = [turn EXCEPT ![p] = [at |-> "answering", owner |-> live.id]]
  /\ UNCHANGED <<store, command, process, used, refused, faults, commands>>

Pending(p) == IF turn[p].at = "asking" THEN Said(p, "user") ELSE Said(p, "lucy")
Saving(p)  == turn[p].at \in {"asking", "answering"}

\* save_event, outside the mutex; a failure is dropped.
AppendEvent(p) ==
  /\ process = "up" /\ Saving(p)
  /\ \/ /\ turn[p].owner \in Stored
        /\ store' = Logged(turn[p].owner, Pending(p))
        /\ UNCHANGED <<refused, faults>>
     \/ /\ IF turn[p].owner \in Stored THEN Fails ELSE UNCHANGED faults
        /\ refused' = refused \cup {<<turn[p].owner, Pending(p)>>}
        /\ UNCHANGED store
  /\ turn' = [turn EXCEPT ![p].at = IF @ = "asking" THEN "asked" ELSE "answered"]
  /\ UNCHANGED <<live, command, process, used, commands>>

\* The snapshot is taken, found short enough or sent to the summariser.
AutoCompactStart(p) ==
  /\ Up(p, "answered")
  /\ turn' = [turn EXCEPT ![p].at =
                IF AutoCompact /\ Len(live.hist) > MaxHistory THEN "summarising" ELSE "done"]
  /\ UNCHANGED <<store, live, command, process, used, refused, faults, commands>>

\* The summary is applied to the session that is live now; without one the
\* history is trimmed.
AutoCompactEnd(p) ==
  /\ Up(p, "summarising")
  /\ \E h \in {Compacted(live.hist), Trim(live.hist, MaxHistory)} :
       live' = [live EXCEPT !.hist = h]
  /\ turn' = [turn EXCEPT ![p].at = "done"]
  /\ UNCHANGED <<store, command, process, used, refused, faults, commands>>

----------------------------------------------------------------------------
(* Session commands, one in hand at a time.  Each ends by installing a      *)
(* session it has loaded or made as the live one.                           *)

Ready == /\ process = "up" /\ command = NoCommand
         /\ commands < MaxCommands /\ commands' = commands + 1

Hold(data) == command' = [op |-> "install", data |-> data]

Create(id) == used' = used \cup {id} /\ store' = Written(id, << >>)

NewSession ==
  /\ Ready
  /\ \E id \in Fresh : Create(id) /\ Hold([NoData EXCEPT !.id = id])
  /\ UNCHANGED <<live, turn, process, refused, faults>>

SwitchSession(id) ==
  /\ Ready /\ id \in Stored
  /\ Hold(Loaded(id))
  /\ UNCHANGED <<store, live, turn, process, used, refused, faults>>

Install ==
  /\ process = "up" /\ command.op = "install"
  /\ live' = command.data /\ command' = NoCommand
  /\ UNCHANGED <<store, turn, process, used, refused, faults, commands>>

DeleteSession(id) ==
  /\ Ready /\ id \in Stored
  /\ store' = Without(id)
  /\ command' = IF id = live.id THEN [op |-> "pick"] ELSE NoCommand
  /\ UNCHANGED <<live, turn, process, used, refused, faults>>

\* The live session was deleted: the first of the rest, or a new one.
PickNext ==
  /\ process = "up" /\ command.op = "pick"
  /\ \/ Stored # {} /\ \E id \in Stored : Hold(Loaded(id)) /\ UNCHANGED <<store, used>>
     \/ Stored = {} /\ \E id \in Fresh : Create(id) /\ Hold([NoData EXCEPT !.id = id])
  /\ UNCHANGED <<live, turn, process, refused, faults, commands>>

\* clear: delete, then create under the same id.
ClearDelete ==
  /\ Ready /\ live.id \in Stored
  /\ store' = Without(live.id)
  /\ command' = [op |-> "clear", id |-> live.id]
  /\ UNCHANGED <<live, turn, process, used, refused, faults>>

ClearCreate ==
  /\ process = "up" /\ command.op = "clear"
  /\ \/ /\ Create(command.id)
        /\ Hold([NoData EXCEPT !.id = command.id])
        /\ UNCHANGED faults
     \/ Fails /\ command' = NoCommand /\ UNCHANGED <<store, used>>
  /\ UNCHANGED <<live, turn, process, refused, commands>>

\* fork: create, read the source's events, append each, load the result.
ForkCreate ==
  /\ Ready
  /\ \E id \in Fresh :
       /\ Create(id)
       /\ command' = [op |-> "fork", from |-> live.id, to |-> id]
  /\ UNCHANGED <<live, turn, process, refused, faults>>

ForkRead ==
  /\ process = "up" /\ command.op = "fork"
  /\ command' = IF command.from \notin Stored THEN NoCommand
                ELSE [op |-> "copy", to |-> command.to, rest |-> store[command.from]]
  /\ UNCHANGED <<store, live, turn, process, used, refused, faults, commands>>

\* One event is copied; a failure ends the command and leaves what was copied.
\* The import of the legacy file copies the same way.
CopyEvent ==
  /\ command.op = "copy" /\ command.rest # << >>
  /\ \/ /\ store' = Logged(command.to, Head(command.rest))
        /\ command' = [command EXCEPT !.rest = Tail(@)]
        /\ UNCHANGED faults
     \/ Fails /\ command' = NoCommand /\ UNCHANGED store
  /\ UNCHANGED <<live, turn, process, used, refused, commands>>

ForkEnds ==
  /\ process = "up" /\ command.op = "copy" /\ command.rest = << >>
  /\ Hold(Loaded(command.to))
  /\ UNCHANGED <<store, live, turn, process, used, refused, faults, commands>>

\* compact and compact_current only trim.
Compact ==
  /\ Ready
  /\ \E max \in {Keep + 1, MaxHistory} : live' = [live EXCEPT !.hist = Trim(@, max)]
  /\ UNCHANGED <<store, turn, command, process, used, refused, faults>>

----------------------------------------------------------------------------
(* Crash and start *)

Crash ==
  /\ process # "down" /\ Fails
  /\ process' = "down" /\ live' = NoData /\ command' = NoCommand
  /\ turn' = [p \in Prompts |-> IF turn[p].at = "new" THEN turn[p]
                                ELSE [at |-> "done", owner |-> "none"]]
  /\ UNCHANGED <<store, used, refused, commands>>

\* LucyRuntime::new: the legacy file is imported into an empty store.
Start ==
  /\ process = "down" /\ process' = "starting"
  /\ IF Stored = {}
     THEN /\ Create(LegacyId)
          /\ command' = [op |-> "copy", to |-> LegacyId, rest |-> LegacyTurns]
     ELSE UNCHANGED <<store, command, used>>
  /\ UNCHANGED <<live, turn, refused, faults, commands>>

\* ensure_current: resume the first listed session, or begin a new one.
EnsureCurrent ==
  /\ process = "starting" /\ (command.op = "copy" => command.rest = << >>)
  /\ process' = "up" /\ command' = NoCommand
  /\ \/ \E id \in Stored : live' = Loaded(id) /\ UNCHANGED <<store, used>>
     \/ \E id \in Fresh : Create(id) /\ live' = [NoData EXCEPT !.id = id]
  /\ UNCHANGED <<turn, refused, faults, commands>>

SessionsNext ==
  \/ \E p \in Prompts : \/ SaveUser(p) \/ SaveReply(p) \/ AppendEvent(p)
                        \/ AutoCompactStart(p) \/ AutoCompactEnd(p)
  \/ \E id \in Ids : SwitchSession(id) \/ DeleteSession(id)
  \/ NewSession \/ Install \/ PickNext \/ ClearDelete \/ ClearCreate
  \/ ForkCreate \/ ForkRead \/ CopyEvent \/ ForkEnds \/ Compact
  \/ Crash \/ Start \/ EnsureCurrent

SessionsSpec == SessionsInit /\ [][SessionsNext]_sessionsVars

----------------------------------------------------------------------------
\* compaction.rs: only the runtime context is compacted, "so a compacted
\* session can still be audited in full".  Every turn the model is shown is in
\* the log of the session it is shown as part of, unless its append is still
\* to come or was refused, or the session is just being cleared or is gone.
InLog(id, t) ==
  \/ Contains(store[id], t)
  \/ \E p \in Prompts : Saving(p) /\ turn[p].owner = id /\ Pending(p) = t
  \/ <<id, t>> \in refused

Replacing(id) == command.op = "install" /\ command.data.id = id

OnRecord(data) ==
  data.id \in Stored =>
    \A i \in DOMAIN data.hist : data.hist[i].by = "summary" \/ InLog(data.id, data.hist[i])

LiveIsLogged == ~Replacing(live.id) => OnRecord(live)

\* What is behind it: no id is drawn twice, so that a log begins empty under an
\* id nobody shows, and what a command is about to install is on record as well.
Turns == {Said(p, who) : p \in Prompts, who \in {"user", "lucy"}} \cup {Summary} \cup ToSet(LegacyTurns)
Session == [id : Ids \cup {"none"}, hist : Seq(Turns)]
Progress == [at : {"new", "asking", "asked", "answering", "answered", "summarising", "done"},
             owner : Ids \cup {"none"}]
Command ==
  {NoCommand, [op |-> "pick"]} \cup [op : {"install"}, data : Session] \cup [op : {"clear"}, id : Ids]
    \cup [op : {"fork"}, from : Ids, to : Ids] \cup [op : {"copy"}, to : Ids, rest : Seq(Turns)]
RecordTypeOK ==
  /\ used \subseteq Ids /\ Stored \subseteq used
  /\ store \in [Stored -> Seq(Turns)] /\ live \in Session /\ command \in Command
  /\ turn \in [Prompts -> Progress]
  /\ process = "up" => live.id \in used
  /\ process # "up" => live = NoData
  /\ command.op = "install" => command.data.id \in used
  /\ command.op \in {"fork", "copy"} => command.to \in Stored
RecordInv ==
  /\ RecordTypeOK
  /\ command.op = "install" => OnRecord(command.data)
  /\ LiveIsLogged
=============================================================================
