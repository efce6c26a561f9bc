------------------------------ MODULE McpClient ------------------------------
(***************************************************************************)
(* lucy-mcp's client (crates/lucy-mcp/src/lib.rs): one server process,      *)
(* started by the first call that needs it, shared by all, and thrown away  *)
(* by the first call it fails.  A call takes the session's lock twice: in   *)
(* ensure_connected and, having let it go, in request.  The server is the   *)
(* environment: it answers in any order, talks unasked, and dies.           *)
(***************************************************************************)
EXTENDS Integers, Sequences, FiniteSets

CONSTANTS Callers,
          MaxIds,     \* bound on the requests written
          MaxTalk,    \* bound on the lines a server writes unasked
          MaxAborts   \* bound on the calls dropped by their caller

ASSUME McpAssumption == {MaxIds, MaxTalk, MaxAborts} \subseteq Nat /\ "nobody" \notin Callers

NoServer == 0

VARIABLES holder,   \* who holds the session's lock, or "nobody"
          session,  \* the server in the session: its number, or NoServer
          servers,  \* servers that run
          started,  \* servers started
          nextId,
          asked,    \* asked[s]: ids of requests s has not answered
          pipe,     \* pipe[s]: the lines s has written and nobody has read
          call,     \* each caller: where it is, the id it waits for, the server it starts
          got,      \* answers handed out: [caller, id asked, id answered]
          talked, aborts
mcpVars == <<holder, session, servers, started, nextId, asked, pipe, call, got, talked, aborts>>

Idle == [at |-> "idle", id |-> 0, server |-> NoServer]
CallPlaces == {"idle", "connect", "init", "request", "reading"}
CallState == [at : CallPlaces, id : Nat, server : Nat]
Line(id, ok) == [id |-> id, ok |-> ok]
Talk    == Line(0, TRUE)          \* a notification
Garbage == Line(0, FALSE)         \* no JSON, or the rest of a line half read

McpInit ==
  /\ holder = "nobody" /\ session = NoServer /\ servers = {} /\ started = 0 /\ nextId = 1
  /\ asked = << >> /\ pipe = << >> /\ call = [c \in Callers |-> Idle] /\ got = {}
  /\ talked = 0 /\ aborts = 0

At(c, place) == call[c].at = place
Moves(c, place) == call' = [call EXCEPT ![c].at = place]
Returns(c) == call' = [call EXCEPT ![c] = Idle]
Counted == UNCHANGED <<talked, aborts>>

\* A call wants the session.
Asks(c) ==
  /\ At(c, "idle") /\ Moves(c, "connect")
  /\ UNCHANGED <<holder, session, servers, started, nextId, asked, pipe, got>> /\ Counted

\* The lock is kept while the server starts.
Holds(c) == holder' = c

\* ensure_connected(): a session that is there will do; else a server is started
\* under the lock and sent `initialize`.
Connect(c) ==
  /\ At(c, "connect") /\ holder = "nobody" /\ session # NoServer
  /\ Moves(c, "request")
  /\ UNCHANGED <<holder, session, servers, started, nextId, asked, pipe, got>> /\ Counted

SpawnFails(c) ==
  /\ At(c, "connect") /\ holder = "nobody" /\ session = NoServer
  /\ Returns(c)
  /\ UNCHANGED <<holder, session, servers, started, nextId, asked, pipe, got>> /\ Counted

SpawnServer(c) ==
  /\ At(c, "connect") /\ holder = "nobody" /\ session = NoServer /\ nextId <= MaxIds
  /\ Holds(c)
  /\ started' = started + 1 /\ servers' = servers \cup {started + 1}
  /\ asked' = Append(asked, {nextId}) /\ pipe' = Append(pipe, << >>)
  /\ call' = [call EXCEPT ![c] = [at |-> "init", id |-> nextId, server |-> started + 1]]
  /\ nextId' = nextId + 1
  /\ UNCHANGED <<session, got>> /\ Counted

\* request(): the lock is taken again, and the session may be gone by now.
Unavailable(c) ==
  /\ At(c, "request") /\ holder = "nobody" /\ session = NoServer
  /\ Returns(c)
  /\ UNCHANGED <<holder, session, servers, started, nextId, asked, pipe, got>> /\ Counted

Write(c) ==
  /\ At(c, "request") /\ holder = "nobody" /\ session \in servers /\ nextId <= MaxIds
  /\ holder' = c
  /\ asked' = [asked EXCEPT ![session] = @ \cup {nextId}]
  /\ call' = [call EXCEPT ![c] = [at |-> "reading", id |-> nextId, server |-> session]]
  /\ nextId' = nextId + 1
  /\ UNCHANGED <<session, servers, started, pipe, got>> /\ Counted

\* A server that has died takes no request: the session is dropped.
WriteFails(c) ==
  /\ At(c, "request") /\ holder = "nobody" /\ session # NoServer /\ session \notin servers
  /\ nextId <= MaxIds /\ nextId' = nextId + 1
  /\ session' = NoServer /\ Returns(c)
  /\ UNCHANGED <<holder, servers, started, asked, pipe, got>> /\ Counted

----------------------------------------------------------------------------
(* read_response(), in either place *)

Reads(c) == call[c].at \in {"init", "reading"}
Pipe(c)  == pipe[call[c].server]
Takes(c) == pipe' = [pipe EXCEPT ![call[c].server] = Tail(@)]

\* Slip: the next line is taken for the answer.
AnswersAny(line, c) == line # Talk
\* A line is the answer when it carries the id of the request.
AnswersCall(line, c) == line.id = call[c].id

\* A line without that id is passed over: a notification, or the answer to a
\* call that was given up.
PassOver(c) ==
  /\ Reads(c) /\ Pipe(c) # << >>
  /\ Head(Pipe(c)) # Garbage /\ ~AnswersCall(Head(Pipe(c)), c)
  /\ Takes(c)
  /\ UNCHANGED <<holder, session, servers, started, nextId, asked, call, got>> /\ Counted

Initialized(c) ==
  /\ At(c, "init") /\ Pipe(c) # << >>
  /\ AnswersCall(Head(Pipe(c)), c) /\ Head(Pipe(c)).ok /\ Takes(c)
  /\ session' = call[c].server /\ holder' = "nobody" /\ Moves(c, "request")
  /\ UNCHANGED <<servers, started, nextId, asked, got>> /\ Counted

Answered(c) ==
  /\ At(c, "reading") /\ Pipe(c) # << >>
  /\ AnswersCall(Head(Pipe(c)), c) /\ Head(Pipe(c)).ok /\ Takes(c)
  /\ got' = got \cup {[caller |-> c, id |-> call[c].id, answer |-> Head(Pipe(c)).id]}
  /\ holder' = "nobody" /\ Returns(c)
  /\ UNCHANGED <<session, servers, started, nextId, asked>> /\ Counted

\* An error reply, a line that is no JSON, the end of the pipe, or no line in
\* time: the server is killed and the session dropped, whoever's fault it was.
\* A server that was only being started dies with the local session.
Hopeless(c) ==
  \/ Pipe(c) # << >> /\ Head(Pipe(c)) = Garbage
  \/ Pipe(c) # << >> /\ AnswersCall(Head(Pipe(c)), c) /\ ~Head(Pipe(c)).ok
  \/ Pipe(c) = << >>
ReadFails(c) ==
  /\ Reads(c) /\ Hopeless(c)
  /\ servers' = servers \ {call[c].server}
  /\ session' = IF At(c, "reading") THEN NoServer ELSE session
  /\ holder' = "nobody" /\ Returns(c)
  /\ UNCHANGED <<started, nextId, asked, pipe, got>> /\ Counted

\* The caller's task is aborted.  A server being started goes with it; one that
\* was asked keeps its session, and the answer stays in the pipe: whole, or its
\* rest when part of the line had been read.
Aborted(c) ==
  /\ call[c].at # "idle" /\ aborts < MaxAborts /\ aborts' = aborts + 1
  /\ servers' = IF At(c, "init") THEN servers \ {call[c].server} ELSE servers
  /\ holder' = IF holder = c THEN "nobody" ELSE holder
  /\ \/ UNCHANGED pipe
     \/ /\ At(c, "reading") /\ Pipe(c) # << >>
        /\ pipe' = [pipe EXCEPT ![call[c].server] = <<Garbage>> \o Tail(@)]
  /\ Returns(c)
  /\ UNCHANGED <<session, started, nextId, asked, got, talked>>

----------------------------------------------------------------------------
(* The server *)

Reply(s, id, ok) ==
  /\ id \in asked[s]
  /\ asked' = [asked EXCEPT ![s] = @ \ {id}]
  /\ pipe' = [pipe EXCEPT ![s] = Append(@, Line(id, ok))]
  /\ UNCHANGED <<holder, session, servers, started, nextId, call, got>> /\ Counted

Talks(s) ==
  /\ talked < MaxTalk /\ talked' = talked + 1
  /\ \E line \in {Talk, Garbage} : pipe' = [pipe EXCEPT ![s] = Append(@, line)]
  /\ UNCHANGED <<holder, session, servers, started, nextId, asked, call, got, aborts>>

Dies(s) ==
  /\ servers' = servers \ {s}
  /\ UNCHANGED <<holder, session, started, nextId, asked, pipe, call, got>> /\ Counted

McpNext ==
  \/ \E c \in Callers :
       \/ Asks(c) \/ Connect(c) \/ SpawnFails(c) \/ SpawnServer(c) \/ Unavailable(c) \/ Write(c)
       \/ WriteFails(c) \/ PassOver(c) \/ Initialized(c) \/ Answered(c) \/ ReadFails(c) \/ Aborted(c)
  \/ \E s \in servers : Talks(s) \/ Dies(s) \/ \E id \in asked[s], ok \in BOOLEAN : Reply(s, id, ok)

McpSpec == McpInit /\ [][McpNext]_mcpVars

----------------------------------------------------------------------------
\* However calls are given up and servers restarted, a call that returns an
\* answer returns the one to its own request, and no answer is returned twice.
ReplyIsOwn ==
  /\ \A a \in got : a.answer = a.id
  /\ \A a, b \in got : a.answer = b.answer => a = b

\* What is behind it: who reads holds the lock, and waits for an id that was
\* given out and that no call has had an answer to.
McpInv ==
  /\ started \in Nat /\ session \in Nat /\ nextId \in Nat
  /\ call \in [Callers -> CallState]
  /\ \A c \in Callers : Reads(c) => holder = c /\ call[c].id < nextId
  /\ \A c \in Callers, a \in got : Reads(c) => a.id # call[c].id
  /\ \A a \in got : a.id \in 0..nextId-1
  /\ ReplyIsOwn
=============================================================================
