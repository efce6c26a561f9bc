------------------------------- MODULE Gateway -------------------------------
(***************************************************************************)
(* lucy-gateway's server (crates/lucy-gateway/src/server.rs): sockets and   *)
(* one-shot REST requests compete for the one task slot; a run is a task of *)
(* its own that goes through the shared runtime's interrupt flag, approval  *)
(* gate and event sink, and outlives the connection that asked for it.  A   *)
(* run's inside is ReactLoop's, a prompt's is ApprovalGate's; here a run    *)
(* works, asks, and returns.  A client asks for each run once, so a run     *)
(* stands for its task id.                                                  *)
(***************************************************************************)
EXTENDS Integers, FiniteSets

CONSTANTS Clients,   \* sockets
          Runs, Rest,  \* all runs; those submitted by POST /tasks
          Panicking  \* runs whose future may panic

None == "none"

ASSUME GatewayAssumption ==
  /\ IsFiniteSet(Clients)
  /\ Rest \subseteq Runs /\ Panicking \subseteq Runs
  /\ None \notin Runs

VARIABLES conn,      \* each socket: "closed", "greeted" (before auth), "open", and the
                     \* first half of a Stop ("stopping") or of the close ("closing")
          clients,   \* host.clients
          current,   \* the run each connection loop holds the slot's guard for
          waiting,   \* REST runs whose handler is still there
          slot,      \* running_task
          stage,     \* how far each run has come
          loaded,    \* the runtime has been built
          interrupt, \* the runtime's interrupt flag
          sink,      \* the run whose event sender the approval gate holds
          asked,     \* asked[r]: the run to whose client r's prompt was published
          abandoned  \* runs whose socket or REST caller went away first

vars == <<conn, clients, current, waiting, slot, stage, loaded, interrupt, sink, asked, abandoned>>
runtime == <<loaded, interrupt, sink, asked>>
sockets == <<conn, clients, current>>

Working == {r \in Runs : stage[r] \in {"loading", "saving", "routing", "acting", "prompting"}}

TypeOK ==
  /\ conn \in [Clients -> {"closed", "greeted", "open", "stopping", "closing"}]
  /\ clients \in 0..Cardinality(Clients)
  /\ current \in [Clients -> Runs \cup {None}]
  /\ waiting \subseteq Rest
  /\ slot \in Runs \cup {None}
  /\ stage \in [Runs -> {"new", "loading", "saving", "routing", "acting", "prompting",
                         "returned", "done", "dead"}]
  /\ loaded \in BOOLEAN /\ interrupt \in BOOLEAN
  /\ sink \in Runs \cup {None}
  /\ asked \in [Runs -> Runs \cup {None}]
  /\ abandoned \subseteq Runs

Init ==
  /\ conn = [c \in Clients |-> "closed"] /\ clients = 0
  /\ current = [c \in Clients |-> None]
  /\ waiting = {} /\ slot = None
  /\ stage = [r \in Runs |-> "new"]
  /\ loaded = FALSE /\ interrupt = FALSE /\ sink = None
  /\ asked = [r \in Runs |-> None]
  /\ abandoned = {}

----------------------------------------------------------------------------
(* A socket comes, authenticates and goes *)

Connect(c) ==
  /\ conn[c] = "closed"
  /\ conn' = [conn EXCEPT ![c] = "greeted"] /\ clients' = clients + 1
  /\ UNCHANGED <<current, waiting, slot, stage, abandoned, runtime>>

\* hello could not be sent, the auth was refused, or the socket closed.
Refuse(c) ==
  /\ conn[c] = "greeted"
  /\ conn' = [conn EXCEPT ![c] = "closed"] /\ clients' = clients - 1
  /\ UNCHANGED <<current, waiting, slot, stage, abandoned, runtime>>

Authenticate(c) ==
  /\ conn[c] = "greeted"
  /\ conn' = [conn EXCEPT ![c] = "open"]
  /\ UNCHANGED <<clients, current, waiting, slot, stage, abandoned, runtime>>

\* with_loaded(interrupt): nothing happens when there is no runtime yet.
Interrupts == interrupt' = loaded

\* The gate's prompts are all denied: what waits goes back to work.
Denied == [r \in Runs |-> IF stage[r] = "prompting" THEN "acting" ELSE stage[r]]

\* The socket is gone.  A run in flight is interrupted ...
Close(c) ==
  /\ conn[c] = "open"
  /\ conn' = [conn EXCEPT ![c] = "closing"]
  /\ IF current[c] # None THEN Interrupts ELSE UNCHANGED interrupt
  /\ UNCHANGED <<clients, current, waiting, slot, stage, loaded, sink, asked, abandoned>>

\* Slip: the guard of the run in flight is not dropped.
ClosedKeeps(c) ==
  /\ conn[c] = "closing"
  /\ conn' = [conn EXCEPT ![c] = "closed"] /\ clients' = clients - 1
  /\ IF current[c] = None THEN UNCHANGED <<current, stage, abandoned>>
     ELSE /\ current' = [current EXCEPT ![c] = None] /\ stage' = Denied
          /\ abandoned' = abandoned \cup {current[c]}
  /\ UNCHANGED <<waiting, slot, runtime>>

\* ... its prompts denied and its guard dropped, whatever the run is doing.
Closed(c) ==
  /\ conn[c] = "closing"
  /\ conn' = [conn EXCEPT ![c] = "closed"] /\ clients' = clients - 1
  /\ IF current[c] = None THEN UNCHANGED <<current, slot, stage, abandoned>>
     ELSE /\ current' = [current EXCEPT ![c] = None] /\ slot' = None /\ stage' = Denied
          /\ abandoned' = abandoned \cup {current[c]}
  /\ UNCHANGED <<waiting, runtime>>

----------------------------------------------------------------------------
(* Tasks are asked for *)

\* Slip: begin_task takes the slot without looking.
BeginTaskAlways(r) == stage[r] = "new" /\ slot' = r /\ stage' = [stage EXCEPT ![r] = "loading"]

\* begin_task; a request that finds the slot taken is refused and changes nothing.
BeginTask(r) ==
  /\ stage[r] = "new" /\ slot = None
  /\ slot' = r /\ stage' = [stage EXCEPT ![r] = "loading"]

Submit(c, r) ==
  /\ conn[c] = "open" /\ current[c] = None /\ r \notin Rest
  /\ BeginTask(r)
  /\ current' = [current EXCEPT ![c] = r]
  /\ UNCHANGED <<conn, clients, waiting, abandoned, runtime>>

SubmitRest(r) ==
  /\ r \in Rest /\ BeginTask(r)
  /\ waiting' = waiting \cup {r}
  /\ UNCHANGED <<sockets, abandoned, runtime>>

\* The REST caller hangs up: its handler is dropped with the guard, and with
\* the run too unless the agent loop was already spawned.
HangUp(r) ==
  /\ r \in waiting
  /\ waiting' = waiting \ {r} /\ slot' = None
  /\ abandoned' = abandoned \cup {r}
  /\ stage' = IF stage[r] \in {"acting", "prompting"} THEN stage
              ELSE [stage EXCEPT ![r] = "dead"]
  /\ UNCHANGED <<sockets, runtime>>

----------------------------------------------------------------------------
(* A run, from spawn_task or run_task_once *)

To(r, s) == stage' = [stage EXCEPT ![r] = s]

\* host.ensure()
Load(r) ==
  /\ stage[r] = "loading"
  /\ \/ loaded' = TRUE /\ To(r, "saving")
     \/ ~loaded /\ To(r, "done") /\ UNCHANGED loaded
  /\ UNCHANGED <<sockets, waiting, slot, interrupt, sink, asked, abandoned>>

\* save_user_message() resets the interrupt; that it fails to save only logs.
Save(r) ==
  /\ stage[r] = "saving"
  /\ interrupt' = FALSE
  /\ To(r, "routing")
  /\ UNCHANGED <<sockets, waiting, slot, loaded, sink, asked, abandoned>>

\* classify_turn and route_turn_with: no route, or only a reply, ends the task;
\* otherwise the agent loop is spawned and gives the gate its event sender.
Route(r) ==
  /\ stage[r] = "routing"
  /\ \/ To(r, "done") /\ UNCHANGED sink
     \/ To(r, "acting") /\ sink' = r
  /\ UNCHANGED <<sockets, waiting, slot, loaded, interrupt, asked, abandoned>>

\* A call needs approval: the prompt goes to whoever's sender the gate holds.
Ask(r) ==
  /\ stage[r] = "acting" /\ ~interrupt
  /\ To(r, "prompting") /\ asked' = [asked EXCEPT ![r] = sink]
  /\ UNCHANGED <<sockets, waiting, slot, loaded, interrupt, sink, abandoned>>

\* The prompt ends: its time is up, or the interrupt is set, or the REST
\* collector denies what was published to it, or a client that was shown the
\* prompt answers.
Answered(r) ==
  /\ stage[r] = "prompting"
  /\ To(r, "acting")
  /\ UNCHANGED <<sockets, waiting, slot, runtime, abandoned>>

\* The loop ends, interrupted or not, and clears the gate's sink.
Return(r) ==
  /\ stage[r] = "acting" /\ To(r, "returned")
  /\ sink' = None
  /\ UNCHANGED <<sockets, waiting, slot, loaded, interrupt, asked, abandoned>>

\* A panic unwinds spawn_task's own future, or the loop's past clear_events.
Panic(r) ==
  /\ r \in Panicking
  /\ \/ stage[r] \in {"loading", "saving", "routing"} /\ To(r, "dead")
     \/ stage[r] = "acting" /\ To(r, "returned")
  /\ UNCHANGED <<sockets, waiting, slot, runtime, abandoned>>

\* The event stream ends when no sender is left, the gate's included; then the
\* summary is saved and TaskDone sent (or the REST reply made).
Report(r) ==
  /\ stage[r] = "returned" /\ sink # r
  /\ To(r, "done")
  /\ UNCHANGED <<sockets, waiting, slot, runtime, abandoned>>

\* Slip: the loop forgets its run and keeps the slot.
DeliverKeeps(c) ==
  /\ conn[c] = "open" /\ current[c] # None /\ stage[current[c]] = "done"
  /\ current' = [current EXCEPT ![c] = None]
  /\ UNCHANGED <<conn, clients, waiting, slot, stage, abandoned, runtime>>

\* TaskDone reaches the connection loop, which drops the guard.
Deliver(c) ==
  /\ conn[c] = "open" /\ current[c] # None /\ stage[current[c]] = "done"
  /\ current' = [current EXCEPT ![c] = None] /\ slot' = None
  /\ UNCHANGED <<conn, clients, waiting, stage, abandoned, runtime>>

\* The REST handler returns; an unwinding one drops its guard as well.
Reply(r) ==
  /\ r \in waiting /\ stage[r] \in {"done", "dead"}
  /\ waiting' = waiting \ {r} /\ slot' = None
  /\ UNCHANGED <<sockets, stage, abandoned, runtime>>

----------------------------------------------------------------------------
(* Any client may press Stop, whoever's run it is *)

Stop(c) ==
  /\ conn[c] = "open"
  /\ conn' = [conn EXCEPT ![c] = "stopping"]
  /\ Interrupts
  /\ UNCHANGED <<clients, current, waiting, slot, stage, loaded, sink, asked, abandoned>>

StopDenies(c) ==
  /\ conn[c] = "stopping"
  /\ conn' = [conn EXCEPT ![c] = "open"]
  /\ stage' = Denied
  /\ UNCHANGED <<clients, current, waiting, slot, abandoned, runtime>>

\* sessions.new and sessions.switch load the runtime and reset the interrupt,
\* whoever's run is on; a failed load leaves things as they are.
ChangeSession(c) ==
  /\ conn[c] = "open"
  /\ loaded' = TRUE /\ interrupt' = FALSE
  /\ UNCHANGED <<sockets, waiting, slot, stage, sink, asked, abandoned>>

----------------------------------------------------------------------------
RunStep(r) == \/ Load(r) \/ Save(r) \/ Route(r) \/ Ask(r) \/ Answered(r)
              \/ Return(r) \/ Report(r) \/ Panic(r)

Next ==
  \/ \E c \in Clients : \/ Connect(c) \/ Refuse(c) \/ Authenticate(c) \/ Close(c)
                        \/ Closed(c) \/ Stop(c) \/ StopDenies(c) \/ Deliver(c)
                        \/ ChangeSession(c)
                        \/ \E r \in Runs : Submit(c, r)
  \/ \E r \in Runs : SubmitRest(r) \/ HangUp(r) \/ Reply(r) \/ RunStep(r)

Spec == Init /\ [][Next]_vars

\* Runs are polled and bounded (ReactLoop's RunEnds), prompts time out, and the
\* connection loop's select hands over events that are waiting.
FairSpec ==
  /\ Spec
  /\ \A r \in Runs : /\ WF_vars(RunStep(r)) /\ SF_vars(Return(r)) /\ WF_vars(Reply(r))
  /\ \A c \in Clients : /\ SF_vars(Deliver(c)) /\ WF_vars(Closed(c)) /\ WF_vars(StopDenies(c))

----------------------------------------------------------------------------
\* The books balance along every way out of the connection loop.  Whoever holds
\* a guard holds the slot for it, and a taken slot has exactly one holder, so
\* none is freed under another run; host.clients counts the sockets there are.
BooksBalance ==
  /\ \A c \in Clients : current[c] # None => slot = current[c]
  /\ waiting \subseteq {slot}
  /\ slot # None =>
       Cardinality({c \in Clients : current[c] = slot}) + Cardinality(waiting) = 1
  /\ clients = Cardinality({c \in Clients : conn[c] # "closed"})

\* As long as everyone who asked for a run is still there, runs do not meet:
\* one works at a time and its prompts are published to its own requester.
RunsKeptApart ==
  abandoned = {} =>
    /\ Cardinality(Working) <= 1
    /\ \A r \in Runs : stage[r] = "prompting" => asked[r] = r

\* What is behind it: who holds the taken slot, and that a run that still works
\* holds it.
Connected == {c \in Clients : conn[c] # "closed"}
HeldByOne ==
  /\ \A c \in Clients : current[c] # None => slot = current[c]
  /\ waiting \subseteq {slot}
  /\ slot # None =>
       \/ waiting = {} /\ \E c \in Clients : \A d \in Clients : current[d] = slot <=> d = c
       \/ waiting = {slot} /\ \A c \in Clients : current[c] # slot
WorkHoldsSlot ==
  abandoned = {} =>
    \A r \in Runs :
      /\ stage[r] \in {"loading", "saving", "routing", "acting", "prompting", "returned"} => slot = r
      /\ stage[r] \in {"acting", "prompting"} => sink = r
      /\ stage[r] = "prompting" => asked[r] = r
GatewayInv == /\ TypeOK /\ HeldByOne /\ WorkHoldsSlot
              /\ clients = Cardinality(Connected)

\* A run that panicked and that the connection loop will never hear of again:
\* its own future is gone, or the gate still holds its event sender.
Wedged(r) == stage[r] = "dead" \/ (stage[r] = "returned" /\ sink = r)

\* The slot does not stay with one run for ever, whoever connects, stops, hangs
\* up or changes session meanwhile, unless that run panicked.
SlotIsFreed == \A r \in Runs : (slot = r) ~> (slot # r \/ Wedged(r))
=============================================================================
