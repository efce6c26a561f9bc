-------------------------------- MODULE Host --------------------------------
(***************************************************************************)
(* lucy-gateway's owner of the heavy runtime                                *)
(* (crates/lucy-gateway/src/host.rs): tasks load it through ensure(), the   *)
(* reaper drops it when it has been idle with no socket connected, the      *)
(* gateway drops it when it shuts down.  All go through an async RwLock     *)
(* that readers, and try_read, cannot enter while a writer holds it or waits *)
(* for it.                                                                  *)
(***************************************************************************)
EXTENDS Integers, Sequences, FiniteSets

CONSTANTS Callers,   \* tasks that call ensure() and then work with the runtime
          Sockets,   \* WebSocket clients
          Timeout,   \* idle_unload_secs, 0 for never
          MaxBuilds  \* bound on the runtimes built

Reaper == "reaper"
Serve  == "serve"   \* serve(), which unloads the runtime as it ends
Nobody == "nobody"

ASSUME HostAssumption ==
  /\ Timeout \in Nat /\ MaxBuilds \in Nat
  /\ {Reaper, Serve, Nobody} \cap Callers = {}

VARIABLES runtime,   \* which build is installed, 0 for none
          built,     \* how many were built
          pc,        \* where each caller is
          handle,    \* the build whose Arc a caller holds, 0 for none
          loading,   \* who holds the `loading` mutex
          queue,     \* the RwLock's writers, the first holding or next to hold it
          readers,   \* sockets inside with_loaded
          sockets,   \* connected sockets
          clients,   \* host.clients, the counter
          idle,      \* time since last_active, counted up to Timeout
          reaper,    \* "idle", "checked", "queued" or "dropping"
          down       \* the shutdown: "up", "queued", "dropping" or "down"

vars == <<runtime, built, pc, handle, loading, queue, readers, sockets, clients, idle, reaper, down>>

TypeOK ==
  /\ built \in 0..MaxBuilds /\ runtime \in 0..built
  /\ pc \in [Callers -> {"out", "locking", "building", "installing", "using"}]
  /\ handle \in [Callers -> 0..built]
  /\ loading \in Callers \cup {Nobody}
  /\ queue \in Seq(Callers \cup {Reaper, Serve}) /\ Len(queue) <= 3
  /\ readers \subseteq sockets /\ sockets \subseteq Sockets
  /\ clients \in 0..Cardinality(Sockets)
  /\ idle \in 0..Timeout
  /\ reaper \in {"idle", "checked", "queued", "dropping"}
  /\ down \in {"up", "queued", "dropping", "down"}

Init ==
  /\ runtime = 0 /\ built = 0
  /\ pc = [c \in Callers |-> "out"] /\ handle = [c \in Callers |-> 0]
  /\ loading = Nobody /\ queue = << >> /\ readers = {}
  /\ sockets = {} /\ clients = 0
  /\ idle = 0 /\ reaper = "idle" /\ down = "up"

----------------------------------------------------------------------------
\* current(): what try_read sees, nothing when a writer is in the way.
Current == IF queue = << >> THEN runtime ELSE 0
Touch == idle' = 0

Enters(w) == readers = {} /\ queue # << >> /\ Head(queue) = w

\* ensure(): the runtime is there, or the caller goes for the mutex.
Ensure(c) ==
  /\ pc[c] = "out"
  /\ IF Current # 0
     THEN /\ pc' = [pc EXCEPT ![c] = "using"]
          /\ handle' = [handle EXCEPT ![c] = Current] /\ Touch
     ELSE /\ pc' = [pc EXCEPT ![c] = "locking"] /\ UNCHANGED <<handle, idle>>
  /\ UNCHANGED <<runtime, built, loading, queue, readers, sockets, clients, reaper, down>>

\* Having the mutex it looks again: another caller may have won the race.
Lock(c) ==
  /\ pc[c] = "locking" /\ loading = Nobody
  /\ IF Current # 0
     THEN /\ pc' = [pc EXCEPT ![c] = "using"]
          /\ handle' = [handle EXCEPT ![c] = Current] /\ Touch /\ UNCHANGED loading
     ELSE /\ pc' = [pc EXCEPT ![c] = "building"] /\ loading' = c /\ UNCHANGED <<handle, idle>>
  /\ UNCHANGED <<runtime, built, queue, readers, sockets, clients, reaper, down>>

Build(c) ==
  /\ pc[c] = "building" /\ built < MaxBuilds
  /\ built' = built + 1
  /\ handle' = [handle EXCEPT ![c] = built + 1]
  /\ pc' = [pc EXCEPT ![c] = "installing"]
  /\ queue' = Append(queue, c)
  /\ UNCHANGED <<runtime, loading, readers, sockets, clients, idle, reaper, down>>

\* Slip: the mutex is not released when building fails.
BuildFailsLocked(c) ==
  /\ pc[c] = "building"
  /\ pc' = [pc EXCEPT ![c] = "out"]
  /\ UNCHANGED <<runtime, built, handle, loading, queue, readers, sockets, clients, idle, reaper, down>>

BuildFails(c) ==
  /\ pc[c] = "building"
  /\ pc' = [pc EXCEPT ![c] = "out"] /\ loading' = Nobody
  /\ UNCHANGED <<runtime, built, handle, queue, readers, sockets, clients, idle, reaper, down>>

Install(c) ==
  /\ pc[c] = "installing" /\ Enters(c)
  /\ runtime' = handle[c] /\ queue' = Tail(queue)
  /\ pc' = [pc EXCEPT ![c] = "using"] /\ loading' = Nobody /\ Touch
  /\ UNCHANGED <<built, handle, readers, sockets, clients, reaper, down>>

\* The task is over and its Arc dropped; REST tasks touch nothing while they run.
Release(c) ==
  /\ pc[c] = "using"
  /\ pc' = [pc EXCEPT ![c] = "out"] /\ handle' = [handle EXCEPT ![c] = 0]
  /\ UNCHANGED <<runtime, built, loading, queue, readers, sockets, clients, idle, reaper, down>>

----------------------------------------------------------------------------
(* Sockets *)

Connect(s) ==
  /\ s \notin sockets /\ down = "up"
  /\ sockets' = sockets \cup {s} /\ clients' = clients + 1 /\ Touch
  /\ UNCHANGED <<runtime, built, pc, handle, loading, queue, readers, reaper, down>>

\* Slip: a socket's end is not counted.
DisconnectUncounted(s) ==
  /\ s \in sockets \ readers
  /\ sockets' = sockets \ {s} /\ UNCHANGED clients /\ Touch
  /\ UNCHANGED <<runtime, built, pc, handle, loading, queue, readers, reaper, down>>

\* client_disconnected() saturates at zero.
Disconnect(s) ==
  /\ s \in sockets \ readers
  /\ sockets' = sockets \ {s} /\ clients' = (IF clients > 0 THEN clients - 1 ELSE 0) /\ Touch
  /\ UNCHANGED <<runtime, built, pc, handle, loading, queue, readers, reaper, down>>

\* A frame: the socket touches the host and may read the runtime in with_loaded.
Frame(s) ==
  /\ s \in sockets \ readers
  /\ Touch
  /\ UNCHANGED readers \/ (queue = << >> /\ readers' = readers \cup {s})
  /\ UNCHANGED <<runtime, built, pc, handle, loading, queue, sockets, clients, reaper, down>>

ReadEnds(s) ==
  /\ s \in readers
  /\ readers' = readers \ {s}
  /\ UNCHANGED <<runtime, built, pc, handle, loading, queue, sockets, clients, idle, reaper, down>>

----------------------------------------------------------------------------
(* The reaper *)

Tick ==
  /\ idle < Timeout /\ idle' = idle + 1
  /\ UNCHANGED <<runtime, built, pc, handle, loading, queue, readers, sockets, clients, reaper, down>>

ReapCheck ==
  /\ reaper = "idle" /\ down = "up"
  /\ Timeout # 0 /\ clients = 0 /\ Current # 0 /\ idle >= Timeout
  /\ reaper' = "checked"
  /\ UNCHANGED <<runtime, built, pc, handle, loading, queue, readers, sockets, clients, idle, down>>

ReapQueue ==
  /\ reaper = "checked"
  /\ reaper' = "queued" /\ queue' = Append(queue, Reaper)
  /\ UNCHANGED <<runtime, built, pc, handle, loading, readers, sockets, clients, idle, down>>

\* guard.take(): nothing of the check is looked at again.  The value is dropped
\* while the lock is still held.
Reap ==
  /\ reaper = "queued" /\ Enters(Reaper)
  /\ runtime' = 0 /\ reaper' = "dropping"
  /\ UNCHANGED <<built, pc, handle, loading, queue, readers, sockets, clients, idle, down>>

ReapEnds ==
  /\ reaper = "dropping"
  /\ reaper' = "idle" /\ queue' = Tail(queue)
  /\ UNCHANGED <<runtime, built, pc, handle, loading, readers, sockets, clients, idle, down>>

----------------------------------------------------------------------------
(* Shutdown: serving is over, the reaper is aborted, unload() *)

\* The abort and unload()'s wait for the lock.
Shutdown ==
  /\ down = "up"
  /\ down' = "queued" /\ queue' = Append(queue, Serve)
  /\ UNCHANGED <<runtime, built, pc, handle, loading, readers, sockets, clients, idle, reaper>>

\* The abort reaches the reaper at its await.
ReaperAborted ==
  /\ down # "up" /\ reaper = "queued"
  /\ reaper' = "idle" /\ queue' = SelectSeq(queue, LAMBDA w : w # Reaper)
  /\ UNCHANGED <<runtime, built, pc, handle, loading, readers, sockets, clients, idle, down>>

Unload ==
  /\ down = "queued" /\ Enters(Serve)
  /\ runtime' = 0 /\ down' = "dropping"
  /\ UNCHANGED <<built, pc, handle, loading, queue, readers, sockets, clients, idle, reaper>>

UnloadEnds ==
  /\ down = "dropping"
  /\ down' = "down" /\ queue' = Tail(queue)
  /\ UNCHANGED <<runtime, built, pc, handle, loading, readers, sockets, clients, idle, reaper>>

----------------------------------------------------------------------------
Builds(c) == Build(c) \/ BuildFails(c)
Next ==
  \/ \E c \in Callers : Ensure(c) \/ Lock(c) \/ Builds(c) \/ Install(c) \/ Release(c)
  \/ \E s \in Sockets : Connect(s) \/ Disconnect(s) \/ Frame(s) \/ ReadEnds(s)
  \/ Tick \/ ReapCheck \/ ReapQueue \/ Reap \/ ReapEnds
  \/ Shutdown \/ ReaperAborted \/ Unload \/ UnloadEnds

Spec == Init /\ [][Next]_vars

\* Both locks are FIFO, builds and with_loaded closures return, the reaper's
\* timer and the clock go on.
FairSpec ==
  /\ Spec
  /\ \A c \in Callers : SF_vars(Lock(c)) /\ WF_vars(Builds(c)) /\ SF_vars(Install(c))
  /\ \A s \in Sockets : WF_vars(ReadEnds(s))
  /\ WF_vars(Tick) /\ WF_vars(ReapCheck) /\ WF_vars(ReapQueue)
  /\ SF_vars(Reap) /\ WF_vars(ReapEnds)
  /\ SF_vars(Unload) /\ WF_vars(UnloadEnds)

----------------------------------------------------------------------------

\* While the gateway is up no runtime is built into the place of another: that
\* one was unloaded before.  ensure() does not see to it by its two looks alone,
\* since try_read finds nothing while a writer only waits (host.rs:170, 176); a
\* caller may then build beside a runtime that is there.
NoneReplaced == [][runtime # 0 /\ runtime' # runtime => runtime' = 0 \/ down # "up"]_vars

\* What is behind it: whoever builds holds the mutex, and where it builds beside
\* a runtime the reaper is ahead of it in the queue.
Reaping == reaper \in {"queued", "dropping"}
Installing == loading # Nobody /\ pc[loading] = "installing"
QueueIs ==
  IF Installing
  THEN IF Reaping THEN queue \in {<<Reaper, loading>>, <<loading, Reaper>>} ELSE queue = <<loading>>
  ELSE IF Reaping THEN queue = <<Reaper>> ELSE queue = << >>
LoadInv ==
  /\ pc \in [Callers -> {"out", "locking", "building", "installing", "using"}]
  /\ loading \in Callers \cup {Nobody}
  /\ \A c \in Callers : pc[c] \in {"building", "installing"} <=> loading = c
  /\ reaper \in {"idle", "checked", "queued", "dropping"}
  /\ down = "up" =>
       /\ QueueIs
       /\ reaper = "dropping" => runtime = 0 /\ queue[1] = Reaper
       /\ loading # Nobody => runtime = 0 \/ (reaper = "queued" /\ queue[1] = Reaper)

\* ensure() comes back, with a runtime or with the builder's error.
EnsureReturns == \A c \in Callers : (pc[c] = "locking") ~> (pc[c] \in {"using", "out"})

\* Once nobody is connected and nobody works any more, the runtime is unloaded,
\* as long as the gateway and with it the reaper goes on.
Deserted == sockets = {} /\ \A c \in Callers : pc[c] = "out"
IdleIsUnloaded == <>[](Deserted /\ down = "up") => <>[](runtime = 0)
=============================================================================
