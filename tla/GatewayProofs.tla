---------------------------- MODULE GatewayProofs ----------------------------
(***************************************************************************)
(* The gateway, the skill store, the page library, the editor and the     *)
(* client of the classification server, for any sockets, runs, callers,    *)
(* editors, pages, servers and failures.                                   *)
(***************************************************************************)
EXTENDS Gateway, Skills, Spaces, Editor, Decider, FiniteSetTheorems, TLAPS

-----------------------------------------------------------------------------
\* The gateway: its books balance, and runs keep apart.

InHand == {"loading", "saving", "routing", "acting", "prompting", "returned"}

\* GatewayInv holds initially.
LEMMA GatewayInit == Init => GatewayInv
<1> SUFFICES ASSUME Init PROVE GatewayInv
  OBVIOUS
<1>1. Connected = {} /\ Cardinality({}) = 0 /\ Cardinality(Clients) \in Nat
  BY GatewayAssumption, FS_EmptySet, FS_CardinalityType DEF Init, Connected
<1>2. TypeOK
  <2>1. clients \in 0..Cardinality(Clients)
    BY <1>1 DEF Init
  <2>2. /\ conn \in [Clients -> {"closed", "greeted", "open", "stopping", "closing"}]
        /\ current \in [Clients -> Runs \cup {None}]
    BY DEF Init
  <2>3. /\ stage \in [Runs -> {"new", "loading", "saving", "routing", "acting", "prompting",
                               "returned", "done", "dead"}]
        /\ asked \in [Runs -> Runs \cup {None}]
    BY DEF Init
  <2> QED BY <2>1, <2>2, <2>3, Zenon DEF Init, TypeOK
<1>3. HeldByOne /\ WorkHoldsSlot
  BY GatewayAssumption DEF Init, HeldByOne, WorkHoldsSlot
<1> QED BY <1>1, <1>2, <1>3 DEF Init, GatewayInv

\* host.clients counts the sockets: one more when one is accepted, one less
\* when one ends, and the same when one changes between the states in which it is there.
LEMMA SocketsCounted ==
  ASSUME TypeOK, clients = Cardinality(Connected), NEW c \in Clients,
         NEW s \in {"closed", "greeted", "open", "stopping", "closing"},
         conn' = [conn EXCEPT ![c] = s],
         \/ conn[c] = "closed" /\ s # "closed" /\ clients' = clients + 1
         \/ conn[c] # "closed" /\ s = "closed" /\ clients' = clients - 1
         \/ conn[c] # "closed" /\ s # "closed" /\ clients' = clients
  PROVE  clients' = Cardinality(Connected)' /\ clients' \in 0..Cardinality(Clients)
<1>1. IsFiniteSet(Connected) /\ Connected \subseteq Clients /\ IsFiniteSet(Clients)
  BY GatewayAssumption, FS_Subset DEF Connected
<1>2. CASE conn[c] = "closed" /\ s # "closed" /\ clients' = clients + 1
  <2>1. Connected' = Connected \cup {c} /\ c \notin Connected
    BY <1>2 DEF TypeOK, Connected
  <2> QED BY <1>1, <1>2, <2>1, FS_AddElement, FS_Subset, FS_CardinalityType, SMTT(30)
<1>3. CASE conn[c] # "closed" /\ s = "closed" /\ clients' = clients - 1
  <2>1. Connected' = Connected \ {c} /\ c \in Connected
    BY <1>3 DEF TypeOK, Connected
  <2>2. clients' = Cardinality(Connected') /\ Connected' \subseteq Clients
    BY <1>1, <1>3, <2>1, FS_RemoveElement
  <2> QED BY <1>1, <2>2, FS_Subset, FS_CardinalityType
<1>4. CASE conn[c] # "closed" /\ s # "closed" /\ clients' = clients
  <2>1. Connected' = Connected
    BY <1>4 DEF TypeOK, Connected
  <2> QED BY <1>4, <2>1 DEF TypeOK
<1> QED BY <1>2, <1>3, <1>4

\* A step that touches neither the slot nor a run, but perhaps the flag.
LEMMA SocketKeeps ==
  ASSUME GatewayInv, conn' \in [Clients -> {"closed", "greeted", "open", "stopping", "closing"}],
         clients' = Cardinality(Connected)' /\ clients' \in 0..Cardinality(Clients),
         loaded' \in BOOLEAN, interrupt' \in BOOLEAN,
         UNCHANGED <<current, waiting, slot, stage, sink, asked, abandoned>>
  PROVE  GatewayInv'
<1>1. TypeOK'
  BY DEF GatewayInv, TypeOK
<1>2. HeldByOne' /\ WorkHoldsSlot'
  BY DEF GatewayInv, HeldByOne, WorkHoldsSlot
<1> QED BY <1>1, <1>2 DEF GatewayInv

\* A step of run r's that leaves sockets, slot and the other runs alone.
LEMMA RunKeeps ==
  ASSUME GatewayInv, NEW r \in Runs,
         NEW s \in {"saving", "routing", "acting", "prompting", "returned", "done", "dead"},
         stage' = [stage EXCEPT ![r] = s], stage[r] \in InHand,
         loaded' \in BOOLEAN, interrupt' \in BOOLEAN, sink' \in Runs \cup {None},
         asked' \in [Runs -> Runs \cup {None}],
         \A o \in Runs \ {r} : asked'[o] = asked[o],
         s \in {"acting", "prompting"} /\ abandoned = {} => sink' = r,
         s = "prompting" /\ abandoned = {} => asked'[r] = r,
         UNCHANGED <<sockets, waiting, slot, abandoned>>
  PROVE  GatewayInv'
<1>1. TypeOK'
  BY DEF GatewayInv, TypeOK, sockets
<1>2. HeldByOne' /\ clients' = Cardinality(Connected)'
  BY DEF GatewayInv, HeldByOne, sockets, Connected
<1>3. WorkHoldsSlot'
  <2> SUFFICES ASSUME abandoned' = {}, NEW o \in Runs
               PROVE  /\ stage'[o] \in InHand => slot' = o
                      /\ stage'[o] \in {"acting", "prompting"} => sink' = o
                      /\ stage'[o] = "prompting" => asked'[o] = o
    BY DEF WorkHoldsSlot, InHand
  <2>1. abandoned = {} /\ slot = r
    BY DEF GatewayInv, WorkHoldsSlot, InHand
  <2>2. CASE o = r
    BY <2>1, <2>2 DEF GatewayInv, TypeOK
  <2>3. CASE o # r
    <3>1. stage'[o] = stage[o] /\ slot # o
      BY <2>1, <2>3 DEF GatewayInv, TypeOK
    <3>2. stage[o] \notin InHand
      BY <2>1, <3>1 DEF GatewayInv, WorkHoldsSlot, InHand
    <3> QED BY <3>1, <3>2 DEF InHand
  <2> QED BY <2>2, <2>3
<1> QED BY <1>1, <1>2, <1>3 DEF GatewayInv

\* The slot's only holder lets go: nobody holds it, and what still works was
\* abandoned or has come to its end.
LEMMA SlotFreed ==
  ASSUME GatewayInv, NEW r \in Runs, slot = r, slot' = None,
         current' \in [Clients -> {None}], waiting' = {},
         conn' \in [Clients -> {"closed", "greeted", "open", "stopping", "closing"}],
         clients' = Cardinality(Connected)' /\ clients' \in 0..Cardinality(Clients),
         stage' \in [Runs -> {"new", "loading", "saving", "routing", "acting", "prompting",
                              "returned", "done", "dead"}],
         \/ abandoned' = abandoned \cup {r}
         \/ abandoned' = abandoned /\ stage' = stage /\ stage[r] \in {"done", "dead"},
         UNCHANGED runtime
  PROVE  GatewayInv'
<1>1. TypeOK'
  BY DEF GatewayInv, TypeOK, runtime
<1>2. HeldByOne'
  BY GatewayAssumption DEF HeldByOne
<1>3. WorkHoldsSlot'
  <2>1. CASE abandoned' = abandoned \cup {r}
    BY <2>1 DEF WorkHoldsSlot
  <2>2. CASE abandoned' = abandoned /\ stage' = stage /\ stage[r] \in {"done", "dead"}
    <3>1. ASSUME abandoned = {}, NEW o \in Runs PROVE stage[o] \notin InHand
      BY <2>2, <3>1 DEF GatewayInv, WorkHoldsSlot, InHand
    <3> QED BY <2>2, <3>1 DEF WorkHoldsSlot, InHand
  <2> QED BY <2>1, <2>2
<1> QED BY <1>1, <1>2, <1>3 DEF GatewayInv

\* Letting go leaves no holder: a connection's guard, or the REST handler's.
LEMMA LastHolder ==
  ASSUME GatewayInv
  PROVE  /\ \A c \in Clients : current[c] # None =>
              /\ current[c] \in Runs /\ slot = current[c] /\ waiting = {}
              /\ [current EXCEPT ![c] = None] \in [Clients -> {None}]
         /\ \A r \in waiting :
              /\ r \in Runs /\ slot = r /\ waiting \ {r} = {}
              /\ current \in [Clients -> {None}]
<1>1. ASSUME NEW c \in Clients, current[c] # None
      PROVE  /\ current[c] \in Runs /\ slot = current[c] /\ waiting = {}
             /\ [current EXCEPT ![c] = None] \in [Clients -> {None}]
  <2>1. current[c] \in Runs /\ slot = current[c] /\ slot # None
    BY <1>1 DEF GatewayInv, TypeOK, HeldByOne
  <2>2. waiting = {} /\ \A d \in Clients : current[d] = slot <=> d = c
    BY <2>1 DEF GatewayInv, HeldByOne
  <2>3. \A d \in Clients \ {c} : current[d] = None
    BY <2>2 DEF GatewayInv, HeldByOne
  <2> QED BY <2>1, <2>2, <2>3 DEF GatewayInv, TypeOK
<1>2. ASSUME NEW r \in waiting
      PROVE  r \in Runs /\ slot = r /\ waiting \ {r} = {} /\ current \in [Clients -> {None}]
  <2>1. r \in Runs /\ slot = r /\ slot # None
    BY GatewayAssumption DEF GatewayInv, TypeOK, HeldByOne
  <2>2. waiting = {slot} /\ \A c \in Clients : current[c] # slot
    BY <2>1 DEF GatewayInv, HeldByOne
  <2>3. \A c \in Clients : current[c] = None
    BY <2>2 DEF GatewayInv, HeldByOne
  <2> QED BY <2>1, <2>2, <2>3 DEF GatewayInv, TypeOK
<1> QED BY <1>1, <1>2

\* Every step of a socket keeps GatewayInv.
LEMMA SocketStep ==
  ASSUME GatewayInv, NEW c \in Clients,
         \/ Connect(c) \/ Refuse(c) \/ Authenticate(c) \/ Close(c) \/ Closed(c) \/ Stop(c)
         \/ StopDenies(c) \/ Deliver(c) \/ ChangeSession(c)
  PROVE  GatewayInv'
<1>a. TypeOK /\ clients = Cardinality(Connected)
  BY DEF GatewayInv
<1>1. CASE Connect(c) \/ Refuse(c) \/ Authenticate(c)
  <2>1. /\ conn' \in [Clients -> {"closed", "greeted", "open", "stopping", "closing"}]
        /\ UNCHANGED <<current, waiting, slot, stage, abandoned, runtime>>
    BY <1>a, <1>1 DEF Connect, Refuse, Authenticate, TypeOK
  <2>2. clients' = Cardinality(Connected)' /\ clients' \in 0..Cardinality(Clients)
    BY <1>a, <1>1, SocketsCounted DEF Connect, Refuse, Authenticate
  <2> QED BY <1>a, <2>1, <2>2, SocketKeeps DEF runtime, TypeOK
<1>2. CASE Close(c) \/ Stop(c)
  <2>1. /\ conn' \in [Clients -> {"closed", "greeted", "open", "stopping", "closing"}]
        /\ interrupt' \in BOOLEAN
        /\ UNCHANGED <<clients, current, waiting, slot, stage, loaded, sink, asked, abandoned>>
    BY <1>a, <1>2 DEF Close, Stop, Interrupts, TypeOK
  <2>2. clients' = Cardinality(Connected)' /\ clients' \in 0..Cardinality(Clients)
    BY <1>a, <1>2, SocketsCounted DEF Close, Stop
  <2> QED BY <1>a, <2>1, <2>2, SocketKeeps DEF TypeOK
<1>3. CASE Closed(c)
  <2>1. /\ conn' \in [Clients -> {"closed", "greeted", "open", "stopping", "closing"}]
        /\ UNCHANGED <<waiting, runtime>>
    BY <1>a, <1>3 DEF Closed, TypeOK
  <2>2. clients' = Cardinality(Connected)' /\ clients' \in 0..Cardinality(Clients)
    BY <1>a, <1>3, SocketsCounted DEF Closed
  <2>3. CASE current[c] = None
    BY <1>3, <1>a, <2>1, <2>2, <2>3, SocketKeeps DEF Closed, runtime, TypeOK
  <2>4. CASE current[c] # None
    <3>1. /\ current' = [current EXCEPT ![c] = None] /\ slot' = None /\ stage' = Denied
          /\ abandoned' = abandoned \cup {current[c]}
      BY <1>3, <2>4 DEF Closed
    <3>2. stage' \in [Runs -> {"new", "loading", "saving", "routing", "acting", "prompting",
                               "returned", "done", "dead"}]
      BY <1>a, <3>1 DEF Denied, TypeOK
    <3> QED BY <2>1, <2>2, <2>4, <3>1, <3>2, LastHolder, SlotFreed
  <2> QED BY <2>3, <2>4
<1>4. CASE StopDenies(c)
  <2>1. /\ conn' \in [Clients -> {"closed", "greeted", "open", "stopping", "closing"}]
        /\ stage' = Denied /\ UNCHANGED <<clients, current, waiting, slot, abandoned, runtime>>
    BY <1>a, <1>4 DEF StopDenies, TypeOK
  <2>2. clients' = Cardinality(Connected)'
    BY <1>a, <1>4, SocketsCounted DEF StopDenies
  <2>3. TypeOK'
    BY <1>a, <2>1 DEF Denied, TypeOK, runtime
  <2>4. HeldByOne'
    BY <2>1 DEF GatewayInv, HeldByOne
  <2>5. \A r \in Runs : stage'[r] = stage[r] \/ (stage[r] = "prompting" /\ stage'[r] = "acting")
    BY <2>1 DEF Denied
  <2>6. WorkHoldsSlot'
    BY <2>1, <2>5 DEF GatewayInv, WorkHoldsSlot, runtime
  <2> QED BY <2>2, <2>3, <2>4, <2>6 DEF GatewayInv
<1>5. CASE Deliver(c)
  <2>1. /\ current[c] # None /\ stage[current[c]] = "done"
        /\ current' = [current EXCEPT ![c] = None] /\ slot' = None
        /\ UNCHANGED <<conn, clients, waiting, stage, abandoned, runtime>>
    BY <1>5 DEF Deliver
  <2>2. clients' = Cardinality(Connected)'
    BY <1>a, <2>1 DEF Connected
  <2>3. /\ current[c] \in Runs /\ slot = current[c] /\ waiting' = {}
        /\ current' \in [Clients -> {None}]
    BY <2>1, LastHolder
  <2>4. /\ conn' \in [Clients -> {"closed", "greeted", "open", "stopping", "closing"}]
        /\ clients' \in 0..Cardinality(Clients)
        /\ stage' \in [Runs -> {"new", "loading", "saving", "routing", "acting", "prompting",
                               "returned", "done", "dead"}]
    BY <1>a, <2>1 DEF TypeOK
  <2> QED BY <2>1, <2>2, <2>3, <2>4, SlotFreed
<1>6. CASE ChangeSession(c)
  <2>1. /\ loaded' = TRUE /\ interrupt' = FALSE
        /\ UNCHANGED <<sockets, waiting, slot, stage, sink, asked, abandoned>>
    BY <1>6 DEF ChangeSession
  <2>2. clients' = Cardinality(Connected)'
    BY <1>a, <2>1 DEF Connected, sockets
  <2> QED BY <1>a, <2>1, <2>2, SocketKeeps DEF TypeOK, sockets
<1> QED BY <1>1, <1>2, <1>3, <1>4, <1>5, <1>6

\* A task that is accepted finds the slot free, and then holds it.
LEMMA SubmitStep ==
  ASSUME GatewayInv, NEW r \in Runs, (\E c \in Clients : Submit(c, r)) \/ SubmitRest(r)
  PROVE  GatewayInv'
<1>1. /\ slot = None /\ slot' = r /\ stage[r] = "new" /\ stage' = [stage EXCEPT ![r] = "loading"]
      /\ UNCHANGED <<conn, clients, abandoned, runtime>>
  BY DEF Submit, SubmitRest, BeginTask, sockets
<1>2. /\ \A c \in Clients : current[c] = None
      /\ waiting = {}
  BY <1>1, GatewayAssumption DEF GatewayInv, HeldByOne, TypeOK
<1>3. r # None /\ clients' = Cardinality(Connected)'
  BY <1>1, GatewayAssumption DEF GatewayInv, Connected
<1>4. HeldByOne' /\ current' \in [Clients -> Runs \cup {None}] /\ waiting' \subseteq Rest
  <2>1. CASE \E c \in Clients : Submit(c, r)
    <3>1. PICK c \in Clients : current' = [current EXCEPT ![c] = r] /\ waiting' = waiting
      BY <2>1 DEF Submit
    <3>2. \A d \in Clients : current'[d] = IF d = c THEN r ELSE None
      BY <1>2, <3>1 DEF GatewayInv, TypeOK
    <3> QED BY <1>1, <1>2, <1>3, <3>1, <3>2 DEF HeldByOne, GatewayInv, TypeOK
  <2>2. CASE SubmitRest(r)
    <3>1. r \in Rest /\ waiting' = {r} /\ current' = current
      BY <1>2, <2>2 DEF SubmitRest, sockets
    <3> QED BY <1>1, <1>2, <1>3, <3>1 DEF HeldByOne, GatewayInv, TypeOK
  <2> QED BY <2>1, <2>2
<1>5. TypeOK'
  BY <1>1, <1>4 DEF GatewayInv, TypeOK, runtime
<1>6. WorkHoldsSlot'
  <2> SUFFICES ASSUME abandoned' = {}, NEW o \in Runs
               PROVE  /\ stage'[o] \in InHand => slot' = o
                      /\ stage'[o] \in {"acting", "prompting"} => sink' = o
                      /\ stage'[o] = "prompting" => asked'[o] = o
    BY DEF WorkHoldsSlot, InHand
  <2>1. stage[o] \notin InHand
    BY <1>1, GatewayAssumption DEF GatewayInv, WorkHoldsSlot, InHand
  <2>2. stage'[o] = IF o = r THEN "loading" ELSE stage[o]
    BY <1>1 DEF GatewayInv, TypeOK
  <2> QED BY <1>1, <2>1, <2>2 DEF InHand
<1> QED BY <1>3, <1>4, <1>5, <1>6 DEF GatewayInv

\* Every step of a run keeps GatewayInv.
LEMMA RunsStep ==
  ASSUME GatewayInv, NEW r \in Runs, RunStep(r)
  PROVE  GatewayInv'
<1>a. /\ loaded \in BOOLEAN /\ interrupt \in BOOLEAN /\ sink \in Runs \cup {None}
      /\ asked \in [Runs -> Runs \cup {None}]
  BY DEF GatewayInv, TypeOK
<1>b. stage[r] \in {"acting", "prompting"} /\ abandoned = {} => sink = r
  BY DEF GatewayInv, WorkHoldsSlot
<1>1. CASE Load(r)
  BY <1>a, <1>1, RunKeeps DEF Load, To, InHand
<1>2. CASE Save(r)
  BY <1>a, <1>2, RunKeeps DEF Save, To, InHand
<1>3. CASE Route(r)
  BY <1>a, <1>3, RunKeeps DEF Route, To, InHand
<1>4. CASE Ask(r)
  <2>1. stage[r] = "acting" /\ stage' = [stage EXCEPT ![r] = "prompting"]
        /\ asked' = [asked EXCEPT ![r] = sink]
        /\ UNCHANGED <<sockets, waiting, slot, loaded, interrupt, sink, abandoned>>
    BY <1>4 DEF Ask, To
  <2>2. /\ asked' \in [Runs -> Runs \cup {None}] /\ asked'[r] = sink
        /\ \A o \in Runs \ {r} : asked'[o] = asked[o]
    BY <1>a, <2>1
  <2> QED BY <1>a, <1>b, <2>1, <2>2, RunKeeps DEF InHand
<1>5. CASE Answered(r)
  BY <1>a, <1>b, <1>5, RunKeeps DEF Answered, To, InHand, runtime
<1>6. CASE Return(r)
  BY <1>a, <1>6, RunKeeps DEF Return, To, InHand
<1>7. CASE Report(r)
  BY <1>a, <1>7, RunKeeps DEF Report, To, InHand, runtime
<1>8. CASE Panic(r)
  BY <1>a, <1>8, RunKeeps DEF Panic, To, InHand, runtime
<1> QED BY <1>1, <1>2, <1>3, <1>4, <1>5, <1>6, <1>7, <1>8 DEF RunStep

\* The REST handler goes, its caller gone or its answer sent.
LEMMA RestStep ==
  ASSUME GatewayInv, NEW r \in Runs, HangUp(r) \/ Reply(r)
  PROVE  GatewayInv'
<1>1. /\ r \in waiting /\ waiting' = waiting \ {r} /\ slot' = None
      /\ UNCHANGED <<sockets, runtime>>
  BY DEF HangUp, Reply
<1>2. slot = r /\ waiting' = {} /\ current' \in [Clients -> {None}]
  BY <1>1, LastHolder DEF sockets
<1>3. clients' = Cardinality(Connected)' /\ clients' \in 0..Cardinality(Clients)
      /\ conn' \in [Clients -> {"closed", "greeted", "open", "stopping", "closing"}]
  BY <1>1 DEF GatewayInv, TypeOK, Connected, sockets
<1>4. stage' \in [Runs -> {"new", "loading", "saving", "routing", "acting", "prompting",
                           "returned", "done", "dead"}]
  BY DEF GatewayInv, TypeOK, HangUp, Reply
<1>5. \/ abandoned' = abandoned \cup {r}
      \/ abandoned' = abandoned /\ stage' = stage /\ stage[r] \in {"done", "dead"}
  BY DEF HangUp, Reply
<1> QED BY <1>1, <1>2, <1>3, <1>4, <1>5, SlotFreed

\* Every step keeps GatewayInv.
LEMMA GatewayStep == GatewayInv /\ [Next]_vars => GatewayInv'
<1> SUFFICES ASSUME GatewayInv, [Next]_vars PROVE GatewayInv'
  OBVIOUS
<1>1. CASE UNCHANGED vars
  BY <1>1 DEF vars, GatewayInv, TypeOK, HeldByOne, WorkHoldsSlot, Connected
<1> QED BY <1>1, SocketStep, SubmitStep, RunsStep, RestStep DEF Next

\* GatewayInv holds throughout.
LEMMA GatewayInvHolds == Spec => []GatewayInv
BY GatewayInit, GatewayStep, PTL DEF Spec

\* Every reachable state of the gateway has the types TypeOK gives it.
THEOREM TypeCorrect == Spec => []TypeOK
BY GatewayInvHolds, PTL DEF GatewayInv

\* A taken slot has exactly one holder and host.clients counts the sockets,
\* whatever way connections, REST requests and runs end.
THEOREM BooksBalanceHolds == Spec => []BooksBalance
<1>1. GatewayInv => BooksBalance
  <2> SUFFICES ASSUME GatewayInv PROVE BooksBalance
    OBVIOUS
  <2>1. ASSUME slot # None
        PROVE  Cardinality({c \in Clients : current[c] = slot}) + Cardinality(waiting) = 1
    <3>1. CASE waiting = {} /\ \E c \in Clients : \A d \in Clients : current[d] = slot <=> d = c
      <4>1. PICK c \in Clients : \A d \in Clients : current[d] = slot <=> d = c
        BY <3>1
      <4>2. {d \in Clients : current[d] = slot} = {c}
        BY <4>1
      <4>3. Cardinality({c}) = 1 /\ Cardinality({}) = 0
        BY FS_EmptySet, FS_Singleton
      <4> QED BY <3>1, <4>2, <4>3
    <3>2. CASE waiting = {slot} /\ \A c \in Clients : current[c] # slot
      <4>1. {d \in Clients : current[d] = slot} = {}
        BY <3>2
      <4>2. Cardinality({slot}) = 1 /\ Cardinality({}) = 0
        BY FS_EmptySet, FS_Singleton
      <4> QED BY <3>2, <4>1, <4>2
    <3> QED BY <2>1, <3>1, <3>2 DEF GatewayInv, HeldByOne
  <2> QED BY <2>1 DEF GatewayInv, HeldByOne, BooksBalance, Connected
<1> QED BY <1>1, GatewayInvHolds, PTL

\* While nobody went away, one run works at a time and its prompts go to its
\* own requester.
THEOREM RunsKeptApartHolds == Spec => []RunsKeptApart
<1>1. GatewayInv => RunsKeptApart
  <2> SUFFICES ASSUME GatewayInv, abandoned = {}
               PROVE  /\ Cardinality(Working) <= 1
                      /\ \A r \in Runs : stage[r] = "prompting" => asked[r] = r
    BY DEF RunsKeptApart
  <2>1. Working = {} \/ Working = {slot}
    <3>1. \A r \in Working : slot = r
      BY DEF GatewayInv, WorkHoldsSlot, Working
    <3> QED BY <3>1
  <2>2. Cardinality(Working) <= 1
    <3>1. Cardinality({slot}) = 1 /\ Cardinality({}) = 0
      BY FS_EmptySet, FS_Singleton
    <3> QED BY <2>1, <3>1
  <2> QED BY <2>2 DEF GatewayInv, WorkHoldsSlot
<1> QED BY <1>1, GatewayInvHolds, PTL
-----------------------------------------------------------------------------
\* The skill store: what it reports as recorded it keeps.

\* SkillsInv holds of a store that was just set up.
LEMMA SkillsInvInit == SkillsInit => SkillsInv
<1> SUFFICES ASSUME SkillsInit PROVE SkillsInv
  OBVIOUS
<1>1. \A k \in Kinds : Total(Uncounted[k]) = 0
  BY DEF Uncounted, Total
<1>2. Uncounted \in [Kinds -> [ok : Nat, bad : Nat]]
  BY DEF Uncounted
<1>3. DOMAIN NoAct = ActFields /\ NoAct.at = "none"
  BY DEF NoAct, ActFields
<1>4. /\ saver = NoSaver /\ acts = [s \in Skilled |-> NoAct] /\ running = TRUE
      /\ counts = Uncounted /\ answered = [k \in Kinds |-> 0]
      /\ countsFile.torn = FALSE /\ countsFile.counts = Uncounted
  BY DEF SkillsInit, Whole
<1>5. countsFile \in [torn : BOOLEAN, counts : [Kinds -> [ok : Nat, bad : Nat]]]
  BY <1>2 DEF SkillsInit, Whole
<1>6. \A k \in Kinds : Counted(k) = 0
  BY <1>4, SkillsAssumption DEF Counted
<1> QED BY <1>1, <1>2, <1>3, <1>4, <1>5, <1>6, SkillsAssumption DEF SkillsInv

\* A step of somebody who neither saves before nor after it, and leaves the counts
\* and the lock alone.
LEMMA OtherActs ==
  ASSUME SkillsInv, NEW s \in Skilled, NEW act, Goes(s, act), CountsRest, StoreRests,
         acts[s].at \notin {"saving", "writing"}, act.at \notin {"saving", "writing"},
         DOMAIN act = ActFields
  PROVE  SkillsInv'
BY DEF SkillsInv, Goes, CountsRest, StoreRests, Counted, Total

\* Somebody who saved does so no more: the lock is free.
LEMMA SaverLeaves ==
  ASSUME SkillsInv, NEW s \in Skilled, saver = s, Goes(s, NoAct), saver' = NoSaver
  PROVE  /\ DOMAIN acts' = Skilled /\ \A t \in Skilled : DOMAIN acts'[t] = ActFields
         /\ \A t \in Skilled : acts'[t].at \notin {"saving", "writing"}
         /\ \A k \in Kinds : Counted(k)' = 0
BY SkillsAssumption DEF SkillsInv, Goes, NoAct, ActFields, Counted

\* Every step of the store keeps SkillsInv.
LEMMA SkillsInvStep == SkillsInv /\ [SkillsNext]_skillsVars => SkillsInv'
<1> SUFFICES ASSUME SkillsInv, [SkillsNext]_skillsVars PROVE SkillsInv'
  OBVIOUS
<1>1. ASSUME NEW s \in Skilled, NEW k \in Kinds, NEW well \in BOOLEAN, RecordOutcome(s, k, well)
      PROVE  SkillsInv'
  <2>1. /\ saver = NoSaver /\ saver' = s /\ running /\ running' = running
        /\ acts' = [acts EXCEPT ![s] = [NoAct EXCEPT !.at = "saving", !.kind = k]]
        /\ UNCHANGED <<countsFile, answered>>
    BY <1>1 DEF RecordOutcome, Rests, Goes, StoreRests
  <2>2. /\ counts' \in [Kinds -> [ok : Nat, bad : Nat]]
        /\ \A j \in Kinds : Total(counts'[j]) = Total(counts[j]) + (IF j = k THEN 1 ELSE 0)
    <3>1. counts[k] \in [ok : Nat, bad : Nat] /\ counts' = [counts EXCEPT ![k] = Bumped(counts[k], well)]
      BY <1>1 DEF RecordOutcome, SkillsInv
    <3>2. Bumped(counts[k], well) \in [ok : Nat, bad : Nat]
          /\ Total(Bumped(counts[k], well)) = Total(counts[k]) + 1
      BY <3>1 DEF Bumped, Total
    <3>3. \A j \in Kinds : Total(counts[j]) \in Nat
      BY DEF SkillsInv, Total
    <3> QED BY <3>1, <3>2, <3>3 DEF SkillsInv
  <2>3. /\ DOMAIN acts' = Skilled /\ \A t \in Skilled : DOMAIN acts'[t] = ActFields
        /\ acts'[s].at = "saving" /\ acts'[s].kind = k
        /\ \A t \in Skilled \ {s} : acts'[t] = acts[t]
    BY <2>1 DEF SkillsInv, NoAct, ActFields
  <2>4. \A j \in Kinds : Total(counts[j]) \in Nat /\ Counted(j) = 0 /\ Counted(j)' = IF j = k THEN 1 ELSE 0
    BY <2>1, <2>3, SkillsAssumption DEF SkillsInv, Counted, Total
  <2>5. \A t \in Skilled : acts'[t].at \in {"saving", "writing"} <=> saver' = t
    BY <2>1, <2>3, SkillsAssumption DEF SkillsInv
  <2>6. \A j \in Kinds : /\ ~countsFile'.torn => Total(countsFile'.counts[j]) >= answered'[j]
                         /\ running' => Total(counts'[j]) >= answered'[j] + Counted(j)'
    BY <2>1, <2>2, <2>4 DEF SkillsInv
  <2>7. /\ answered' \in [Kinds -> Nat] /\ running' \in BOOLEAN /\ saver' \in Skilled \cup {NoSaver}
        /\ countsFile' \in [torn : BOOLEAN, counts : [Kinds -> [ok : Nat, bad : Nat]]]
    BY <2>1 DEF SkillsInv
  <2>8. saver' \in Skilled => running' /\ acts'[saver'].kind \in Kinds
    BY <2>1, <2>3
  <2> QED BY <2>2, <2>3, <2>5, <2>6, <2>7, <2>8 DEF SkillsInv
<1>2. ASSUME NEW s \in Skilled, OpenFile(s) PROVE SkillsInv'
  <2>1. /\ acts' = [acts EXCEPT ![s] = [acts[s] EXCEPT !.at = "writing"]]
        /\ countsFile' = [countsFile EXCEPT !.torn = TRUE] /\ acts[s].at = "saving"
        /\ UNCHANGED <<counts, saver, answered, running>>
    BY <1>2 DEF OpenFile, Goes, StoreRests
  <2>2. /\ DOMAIN acts' = Skilled /\ \A t \in Skilled : DOMAIN acts'[t] = ActFields
        /\ \A t \in Skilled : acts'[t].kind = acts[t].kind
        /\ \A t \in Skilled : acts'[t].at \in {"saving", "writing"} <=> acts[t].at \in {"saving", "writing"}
    BY <2>1 DEF SkillsInv, ActFields
  <2>3. \A k \in Kinds : Counted(k)' = Counted(k)
    BY <2>1, <2>2 DEF Counted
  <2> QED BY <2>1, <2>2, <2>3 DEF SkillsInv
<1>3. ASSUME NEW s \in Skilled, SaveCounts(s) PROVE SkillsInv'
  <2>1. /\ saver = s /\ saver' = NoSaver /\ running /\ Goes(s, NoAct) /\ countsFile' = Whole(counts)
        /\ answered' = [answered EXCEPT ![acts[s].kind] = @ + 1]
        /\ UNCHANGED <<counts, running>>
    BY <1>3 DEF SaveCounts, StoreRests
  <2>2. \A k \in Kinds : answered'[k] = answered[k] + Counted(k)
    BY <2>1 DEF SkillsInv, Counted
  <2>3. answered' \in [Kinds -> Nat] /\ countsFile' \in [torn : BOOLEAN, counts : [Kinds -> [ok : Nat, bad : Nat]]]
    BY <2>1 DEF SkillsInv, Whole
  <2>4. \A k \in Kinds : Total(counts[k]) \in Nat
    BY DEF SkillsInv, Total
  <2> QED BY <2>1, <2>2, <2>3, <2>4, SaverLeaves, SkillsAssumption DEF SkillsInv, Whole
<1>4. ASSUME NEW s \in Skilled, SaveFails(s) PROVE SkillsInv'
  <2>1. /\ saver = s /\ saver' = NoSaver /\ Goes(s, NoAct)
        /\ UNCHANGED <<counts, countsFile, answered, running>>
    BY <1>4 DEF SaveFails, SkillsInv
  <2>2. \A k \in Kinds : Total(counts[k]) \in Nat /\ Counted(k) \in {0, 1}
    BY DEF SkillsInv, Total, Counted
  <2> QED BY <2>1, <2>2, SaverLeaves, SkillsAssumption DEF SkillsInv
<1>5. ASSUME NEW s \in Skilled, NEW tasks, Learn(s, tasks) PROVE SkillsInv'
  <2> DEFINE todo == [i \in DOMAIN DetectPatterns(tasks) |-> DetectPatterns(tasks)[i][1][1]]
             act  == [NoAct EXCEPT !.at = "choosing", !.todo = todo]
  <2>1. /\ acts[s].at = "none" /\ Goes(s, act) /\ CountsRest /\ StoreRests
    BY <1>5 DEF Learn, Rests
  <2> HIDE DEF todo
  <2>2. act.at = "choosing" /\ DOMAIN act = ActFields
    BY DEF NoAct, ActFields
  <2> QED BY <2>1, <2>2, OtherActs
<1>6. ASSUME NEW s \in Skilled, ChooseSkill(s) PROVE SkillsInv'
  <2> DEFINE rest == [acts[s] EXCEPT !.todo = Tail(@)]
             act  == IF SomethingLike(Head(acts[s].todo)) THEN Next1(rest)
                     ELSE [rest EXCEPT !.at = "making", !.kind = Head(acts[s].todo)]
  <2>1. /\ acts[s].at = "choosing" /\ Goes(s, act) /\ CountsRest /\ StoreRests
    BY <1>6 DEF ChooseSkill
  <2>2. rest.at = "choosing" /\ DOMAIN rest = ActFields
    BY <2>1 DEF SkillsInv, ActFields
  <2>3. act.at \in {"none", "choosing", "making"} /\ DOMAIN act = ActFields
    BY <2>2 DEF Next1, NoAct, ActFields
  <2> QED BY <2>1, <2>3, OtherActs
<1>7. ASSUME NEW s \in Skilled, MakeSkill(s) PROVE SkillsInv'
  <2> DEFINE act == [acts[s] EXCEPT !.at = "learned"]
  <2>1. /\ acts[s].at = "making" /\ Goes(s, act) /\ CountsRest /\ StoreRests
    BY <1>7 DEF MakeSkill
  <2>2. act.at = "learned" /\ DOMAIN act = ActFields
    BY DEF SkillsInv, ActFields
  <2> QED BY <2>1, <2>2, OtherActs
<1>8. ASSUME NEW s \in Skilled, KeepPattern(s) PROVE SkillsInv'
  <2> DEFINE act == Next1([acts[s] EXCEPT !.at = "choosing"])
  <2>1. /\ acts[s].at = "learned" /\ Goes(s, act) /\ CountsRest /\ StoreRests
    BY <1>8 DEF KeepPattern
  <2>2. act.at \in {"none", "choosing"} /\ DOMAIN act = ActFields
    BY DEF SkillsInv, Next1, NoAct, ActFields
  <2> QED BY <2>1, <2>2, OtherActs
<1>9. ASSUME NEW s \in Skilled, NEW k \in Kinds, NEW change, Analyse(s, k, change) PROVE SkillsInv'
  <2> DEFINE act == [NoAct EXCEPT !.at = "reading", !.kind = k, !.change = change]
  <2>1. /\ acts[s].at = "none" /\ Goes(s, act) /\ CountsRest /\ StoreRests
    BY <1>9 DEF Analyse, Rests
  <2>2. act.at = "reading" /\ DOMAIN act = ActFields
    BY DEF NoAct, ActFields
  <2> QED BY <2>1, <2>2, OtherActs
<1>10. ASSUME NEW s \in Skilled, ReadSkill(s) PROVE SkillsInv'
  <2> DEFINE act == [acts[s] EXCEPT !.at = "changing", !.held = book[acts[s].kind]]
  <2>1. /\ acts[s].at = "reading" /\ Goes(s, act) /\ CountsRest /\ StoreRests
    BY <1>10 DEF ReadSkill
  <2>2. act.at = "changing" /\ DOMAIN act = ActFields
    BY DEF SkillsInv, ActFields
  <2> QED BY <2>1, <2>2, OtherActs
<1>11. ASSUME NEW s \in Skilled, WriteSkill(s) PROVE SkillsInv'
  <2>1. /\ acts[s].at = "changing" /\ Goes(s, NoAct) /\ CountsRest /\ StoreRests
    BY <1>11 DEF WriteSkill
  <2>2. NoAct.at = "none" /\ DOMAIN NoAct = ActFields
    BY DEF NoAct, ActFields
  <2> QED BY <2>1, <2>2, OtherActs
<1>12. CASE StoreDies
  <2>1. \A t \in Skilled : acts'[t].at = "none" /\ DOMAIN acts'[t] = ActFields
    BY <1>12 DEF StoreDies, NoAct, ActFields
  <2>2. counts' \in [Kinds -> [ok : Nat, bad : Nat]]
    BY <1>12 DEF StoreDies, Uncounted
  <2> QED BY <1>12, <2>1, <2>2, SkillsAssumption DEF StoreDies, SkillsInv
<1>13. CASE OpenStore
  <2>1. saver = NoSaver
    BY <1>13, SkillsAssumption DEF OpenStore, SkillsInv
  <2>2. \A k \in Kinds : Counted(k)' = 0
    BY <1>13, <2>1, SkillsAssumption DEF OpenStore, Counted
  <2>3. \A k \in Kinds : Total(counts'[k]) >= answered'[k] + 0
    BY <1>13 DEF OpenStore, SkillsInv
  <2> QED BY <1>13, <2>1, <2>2, <2>3, SkillsAssumption DEF OpenStore, SkillsInv
<1>14. CASE UNCHANGED skillsVars
  BY <1>14 DEF skillsVars, SkillsInv, Counted
<1> QED BY <1>1, <1>2, <1>3, <1>4, <1>5, <1>6, <1>7, <1>8, <1>9, <1>10, <1>11, <1>12, <1>13, <1>14
        DEF SkillsNext

\* SkillsInv holds throughout.
LEMMA SkillsInvHolds == SkillsSpec => []SkillsInv
BY SkillsInvInit, SkillsInvStep, PTL DEF SkillsSpec

\* An outcome the store reported as recorded is in memory, and in every file it
\* can open again, whatever failed and whoever recorded beside it.
THEOREM RecordedIsCountedHolds == SkillsSpec => []RecordedIsCounted
<1>1. SkillsInv => RecordedIsCounted
  <2> SUFFICES ASSUME SkillsInv, NEW k \in Kinds
               PROVE  /\ ~countsFile.torn => Total(countsFile.counts[k]) >= answered[k]
                      /\ running => Total(counts[k]) >= answered[k]
    BY DEF RecordedIsCounted
  <2>1. Total(counts[k]) \in Nat /\ answered[k] \in Nat /\ Counted(k) \in {0, 1}
    BY DEF SkillsInv, Total, Counted
  <2> QED BY <2>1 DEF SkillsInv
<1> QED BY <1>1, SkillsInvHolds, PTL
-----------------------------------------------------------------------------
\* The page library: the file of a page nobody writes follows its row.

Writes == {"creating", "saving", "titled", "deleting"}
\* The calls of the editors other than e are where they were.
OthersRest(e) == \A r \in Editors \ {e} : asks'[r] = asks[r]
\* What has become of the rows, as far as a sheet tells of it.
SameRow(p) == pages'[p].is = pages[p].is /\ pages'[p].title = pages[p].title /\ pages'[p].text = pages[p].text
Shaped(ask) == DOMAIN ask = DOMAIN NoAsk

\* What it is to enter: the call is as given, the other calls are as they were, and
\* whoever was writing the page is no longer alone on it.
LEMMA Entered ==
  ASSUME NEW e \in Editors, NEW ask, Shaped(ask), LibraryShape, Enters(e, ask)
  PROVE  /\ DOMAIN asks' = Editors /\ \A r \in Editors : Shaped(asks'[r])
         /\ asks'[e].at = ask.at /\ asks'[e].page = ask.page /\ asks'[e].title = ask.title /\ asks'[e].text = ask.text
         /\ \A r \in Editors \ {e} : /\ asks'[r].at = asks[r].at /\ asks'[r].page = asks[r].page
                                     /\ asks'[r].title = asks[r].title /\ asks'[r].text = asks[r].text
<1>1. DOMAIN asks' = Editors
  BY DEF Enters
<1>2. asks'[e] = [ask EXCEPT !.alone = Rivals(e, ask.page) = {}]
  BY DEF Enters
<1>3. \A r \in Editors \ {e} : asks'[r] = [asks[r] EXCEPT !.alone = @ /\ ~Writing(r, ask.page)]
  BY DEF Enters
<1>4. Shaped(asks'[e]) /\ asks'[e].at = ask.at /\ asks'[e].page = ask.page /\ asks'[e].title = ask.title /\ asks'[e].text = ask.text
  BY <1>2 DEF Shaped, NoAsk
<1>5. ASSUME NEW r \in Editors \ {e}
      PROVE  /\ Shaped(asks'[r]) /\ asks'[r].at = asks[r].at /\ asks'[r].page = asks[r].page
             /\ asks'[r].title = asks[r].title /\ asks'[r].text = asks[r].text
  BY <1>3, <1>5 DEF Shaped, NoAsk, LibraryShape
<1> QED
  BY <1>1, <1>4, <1>5

\* Who enters is alone if nobody else is writing the page, and takes that from whoever is.
LEMMA EnteredAlone ==
  ASSUME NEW e \in Editors, NEW ask, Shaped(ask), LibraryShape, Enters(e, ask)
  PROVE  /\ asks'[e].alone => Rivals(e, ask.page) = {}
         /\ \A r \in Editors \ {e} : asks'[r].alone => asks[r].alone /\ ~Writing(r, ask.page)
<1>2. asks'[e] = [ask EXCEPT !.alone = Rivals(e, ask.page) = {}]
  BY DEF Enters
<1>3. \A r \in Editors \ {e} : asks'[r] = [asks[r] EXCEPT !.alone = @ /\ ~Writing(r, ask.page)]
  BY DEF Enters
<1>4. asks'[e].alone => Rivals(e, ask.page) = {}
  BY <1>2 DEF Shaped, NoAsk
<1>5. ASSUME NEW r \in Editors \ {e}
      PROVE  asks'[r].alone => asks[r].alone /\ ~Writing(r, ask.page)
  BY <1>3, <1>5 DEF Shaped, NoAsk, LibraryShape
<1> QED
  BY <1>4, <1>5

\* A call that changes the row and goes on to the file: nothing is promised of the page until it is done.
LEMMA EnterKeeps ==
  ASSUME SheetsInv, NEW e \in Editors, asks[e].at \notin Writes,
         NEW ask, Shaped(ask), ask.at \in Writes, Enters(e, ask),
         DOMAIN pages' = PageIds, \A q \in PageIds : DOMAIN pages'[q] = DOMAIN NoPage,
         \A q \in PageIds \ {ask.page} : pages'[q] = pages[q],
         UNCHANGED <<sheets, stale>>,
         ask.page \in PageIds => FoundAsLeft(ask, pages'[ask.page])
  PROVE  SheetsInv'
<1>1. LibraryShape
  BY DEF SheetsInv
<1>2. LibraryShape'
  BY <1>1, Entered DEF LibraryShape, Shaped
<1>3. /\ \A q : Writing(e, q)' <=> q = ask.page
      /\ \A r \in Editors \ {e}, q \in PageIds : Writing(r, q)' <=> Writing(r, q)
      /\ \A q : ~Writing(e, q)
  BY <1>1, Entered DEF Writing, Writes
<1>4. ASSUME NEW q \in PageIds \ stale', \A r \in Editors : ~Writing(r, q)'
      PROVE  sheets'[q] = IF Written(q)' THEN Sheet(pages'[q].title, pages'[q].text) ELSE NoSheet
  <2>1. q # ask.page
    BY <1>3, <1>4
  <2>2. \A r \in Editors : ~Writing(r, q)
    BY <1>3, <1>4
  <2>3. q \in PageIds \ stale /\ pages'[q] = pages[q] /\ sheets'[q] = sheets[q]
    BY <2>1
  <2> QED
    BY <2>2, <2>3 DEF SheetsInv, SheetFollowsRow, Written
<1>5. ASSUME NEW q \in PageIds, NEW r \in Editors, Writing(r, q)', asks'[r].alone
      PROVE  Rivals(r, q)' = {} /\ FoundAsLeft(asks'[r], pages'[q])
  <2>1. CASE r = e
    <3>1. q = ask.page
      BY <1>3, <1>5, <2>1
    <3>2. Rivals(e, q) = {}
      BY <1>1, <1>5, <2>1, <3>1, EnteredAlone
    <3>3. Rivals(e, q)' = {}
      BY <1>3, <3>2 DEF Rivals
    <3>4. FoundAsLeft(asks'[e], pages'[q])
      BY <1>1, <3>1, Entered DEF FoundAsLeft
    <3> QED
      BY <2>1, <3>3, <3>4
  <2>2. CASE r # e
    <3>1. asks[r].alone /\ ~Writing(r, ask.page)
      BY <1>1, <1>5, <2>2, EnteredAlone
    <3>2. Writing(r, q) /\ q # ask.page
      BY <1>3, <1>5, <2>2, <3>1
    <3>3. Rivals(r, q) = {} /\ FoundAsLeft(asks[r], pages[q])
      BY <3>1, <3>2 DEF SheetsInv
    <3>4. Rivals(r, q)' = {}
      BY <1>3, <3>2, <3>3 DEF Rivals
    <3>5. FoundAsLeft(asks'[r], pages'[q])
      BY <1>1, <2>2, <3>2, <3>3, Entered DEF FoundAsLeft
    <3> QED
      BY <3>4, <3>5
  <2> QED
    BY <2>1, <2>2
<1> QED
  BY <1>2, <1>4, <1>5 DEF SheetsInv, SheetFollowsRow

\* A file operation that ends a call: the file is right if the call was alone and it worked.
LEMMA SettleKeeps ==
  ASSUME SheetsInv, NEW e \in Editors, NEW p, Writing(e, p), NEW worked \in BOOLEAN, NEW sheet,
         pages' = pages, DOMAIN asks' = Editors, OthersRest(e), Shaped(asks'[e]), asks'[e].at \notin Writes,
         stale' = IF worked /\ asks[e].alone THEN stale \ {p} ELSE stale \cup {p},
         sheets' = IF worked THEN [sheets EXCEPT ![p] = sheet] ELSE sheets,
         p \in PageIds /\ asks[e].alone =>
           sheet = IF Written(p) THEN Sheet(pages[p].title, pages[p].text) ELSE NoSheet
  PROVE  SheetsInv'
<1>1. LibraryShape'
  BY DEF SheetsInv, LibraryShape, OthersRest, Shaped
<1>2. /\ \A q : ~Writing(e, q)'
      /\ \A r \in Editors \ {e}, q \in PageIds : Writing(r, q)' <=> Writing(r, q)
      /\ \A q : Writing(e, q) => q = p
  BY DEF Writing, Writes, OthersRest
<1>3. ASSUME NEW q \in PageIds \ stale', \A r \in Editors : ~Writing(r, q)'
      PROVE  sheets'[q] = IF Written(q)' THEN Sheet(pages'[q].title, pages'[q].text) ELSE NoSheet
  <2>1. CASE q = p
    <3>1. worked /\ asks[e].alone
      BY <1>3, <2>1
    <3>2. sheets'[q] = sheet
      BY <2>1, <3>1 DEF SheetsInv, LibraryShape
    <3> QED
      BY <2>1, <3>1, <3>2 DEF Written
  <2>2. CASE q # p
    <3>1. q \in PageIds \ stale
      BY <1>3, <2>2
    <3>2. \A r \in Editors : ~Writing(r, q)
      BY <1>2, <1>3, <2>2
    <3>3. sheets'[q] = sheets[q]
      BY <2>2 DEF SheetsInv, LibraryShape
    <3> QED
      BY <3>1, <3>2, <3>3 DEF SheetsInv, SheetFollowsRow, Written
  <2> QED
    BY <2>1, <2>2
<1>4. ASSUME NEW q \in PageIds, NEW r \in Editors, Writing(r, q)', asks'[r].alone
      PROVE  Rivals(r, q)' = {} /\ FoundAsLeft(asks'[r], pages'[q])
  <2>1. r # e /\ asks'[r] = asks[r] /\ Writing(r, q) /\ asks[r].alone
    BY <1>2, <1>4 DEF OthersRest
  <2>2. Rivals(r, q) = {} /\ FoundAsLeft(asks[r], pages[q])
    BY <2>1 DEF SheetsInv
  <2> QED
    BY <1>2, <2>1, <2>2 DEF Rivals
<1> QED
  BY <1>1, <1>3, <1>4 DEF SheetsInv, SheetFollowsRow

\* A step that leaves titles, texts and files alone.
LEMMA OtherKeeps ==
  ASSUME SheetsInv, NEW e \in Editors, asks[e].at \notin Writes,
         DOMAIN pages' = PageIds, \A q \in PageIds : DOMAIN pages'[q] = DOMAIN NoPage,
         \A q \in PageIds : SameRow(q),
         DOMAIN asks' = Editors, OthersRest(e), Shaped(asks'[e]), asks'[e].at \notin Writes,
         UNCHANGED <<sheets, stale>>
  PROVE  SheetsInv'
<1>1. LibraryShape'
  BY DEF SheetsInv, LibraryShape, OthersRest, Shaped
<1>2. \A r \in Editors, q \in PageIds : Writing(r, q)' <=> Writing(r, q)
  BY DEF Writing, Writes, OthersRest
<1>3. \A q \in PageIds : Written(q)' <=> Written(q)
  BY DEF Written, SameRow
<1>4. SheetFollowsRow'
  BY <1>2, <1>3 DEF SheetsInv, SheetFollowsRow, SameRow
<1>5. ASSUME NEW q \in PageIds, NEW r \in Editors, Writing(r, q)', asks'[r].alone
      PROVE  Rivals(r, q)' = {} /\ FoundAsLeft(asks'[r], pages'[q])
  <2>1. r # e
    BY <1>5 DEF Writing, Writes
  <2>2. asks'[r] = asks[r] /\ Writing(r, q) /\ asks[r].alone
    BY <1>2, <1>5, <2>1 DEF OthersRest
  <2>3. Rivals(r, q) = {} /\ FoundAsLeft(asks[r], pages[q])
    BY <2>2 DEF SheetsInv
  <2>4. Rivals(r, q)' = {}
    BY <1>2, <2>3 DEF Rivals
  <2>5. FoundAsLeft(asks[r], pages'[q])
    BY <2>3 DEF FoundAsLeft, SameRow
  <2> QED
    BY <2>2, <2>4, <2>5
<1> QED
  BY <1>1, <1>4, <1>5 DEF SheetsInv
\* A step in which e's call is put elsewhere, and no other call is touched.
LEMMA OnlyMine ==
  ASSUME LibraryShape, NEW e \in Editors, NEW ask, Shaped(ask), asks' = [asks EXCEPT ![e] = ask]
  PROVE  DOMAIN asks' = Editors /\ OthersRest(e) /\ Shaped(asks'[e]) /\ asks'[e] = ask
  BY DEF LibraryShape, OthersRest, Shaped

\* An editor with no file to write.
LEMMA InsertKeeps ==
  ASSUME SheetsInv, NEW e \in Editors, NEW p \in PageIds, InsertPage(e, p)
  PROVE  SheetsInv'
<1> DEFINE ask == [asks[e] EXCEPT !.at = "creating", !.page = p]
           row == [NoPage EXCEPT !.is = "kept", !.space = asks[e].space, !.title = asks[e].title]
<1>1. LibraryShape /\ Shaped(asks[e])
  BY DEF SheetsInv, LibraryShape, Shaped
<1>2. /\ Shaped(ask) /\ ask.at = "creating" /\ ask.page = p /\ ask.title = asks[e].title
  BY <1>1 DEF Shaped, NoAsk
<1>3. DOMAIN row = DOMAIN NoPage /\ row.is = "kept" /\ row.title = asks[e].title /\ row.text = NoText
  BY DEF NoPage
<1>4. pages' = [pages EXCEPT ![p] = row] /\ Enters(e, ask) /\ asks[e].at = "placing" /\ UNCHANGED <<sheets, stale>>
  BY DEF InsertPage, FilesRest
<1> HIDE DEF ask, row
<1>5. FoundAsLeft(ask, row)
  BY <1>2, <1>3 DEF FoundAsLeft
<1> QED
  BY <1>1, <1>2, <1>3, <1>4, <1>5, EnterKeeps DEF LibraryShape, Writes

\* The text of a row, before its file.
LEMMA UpdateTextKeeps ==
  ASSUME SheetsInv, NEW e \in Editors, UpdateText(e)
  PROVE  SheetsInv'
<1>1. LibraryShape /\ Shaped(asks[e])
  BY DEF SheetsInv, LibraryShape, Shaped
<1> DEFINE p == asks[e].page
           ask == [asks[e] EXCEPT !.at = "saving"]
<1>2. asks[e].at = "save" /\ asks[e].at \notin Writes /\ UNCHANGED <<sheets, stale>>
  BY DEF UpdateText, FilesRest, Writes
<1>3. CASE Written(p)
  <2>1. pages' = [pages EXCEPT ![p].text = asks[e].text] /\ Enters(e, ask)
    BY <1>3 DEF UpdateText
  <2>2. Shaped(ask) /\ ask.at = "saving" /\ ask.page = p /\ ask.text = asks[e].text
    BY <1>1 DEF Shaped, NoAsk
  <2>3. ASSUME p \in PageIds
        PROVE  pages'[p].is = "kept" /\ pages'[p].text = ask.text
    BY <1>1, <1>3, <2>1, <2>2, <2>3 DEF Written, LibraryShape, NoPage
  <2>4. /\ DOMAIN pages' = PageIds /\ \A q \in PageIds : DOMAIN pages'[q] = DOMAIN NoPage
        /\ \A q \in PageIds \ {p} : pages'[q] = pages[q]
    BY <1>1, <2>1 DEF LibraryShape, NoPage
  <2> HIDE DEF ask, p
  <2>5. p \in PageIds => FoundAsLeft(ask, pages'[p])
    BY <2>2, <2>3 DEF FoundAsLeft
  <2>6. ask.at \in Writes
    BY <2>2 DEF Writes
  <2> QED
    BY <1>2, <2>1, <2>2, <2>4, <2>5, <2>6, EnterKeeps
<1>4. CASE ~Written(p)
  <2>1. pages' = pages /\ asks' = [asks EXCEPT ![e] = NoAsk]
    BY <1>4 DEF UpdateText, Leaves
  <2>2. Shaped(NoAsk) /\ NoAsk.at \notin Writes
    BY DEF Shaped, NoAsk, Writes
  <2> QED
    BY <1>1, <1>2, <2>1, <2>2, OnlyMine, OtherKeeps DEF LibraryShape, SameRow
<1> QED
  BY <1>3, <1>4

\* The row goes before its file.
LEMMA DeleteKeeps ==
  ASSUME SheetsInv, NEW e \in Editors, NEW p, DeletePage(e, p)
  PROVE  SheetsInv'
<1> DEFINE ask == [NoAsk EXCEPT !.at = "deleting", !.page = p]
           row == [NoPage EXCEPT !.is = "deleted"]
<1>1. LibraryShape
  BY DEF SheetsInv
<1>2. Shaped(ask) /\ ask.at = "deleting" /\ ask.page = p
  BY DEF Shaped, NoAsk
<1>3. DOMAIN row = DOMAIN NoPage /\ row.is = "deleted"
  BY DEF NoPage
<1>4. pages' = [pages EXCEPT ![p] = row] /\ Enters(e, ask) /\ asks[e].at = "none" /\ UNCHANGED <<sheets, stale>>
  BY DEF DeletePage, FilesRest, Asks
<1> HIDE DEF ask, row
<1>5. FoundAsLeft(ask, row)
  BY <1>2, <1>3 DEF FoundAsLeft
<1> QED
  BY <1>1, <1>2, <1>3, <1>4, <1>5, EnterKeeps DEF LibraryShape, Writes

\* The last file operation of a call writes what the row tells of, if the call is alone.
LEMMA FirstSheetKeeps ==
  ASSUME SheetsInv, NEW e \in Editors, NEW worked \in BOOLEAN, FirstSheet(e, worked)
  PROVE  SheetsInv'
<1> DEFINE p == asks[e].page
           sheet == Sheet(asks[e].title, NoText)
<1>1. LibraryShape /\ Shaped(asks[e]) /\ Shaped(NoAsk) /\ NoAsk.at \notin Writes
  BY DEF SheetsInv, LibraryShape, Shaped, NoAsk, Writes
<1>2. Writing(e, p) /\ asks[e].at = "creating"
  BY DEF FirstSheet, Writing
<1>3. p \in PageIds /\ asks[e].alone =>
        sheet = IF Written(p) THEN Sheet(pages[p].title, pages[p].text) ELSE NoSheet
  BY <1>2 DEF SheetsInv, FoundAsLeft, Written
<1>4. /\ pages' = pages /\ sheets' = IF worked THEN [sheets EXCEPT ![p] = sheet] ELSE sheets
      /\ stale' = IF worked /\ asks[e].alone THEN stale \ {p} ELSE stale \cup {p}
  BY DEF FirstSheet, Settles
<1>5. asks' = [asks EXCEPT ![e] = NoAsk] \/ asks' = [asks EXCEPT ![e].at = "save"]
  BY DEF FirstSheet, Settles, Leaves
<1>6. DOMAIN asks' = Editors /\ OthersRest(e) /\ Shaped(asks'[e]) /\ asks'[e].at \notin Writes
  BY <1>1, <1>5 DEF LibraryShape, OthersRest, Shaped, NoAsk, Writes
<1> HIDE DEF p, sheet
<1> QED
  BY <1>2, <1>3, <1>4, <1>6, SettleKeeps

\* So does the file of a saved page.
LEMMA WriteSheetKeeps ==
  ASSUME SheetsInv, NEW e \in Editors, NEW worked \in BOOLEAN, WriteSheet(e, worked)
  PROVE  SheetsInv'
<1> DEFINE p == asks[e].page
           sheet == Sheet(asks[e].title, asks[e].text)
<1>1. LibraryShape /\ Shaped(NoAsk) /\ NoAsk.at \notin Writes
  BY DEF SheetsInv, LibraryShape, Shaped, NoAsk, Writes
<1>2. Writing(e, p) /\ asks[e].at = "titled"
  BY DEF WriteSheet, Writing
<1>3. p \in PageIds /\ asks[e].alone =>
        sheet = IF Written(p) THEN Sheet(pages[p].title, pages[p].text) ELSE NoSheet
  BY <1>2 DEF SheetsInv, FoundAsLeft, Written
<1>4. /\ pages' = pages /\ sheets' = IF worked THEN [sheets EXCEPT ![p] = sheet] ELSE sheets
      /\ stale' = IF worked /\ asks[e].alone THEN stale \ {p} ELSE stale \cup {p}
      /\ asks' = [asks EXCEPT ![e] = NoAsk]
  BY DEF WriteSheet, Settles, Leaves
<1> HIDE DEF p, sheet
<1> QED
  BY <1>1, <1>2, <1>3, <1>4, OnlyMine, SettleKeeps

\* So is the file of a deleted page removed.
LEMMA RemoveSheetKeeps ==
  ASSUME SheetsInv, NEW e \in Editors, NEW worked \in BOOLEAN, RemoveSheet(e, worked)
  PROVE  SheetsInv'
<1> DEFINE p == asks[e].page
<1>1. LibraryShape /\ Shaped(NoAsk) /\ NoAsk.at \notin Writes
  BY DEF SheetsInv, LibraryShape, Shaped, NoAsk, Writes
<1>2. Writing(e, p) /\ asks[e].at = "deleting"
  BY DEF RemoveSheet, Writing
<1>3. p \in PageIds /\ asks[e].alone =>
        NoSheet = IF Written(p) THEN Sheet(pages[p].title, pages[p].text) ELSE NoSheet
  BY <1>2 DEF SheetsInv, FoundAsLeft, Written
<1>4. /\ pages' = pages /\ sheets' = IF worked THEN [sheets EXCEPT ![p] = NoSheet] ELSE sheets
      /\ stale' = IF worked /\ asks[e].alone THEN stale \ {p} ELSE stale \cup {p}
      /\ asks' = [asks EXCEPT ![e] = NoAsk]
  BY DEF RemoveSheet, Settles, Leaves
<1> HIDE DEF p
<1> QED
  BY <1>1, <1>2, <1>3, <1>4, OnlyMine, SettleKeeps

\* The title is read from the row, which a call that is alone finds as it left it.
LEMMA ReadTitleKeeps ==
  ASSUME SheetsInv, NEW e \in Editors, ReadTitle(e)
  PROVE  SheetsInv'
<1> DEFINE p == asks[e].page
           seen == IF Written(p) THEN pages[p].title ELSE NoText
<1>1. LibraryShape /\ Shaped(asks[e])
  BY DEF SheetsInv, LibraryShape, Shaped
<1>2. asks[e].at = "saving" /\ asks' = [asks EXCEPT ![e].at = "titled", ![e].title = seen]
      /\ UNCHANGED <<pages, sheets, stale>>
  BY DEF ReadTitle, FilesRest
<1> HIDE DEF seen
<1>3. /\ DOMAIN asks' = Editors /\ OthersRest(e) /\ Shaped(asks'[e])
      /\ asks'[e].at = "titled" /\ asks'[e].page = p /\ asks'[e].title = seen /\ asks'[e].text = asks[e].text
  BY <1>1, <1>2 DEF LibraryShape, OthersRest, Shaped, NoAsk
<1>4. asks'[e].alone => asks[e].alone
  BY <1>1, <1>2 DEF LibraryShape, Shaped, NoAsk
<1>5. LibraryShape'
  BY <1>1, <1>2, <1>3 DEF LibraryShape, OthersRest, Shaped
<1>6. \A r \in Editors, q \in PageIds : Writing(r, q)' <=> Writing(r, q)
  BY <1>2, <1>3 DEF Writing, OthersRest
<1>7. SheetFollowsRow'
  BY <1>2, <1>6 DEF SheetsInv, SheetFollowsRow, Written
<1>8. ASSUME NEW q \in PageIds, NEW r \in Editors, Writing(r, q)', asks'[r].alone
      PROVE  Rivals(r, q)' = {} /\ FoundAsLeft(asks'[r], pages'[q])
  <2>1. Writing(r, q) /\ asks[r].alone
    BY <1>3, <1>4, <1>6, <1>8 DEF OthersRest
  <2>2. Rivals(r, q) = {} /\ FoundAsLeft(asks[r], pages[q])
    BY <2>1 DEF SheetsInv
  <2>3. Rivals(r, q)' = {}
    BY <1>6, <2>2 DEF Rivals
  <2>4. CASE r = e
    <3>1. q = p
      BY <2>1, <2>4 DEF Writing
    <3>2. pages[q].is = "kept" /\ pages[q].text = asks[e].text
      BY <1>2, <2>2, <2>4 DEF FoundAsLeft
    <3>3. seen = pages[q].title
      BY <3>1, <3>2 DEF seen, Written
    <3> QED
      BY <1>2, <1>3, <2>3, <2>4, <3>2, <3>3 DEF FoundAsLeft
  <2>5. CASE r # e
    BY <1>2, <1>3, <2>2, <2>3, <2>5 DEF OthersRest
  <2> QED
    BY <2>4, <2>5
<1> QED
  BY <1>5, <1>7, <1>8 DEF SheetsInv

\* The steps of calls that write no file of the library change no row a sheet tells of.
LEMMA AskingKeeps ==
  ASSUME SheetsInv, NEW e \in Editors, asks[e].at \notin Writes, NEW ask, Shaped(ask), ask.at \notin Writes,
         asks' = [asks EXCEPT ![e] = ask], UNCHANGED <<pages, sheets, stale>>
  PROVE  SheetsInv'
<1>1. LibraryShape
  BY DEF SheetsInv
<1>2. DOMAIN asks' = Editors /\ OthersRest(e) /\ Shaped(asks'[e]) /\ asks'[e].at \notin Writes
  BY <1>1, OnlyMine
<1> QED
  BY <1>1, <1>2, OtherKeeps DEF LibraryShape, SameRow

\* The space and the tags of a row are in no file.
LEMMA ElsewhereKeeps ==
  ASSUME SheetsInv, NEW e \in Editors, UpdateSpace(e) \/ UpdateTags(e)
  PROVE  SheetsInv'
<1>1. LibraryShape /\ Shaped(NoAsk) /\ NoAsk.at \notin Writes /\ asks[e].at \notin Writes
  BY DEF SheetsInv, UpdateSpace, UpdateTags, Shaped, NoAsk, Writes
<1>2. DOMAIN asks' = Editors /\ OthersRest(e) /\ Shaped(asks'[e]) /\ asks'[e].at \notin Writes
  BY <1>1, OnlyMine DEF UpdateSpace, UpdateTags, Leaves
<1>3. DOMAIN pages' = PageIds /\ UNCHANGED <<sheets, stale>>
  BY DEF UpdateSpace, UpdateTags, FilesRest
<1>4. \A q \in PageIds : DOMAIN pages'[q] = DOMAIN NoPage
  BY <1>1 DEF UpdateSpace, UpdateTags, LibraryShape, NoPage
<1>5. \A q \in PageIds : SameRow(q)
  BY <1>1 DEF UpdateSpace, UpdateTags, LibraryShape, NoPage, SameRow
<1> QED
  BY <1>1, <1>2, <1>3, <1>4, <1>5, OtherKeeps

\* No page, no file, no call.
LEMMA SheetsInvInit == SpacesInit => SheetsInv
  BY DEF SpacesInit, SheetsInv, LibraryShape, SheetFollowsRow, Writing, Written, NoAsk, NoPage, NoSheet

\* Every step keeps SheetsInv.
LEMMA SheetsInvStep == SheetsInv /\ [SpacesNext]_spacesVars => SheetsInv'
<1> SUFFICES ASSUME SheetsInv, [SpacesNext]_spacesVars
             PROVE  SheetsInv'
  OBVIOUS
<1>1. CASE UNCHANGED spacesVars
  BY <1>1 DEF spacesVars, SheetsInv, LibraryShape, SheetFollowsRow, Writing, Written, Rivals
<1>2. ASSUME NEW e \in Editors, NEW s \in SpaceNames, CreateSpace(e, s)
      PROVE  SheetsInv'
  BY <1>2 DEF CreateSpace, FilesRest, SheetsInv, LibraryShape, SheetFollowsRow, Writing, Written, Rivals
<1>3. ASSUME NEW e \in Editors, NEW s, NEW t, NEW body, CreatePage(e, s, t, body)
      PROVE  SheetsInv'
  <2> DEFINE ask == [NoAsk EXCEPT !.at = "placing", !.space = s, !.title = t, !.text = body]
  <2>1. Shaped(ask) /\ ask.at \notin Writes
    BY DEF Shaped, NoAsk, Writes
  <2>2. asks' = [asks EXCEPT ![e] = ask] /\ asks[e].at \notin Writes /\ UNCHANGED <<pages, sheets, stale>>
    BY <1>3 DEF CreatePage, LookUp, Asks, FilesRest, Writes
  <2> HIDE DEF ask
  <2> QED
    BY <2>1, <2>2, AskingKeeps
<1>4. ASSUME NEW e \in Editors, NEW p, NEW body, SavePage(e, p, body)
      PROVE  SheetsInv'
  <2> DEFINE ask == [NoAsk EXCEPT !.at = "save", !.page = p, !.text = body]
  <2>1. Shaped(ask) /\ ask.at \notin Writes
    BY DEF Shaped, NoAsk, Writes
  <2>2. asks' = [asks EXCEPT ![e] = ask] /\ asks[e].at \notin Writes /\ UNCHANGED <<pages, sheets, stale>>
    BY <1>4 DEF SavePage, Asks, FilesRest, Writes
  <2> HIDE DEF ask
  <2> QED
    BY <2>1, <2>2, AskingKeeps
<1>5. ASSUME NEW e \in Editors, NEW p, NEW s, MovePage(e, p, s)
      PROVE  SheetsInv'
  <2> DEFINE ask == [NoAsk EXCEPT !.at = "moving", !.page = p, !.space = s]
  <2>1. Shaped(ask) /\ ask.at \notin Writes
    BY DEF Shaped, NoAsk, Writes
  <2>2. asks' = [asks EXCEPT ![e] = ask] /\ asks[e].at \notin Writes /\ UNCHANGED <<pages, sheets, stale>>
    BY <1>5 DEF MovePage, LookUp, Asks, FilesRest, Writes
  <2> HIDE DEF ask
  <2> QED
    BY <2>1, <2>2, AskingKeeps
<1>6. ASSUME NEW e \in Editors, NEW p, NEW g, AddTag(e, p, g)
      PROVE  SheetsInv'
  <2> DEFINE ask == [NoAsk EXCEPT !.at = "tagging", !.page = p, !.tags = Append(pages[p].tags, g)]
  <2>1. Shaped(ask) /\ ask.at \notin Writes
    BY DEF Shaped, NoAsk, Writes
  <2>2. asks[e].at \notin Writes /\ UNCHANGED <<pages, sheets, stale>>
    BY <1>6 DEF AddTag, Asks, FilesRest, Writes
  <2>3. asks' = asks \/ asks' = [asks EXCEPT ![e] = ask]
    BY <1>6 DEF AddTag
  <2> HIDE DEF ask
  <2>4. CASE asks' = asks
    BY <2>2, <2>4 DEF SheetsInv, LibraryShape, SheetFollowsRow, Writing, Written, Rivals
  <2> QED
    BY <2>1, <2>2, <2>3, <2>4, AskingKeeps
<1>7. ASSUME NEW e \in Editors, NEW p, NEW g, RemoveTag(e, p, g)
      PROVE  SheetsInv'
  <2> DEFINE left == SelectSeq(pages[p].tags, LAMBDA x : x # g)
             ask == [NoAsk EXCEPT !.at = "tagging", !.page = p, !.tags = left]
  <2>1. asks' = [asks EXCEPT ![e] = ask] /\ asks[e].at \notin Writes /\ UNCHANGED <<pages, sheets, stale>>
    BY <1>7 DEF RemoveTag, Asks, FilesRest, Writes
  <2> HIDE DEF left
  <2>2. Shaped(ask) /\ ask.at \notin Writes
    BY DEF Shaped, NoAsk, Writes
  <2> HIDE DEF ask
  <2> QED
    BY <2>1, <2>2, AskingKeeps
<1>8. ASSUME NEW e \in Editors, NEW p, ExportPage(e, p)
      PROVE  SheetsInv'
  <2> DEFINE ask == [NoAsk EXCEPT !.at = "exporting", !.title = pages[p].title, !.text = pages[p].text]
  <2>1. Shaped(ask) /\ ask.at \notin Writes
    BY DEF Shaped, NoAsk, Writes
  <2>2. asks' = [asks EXCEPT ![e] = ask] /\ asks[e].at \notin Writes /\ UNCHANGED <<pages, sheets, stale>>
    BY <1>8 DEF ExportPage, Asks, FilesRest, Writes
  <2> HIDE DEF ask
  <2> QED
    BY <2>1, <2>2, AskingKeeps
<1>9. ASSUME NEW e \in Editors, WriteExport(e)
      PROVE  SheetsInv'
  <2>1. Shaped(NoAsk) /\ NoAsk.at \notin Writes
    BY DEF Shaped, NoAsk, Writes
  <2>2. asks' = [asks EXCEPT ![e] = NoAsk] /\ asks[e].at \notin Writes /\ UNCHANGED <<pages, sheets, stale>>
    BY <1>9 DEF WriteExport, Leaves, FilesRest, Writes
  <2> QED
    BY <2>1, <2>2, AskingKeeps
<1>10. ASSUME NEW e \in Editors, NEW p, DeletePage(e, p)
       PROVE  SheetsInv'
  BY <1>10, DeleteKeeps
<1>11. ASSUME NEW e \in Editors, NEW worked \in BOOLEAN,
              FirstSheet(e, worked) \/ WriteSheet(e, worked) \/ RemoveSheet(e, worked)
       PROVE  SheetsInv'
  BY <1>11, FirstSheetKeeps, WriteSheetKeeps, RemoveSheetKeeps
<1>12. ASSUME NEW e \in Editors, UpdateText(e) \/ ReadTitle(e) \/ UpdateSpace(e) \/ UpdateTags(e)
       PROVE  SheetsInv'
  BY <1>12, UpdateTextKeeps, ReadTitleKeeps, ElsewhereKeeps
<1> QED
  BY <1>1, <1>2, <1>3, <1>4, <1>5, <1>6, <1>7, <1>8, <1>9, <1>10, <1>11, <1>12, InsertKeeps DEF SpacesNext

\* A page nobody is writing has the file its row tells of, unless two calls on it
\* overlapped or a file operation failed (lucy-spaces lib.rs).
THEOREM SheetFollowsRowHolds == SpacesSpec => []SheetFollowsRow
<1>1. SheetsInv => SheetFollowsRow
  BY DEF SheetsInv
<1> QED
  BY <1>1, SheetsInvInit, SheetsInvStep, PTL DEF SpacesSpec
-----------------------------------------------------------------------------
\* The editor: undo and redo walk one line of buffers, Editor implements EditHistory.

\* A sequence of anything is a sequence of what is in it.
LEMMA SeqOfItsOwn ==
  ASSUME NEW S, NEW s \in Seq(S)
  PROVE  s \in Seq(ToSet(s))
  BY DEF ToSet

\* A sequence over a set is one over a larger set.
LEMMA SeqOfMore ==
  ASSUME NEW S, NEW T, S \subseteq T, NEW s \in Seq(S)
  PROVE  s \in Seq(T)
  OBVIOUS

\* Two sequences that agree everywhere are one.
LEMMA SameSeq ==
  ASSUME NEW S, NEW s \in Seq(S), NEW t \in Seq(S), Len(s) = Len(t),
         \A i \in 1..Len(s) : s[i] = t[i]
  PROVE  s = t
  OBVIOUS

\* Two sequences, one after the other.
Joins(S, l, s, r) ==
  /\ l \in Seq(S) /\ Len(l) = Len(s) + Len(r)
  /\ \A i \in 1..Len(s) : l[i] = s[i]
  /\ \A i \in 1..Len(r) : l[Len(s) + i] = r[i]
LEMMA JoinedSeq ==
  ASSUME NEW S, NEW s \in Seq(S), NEW r \in Seq(S)
  PROVE  Joins(S, s \o r, s, r)
<1>1. s \o r \in Seq(S) /\ Len(s \o r) = Len(s) + Len(r)
  OBVIOUS
<1>2. ASSUME NEW i \in 1..Len(s) PROVE (s \o r)[i] = s[i]
  OBVIOUS
<1>3. ASSUME NEW i \in 1..Len(r) PROVE (s \o r)[Len(s) + i] = r[i]
  OBVIOUS
<1> QED BY <1>1, <1>2, <1>3 DEF Joins

\* The line of buffers, place by place: what undo goes back to, the buffer, and what
\* redo goes forward to, the nearest first.
Line(behind, now, ahead) == behind \o <<now>> \o Reverse(ahead)
Reads(l, S, behind, now, ahead) ==
  /\ l \in Seq(S) /\ Len(l) = Len(behind) + 1 + Len(ahead)
  /\ \A i \in 1..Len(behind) : l[i] = behind[i]
  /\ l[Len(behind) + 1] = now
  /\ \A i \in 1..Len(ahead) : l[Len(behind) + 1 + i] = ahead[Len(ahead) + 1 - i]
\* What stands where in the line.
LEMMA LinePlaces ==
  ASSUME NEW S, NEW behind \in Seq(S), NEW now \in S, NEW ahead \in Seq(S)
  PROVE  Reads(Line(behind, now, ahead), S, behind, now, ahead)
<1>1. Reverse(ahead) \in Seq(S) /\ Len(Reverse(ahead)) = Len(ahead)
      /\ \A i \in 1..Len(ahead) : Reverse(ahead)[i] = ahead[Len(ahead) + 1 - i]
  BY DEF Reverse
<1>2. behind \o <<now>> \in Seq(S) /\ Len(behind \o <<now>>) = Len(behind) + 1
      /\ (\A i \in 1..Len(behind) : (behind \o <<now>>)[i] = behind[i])
      /\ (behind \o <<now>>)[Len(behind) + 1] = now
  OBVIOUS
<1> DEFINE s == behind \o <<now>>
           r == Reverse(ahead)
           l == s \o r
<1>3. s \in Seq(S) /\ r \in Seq(S) /\ Len(s) = Len(behind) + 1 /\ Len(r) = Len(ahead)
      /\ Len(behind) \in Nat /\ Len(ahead) \in Nat
  BY <1>1, <1>2
<1>3a. /\ \A i \in 1..Len(behind) : s[i] = behind[i]
       /\ s[Len(behind) + 1] = now
       /\ \A i \in 1..Len(ahead) : r[i] = ahead[Len(ahead) + 1 - i]
  BY <1>1, <1>2
<1>4. l = Line(behind, now, ahead)
  BY DEF Line
<1> HIDE DEF s, r
<1>5. /\ l \in Seq(S) /\ Len(l) = Len(s) + Len(r)
      /\ \A i \in 1..Len(s) : l[i] = s[i]
      /\ \A i \in 1..Len(r) : l[Len(s) + i] = r[i]
  <2>1. s \in Seq(S) /\ r \in Seq(S)
    BY <1>3
  <2>2. Joins(S, l, s, r)
    BY <2>1, JoinedSeq
  <2> QED BY <2>2 DEF Joins
<1> HIDE DEF l
<1>6. \A i \in 1..Len(behind) : l[i] = behind[i]
  BY <1>3, <1>3a, <1>5
<1>7. l[Len(behind) + 1] = now
  BY <1>3, <1>3a, <1>5
<1>8. \A i \in 1..Len(ahead) : l[Len(behind) + 1 + i] = ahead[Len(ahead) + 1 - i]
  BY <1>3, <1>3a, <1>5
<1> QED BY <1>3, <1>4, <1>5, <1>6, <1>7, <1>8 DEF Reads

\* A step of undo, and one of redo, walks along the line.
LEMMA BackIsSameLine ==
  ASSUME NEW S, NEW behind \in Seq(S), NEW now \in S, NEW ahead \in Seq(S), behind # << >>
  PROVE  /\ Line(Front(behind), Last(behind), Append(ahead, now)) = Line(behind, now, ahead)
         /\ Front(behind) \in Seq(S) /\ Last(behind) \in S /\ Append(ahead, now) \in Seq(S)
         /\ Len(Front(behind)) = Len(behind) - 1
<1> DEFINE b == Front(behind)
           x == Last(behind)
           a == Append(ahead, now)
<1>0. behind \in Seq(S) /\ Len(behind) \in Nat /\ Len(behind) > 0 /\ Len(ahead) \in Nat
  OBVIOUS
<1>0a. b \in Seq(S) /\ Len(b) = Len(behind) - 1 /\ \A i \in 1..Len(b) : b[i] = behind[i]
  <2>1. b = SubSeq(behind, 1, Len(behind) - 1)
    BY DEF Front
  <2> DEFINE n == Len(behind) - 1
             f == SubSeq(behind, 1, n)
  <2>0. n \in Nat /\ n <= Len(behind)
    BY <1>0
  <2> HIDE DEF n
  <2>4. Len(f) = n
    BY <1>0, <2>0
  <2>5. \A i \in 1..n : f[i] = behind[i]
    BY <1>0, <2>0
  <2>2. Len(b) = Len(behind) - 1 /\ \A i \in 1..Len(b) : b[i] = behind[i]
    BY <2>1, <2>4, <2>5 DEF n
  <2>3. b \in Seq(S)
    BY <1>0, <2>1
  <2> QED BY <2>2, <2>3
<1>0b. x \in S /\ x = behind[Len(behind)]
  BY <1>0 DEF Last
<1>0c. a \in Seq(S) /\ Len(a) = Len(ahead) + 1 /\ a[Len(ahead) + 1] = now
       /\ \A i \in 1..Len(ahead) : a[i] = ahead[i]
  OBVIOUS
<1>1. /\ b \in Seq(S) /\ x \in S /\ a \in Seq(S)
      /\ Len(behind) \in Nat /\ Len(behind) > 0 /\ Len(ahead) \in Nat
      /\ Len(b) = Len(behind) - 1 /\ Len(a) = Len(ahead) + 1
      /\ (\A i \in 1..Len(b) : b[i] = behind[i]) /\ x = behind[Len(behind)]
      /\ (\A i \in 1..Len(ahead) : a[i] = ahead[i]) /\ a[Len(ahead) + 1] = now
  BY <1>0, <1>0a, <1>0b, <1>0c
<1> HIDE DEF b, x, a
<1> DEFINE l == Line(behind, now, ahead)
           m == Line(b, x, a)
<1>l. Reads(l, S, behind, now, ahead) /\ Reads(m, S, b, x, a)
  BY <1>1, LinePlaces
<1> HIDE DEF l, m
<1>2. /\ l \in Seq(S) /\ Len(l) = Len(behind) + 1 + Len(ahead)
      /\ \A i \in 1..Len(behind) : l[i] = behind[i]
      /\ l[Len(behind) + 1] = now
      /\ \A i \in 1..Len(ahead) : l[Len(behind) + 1 + i] = ahead[Len(ahead) + 1 - i]
  BY <1>l DEF Reads
<1>3. /\ m \in Seq(S) /\ Len(m) = Len(b) + 1 + Len(a)
      /\ \A i \in 1..Len(b) : m[i] = b[i]
      /\ m[Len(b) + 1] = x
      /\ \A i \in 1..Len(a) : m[Len(b) + 1 + i] = a[Len(a) + 1 - i]
  BY <1>l DEF Reads
<1>4. Len(m) = Len(l)
  BY <1>1, <1>2, <1>3
<1>5. ASSUME NEW i \in 1..Len(m) PROVE m[i] = l[i]
  <2>1. CASE i \in 1..Len(b)
    <3>1. i \in 1..Len(behind)
      BY <1>1, <2>1
    <3> QED BY <1>1, <1>2, <1>3, <2>1, <3>1
  <2>2. CASE i = Len(behind)
    BY <1>1, <1>2, <1>3, <2>2
  <2>3. CASE i = Len(behind) + 1
    <3>1. i = Len(b) + 1 + 1 /\ 1 \in 1..Len(a) /\ Len(a) + 1 - 1 = Len(ahead) + 1
      BY <1>1, <2>3
    <3>2. m[i] = a[Len(ahead) + 1]
      BY <1>3, <3>1
    <3> QED BY <1>1, <1>2, <2>3, <3>2
  <2>4. CASE i > Len(behind) + 1
    <3> DEFINE k == i - (Len(behind) + 1)
    <3>1. k \in 1..Len(ahead) /\ i = Len(behind) + 1 + k /\ i = Len(b) + 1 + (k + 1)
          /\ k + 1 \in 1..Len(a) /\ Len(a) + 1 - (k + 1) = Len(ahead) + 1 - k
          /\ Len(ahead) + 1 - k \in 1..Len(ahead)
      BY <1>1, <1>3, <2>4
    <3> HIDE DEF k
    <3>2. m[i] = a[Len(ahead) + 1 - k]
      BY <1>3, <3>1
    <3>3. l[i] = ahead[Len(ahead) + 1 - k]
      BY <1>2, <3>1
    <3> QED BY <1>1, <3>1, <3>2, <3>3
  <2> QED BY <1>1, <1>3, <2>1, <2>2, <2>3, <2>4
<1>6. m = l
  BY <1>2, <1>3, <1>4, <1>5, SameSeq
<1> QED BY <1>1, <1>6 DEF b, x, a, m, l

\* The last of what was appended, and what it was appended to.
LEMMA AppendUndone ==
  ASSUME NEW S, NEW s \in Seq(S), NEW e \in S
  PROVE  /\ Append(s, e) \in Seq(S) /\ Append(s, e) # << >> /\ Len(Append(s, e)) = Len(s) + 1
         /\ Front(Append(s, e)) = s /\ Last(Append(s, e)) = e
<1>1. Append(s, e) \in Seq(S) /\ Len(Append(s, e)) = Len(s) + 1 /\ Len(s) \in Nat
      /\ Append(s, e)[Len(s) + 1] = e /\ Append(s, e) # << >>
  OBVIOUS
<1>2. Front(Append(s, e)) = SubSeq(Append(s, e), 1, Len(s))
  BY <1>1 DEF Front
<1>3. SubSeq(Append(s, e), 1, Len(s)) = s
  OBVIOUS
<1> QED BY <1>1, <1>2, <1>3 DEF Last

\* A sequence is its front with its last appended.
LEMMA FrontAndLast ==
  ASSUME NEW S, NEW s \in Seq(S), s # << >>
  PROVE  /\ Front(s) \in Seq(S) /\ Last(s) \in S /\ Append(Front(s), Last(s)) = s
<1> DEFINE n == Len(s) - 1
           f == SubSeq(s, 1, n)
<1>1. n \in Nat /\ Len(s) = n + 1
  OBVIOUS
<1>2. Front(s) = f /\ Last(s) = s[n + 1]
  BY <1>1 DEF Front, Last
<1> HIDE DEF n
<1>3. f \in Seq(S) /\ Len(f) = n
  BY <1>1
<1>4. \A i \in 1..n : f[i] = s[i]
  BY <1>1
<1>5. s[n + 1] \in S
  BY <1>1
<1> HIDE DEF f
<1>6. Append(f, s[n + 1]) = s
  BY <1>1, <1>3, <1>4, <1>5
<1> QED BY <1>2, <1>3, <1>5, <1>6

\* Undo: the last buffer behind becomes the one shown, and the line is the same.
LEMMA BackIsSame ==
  ASSUME NEW S, NEW behind \in Seq(S), NEW now \in S, NEW ahead \in Seq(S), behind # << >>
  PROVE  Line(Front(behind), Last(behind), Append(ahead, now)) = Line(behind, now, ahead)
  BY BackIsSameLine

\* Redo: the nearest buffer ahead becomes the one shown, and the line is the same.
LEMMA ForthIsSameLine ==
  ASSUME NEW S, NEW behind \in Seq(S), NEW now \in S, NEW ahead \in Seq(S), ahead # << >>
  PROVE  /\ Line(Append(behind, now), Last(ahead), Front(ahead)) = Line(behind, now, ahead)
         /\ Append(behind, now) \in Seq(S) /\ Last(ahead) \in S /\ Front(ahead) \in Seq(S)
         /\ Len(Append(behind, now)) = Len(behind) + 1
<1> DEFINE b == Append(behind, now)
           x == Last(ahead)
           a == Front(ahead)
<1>1. b \in Seq(S) /\ b # << >> /\ Front(b) = behind /\ Last(b) = now /\ Len(b) = Len(behind) + 1
  BY AppendUndone
<1>2. a \in Seq(S) /\ x \in S /\ Append(a, x) = ahead
  BY FrontAndLast
<1> HIDE DEF b, x, a
<1>3. Line(Front(b), Last(b), Append(a, x)) = Line(b, x, a)
  BY <1>1, <1>2, BackIsSame, Zenon
<1> QED BY <1>1, <1>2, <1>3 DEF b, x, a

\* What an edit leaves of the line: the oldest buffer may go, what lay ahead goes,
\* and the rest stands where it stood.
Behind(behind, now) ==
  IF Len(behind) = MaxUndo THEN Append(Tail(behind), now) ELSE Append(behind, now)
EditedTo(S, l, n, behind, m) ==
  LET old  == SubSeq(l, 1, n + 1)
      lost == Len(old) + 1 - Len(m) IN
  /\ behind \in Seq(S) /\ Len(m) = Len(behind) + 1
  /\ Len(m) \in 1..Len(old) + 1 /\ lost \in 0..1
  /\ lost = 1 => Len(old) > MaxUndo
  /\ SubSeq(m, 1, Len(m) - 1) = SubSeq(old, lost + 1, Len(old))
\* The line after an edit, place by place.
LEMMA EditedLine ==
  ASSUME NEW S, NEW behind \in Seq(S), NEW now \in S, NEW ahead \in Seq(S), NEW text \in S
  PROVE  EditedTo(S, Line(behind, now, ahead), Len(behind), Behind(behind, now),
                  Line(Behind(behind, now), text, << >>))
<1> USE EditorAssumption
<1> DEFINE n == Len(behind)
           l == Line(behind, now, ahead)
           c == Behind(behind, now)
           m == Line(c, text, << >>)
           lost == IF n = MaxUndo THEN 1 ELSE 0
<1>1. n \in Nat /\ Len(ahead) \in Nat
  OBVIOUS
<1>2. c \in Seq(S) /\ Len(c) = n + 1 - lost
      /\ (\A i \in 1..(n - lost) : c[i] = behind[i + lost]) /\ c[n + 1 - lost] = now
  <2>1. CASE n = MaxUndo
    <3>1. c = Append(Tail(behind), now) /\ behind # << >>
      BY <2>1 DEF Behind
    <3>2. Tail(behind) \in Seq(S) /\ Len(Tail(behind)) = n - 1
          /\ \A i \in 1..(n - 1) : Tail(behind)[i] = behind[i + 1]
      BY <3>1
    <3> QED BY <1>1, <2>1, <3>1, <3>2
  <2>2. CASE n # MaxUndo
    BY <2>2 DEF Behind
  <2> QED BY <2>1, <2>2
<1> HIDE DEF c
<1>3. Reads(l, S, behind, now, ahead)
  BY LinePlaces
<1>4. Reads(m, S, c, text, << >>)
  <2>1. << >> \in Seq(S)
    OBVIOUS
  <2> QED BY <1>2, <2>1, LinePlaces
<1> HIDE DEF l, m
<1>5. /\ l \in Seq(S) /\ Len(l) = n + 1 + Len(ahead)
      /\ \A i \in 1..n : l[i] = behind[i]
      /\ l[n + 1] = now
  BY <1>3 DEF Reads
<1>6. /\ m \in Seq(S) /\ Len(m) = n + 2 - lost
      /\ \A i \in 1..Len(c) : m[i] = c[i]
  BY <1>1, <1>2, <1>4 DEF Reads
<1>7. lost \in 0..1 /\ (lost = 1 => n = MaxUndo) /\ n - lost \in Nat
  BY <1>1
<1> HIDE DEF n, lost
<1> DEFINE old == SubSeq(l, 1, n + 1)
<1>8. old \in Seq(S) /\ Len(old) = n + 1 /\ \A i \in 1..(n + 1) : old[i] = l[i]
  BY <1>1, <1>5
<1> HIDE DEF old
<1> DEFINE f == SubSeq(m, 1, Len(m) - 1)
           g == SubSeq(old, lost + 1, Len(old))
<1>9. f \in Seq(S) /\ Len(f) = n + 1 - lost /\ \A i \in 1..(n + 1 - lost) : f[i] = m[i]
  <2>1. Len(m) - 1 = n + 1 - lost /\ n + 1 - lost \in Nat /\ n + 1 - lost <= Len(m)
    BY <1>1, <1>6, <1>7
  <2> QED BY <1>6, <2>1
<1>10. g \in Seq(S) /\ Len(g) = n + 1 - lost /\ \A i \in 1..(n + 1 - lost) : g[i] = old[i + lost]
  <2>1. Len(old) = n + 1 /\ lost + 1 \in 1..(n + 2) /\ n + 1 - (lost + 1) + 1 = n + 1 - lost
        /\ \A i \in 1..(n + 1 - lost) : lost + 1 + i - 1 = i + lost
    BY <1>1, <1>7, <1>8
  <2> QED BY <1>1, <1>7, <1>8, <2>1
<1> HIDE DEF f, g
<1>11. ASSUME NEW i \in 1..(n + 1 - lost) PROVE f[i] = g[i]
  <2>1. i + lost \in 1..(n + 1) /\ i \in 1..Len(c)
    BY <1>1, <1>2, <1>7 DEF n, lost
  <2>2. f[i] = c[i] /\ g[i] = l[i + lost]
    BY <1>6, <1>8, <1>9, <1>10, <2>1
  <2>3. CASE i = n + 1 - lost
    BY <1>1, <1>2, <1>5, <1>7, <2>2, <2>3 DEF n, lost
  <2>4. CASE i # n + 1 - lost
    <3>1. i \in 1..(n - lost) /\ i + lost \in 1..n
      BY <1>1, <1>7, <2>4
    <3> QED BY <1>2, <1>5, <2>2, <3>1 DEF n, lost
  <2> QED BY <2>3, <2>4
<1>12. f = g
  BY <1>9, <1>10, <1>11, SameSeq
<1>13. Len(old) + 1 - Len(m) = lost /\ Len(m) \in 1..Len(old) + 1 /\ Len(m) = Len(c) + 1
       /\ (lost = 1 => Len(old) > MaxUndo)
  BY <1>1, <1>2, <1>6, <1>7, <1>8 DEF n, lost
<1> QED BY <1>2, <1>7, <1>12, <1>13 DEF f, g, old, l, m, c, n, EditedTo

\* What can be in the line before and after a step.
Buffers == ToSet(behindIt) \cup ToSet(aheadOfIt) \cup {buffer, buffer', << >>}
\* The two stacks are sequences of those.
LEMMA StacksTyped ==
  ASSUME StacksInv
  PROVE  behindIt \in Seq(Buffers) /\ aheadOfIt \in Seq(Buffers) /\ buffer \in Buffers /\ buffer' \in Buffers
         /\ << >> \in Seq(Buffers)
<1>1. ToSet(behindIt) \subseteq Buffers /\ ToSet(aheadOfIt) \subseteq Buffers
      /\ buffer \in Buffers /\ buffer' \in Buffers
  BY DEF Buffers
<1>2. behindIt \in Seq(ToSet(behindIt)) /\ aheadOfIt \in Seq(ToSet(aheadOfIt))
  BY DEF StacksInv
<1> QED BY <1>1, <1>2, SeqOfMore

\* What is a sequence of anything satisfies StacksInv.
LEMMA OwnSeqs ==
  ASSUME NEW S, behindIt' \in Seq(S), aheadOfIt' \in Seq(S), crashed' \in BOOLEAN
  PROVE  StacksInv'
<1>1. ASSUME NEW s \in Seq(S) PROVE s \in Seq(ToSet(s))
  BY SeqOfItsOwn
<1> QED BY <1>1 DEF StacksInv

\* There is nothing to turn round.
LEMMA EmptyBehind == Reverse(<< >>) = << >>
  BY DEF Reverse

Promised == [Timeline!HistoryNext]_<<behindIt \o <<buffer>> \o Reverse(aheadOfIt), Len(behindIt) + 1>>

\* An edit, whatever it makes of the text.
LEMMA EditKept ==
  ASSUME StacksInv, NEW text, NEW at, Edits(text, at)
  PROVE  StacksInv' /\ Promised
<1> DEFINE S == Buffers
           l == Line(behindIt, buffer, aheadOfIt)
           c == Behind(behindIt, buffer)
           m == Line(c, buffer', << >>)
<1>1. behindIt' = Behind(behindIt, buffer) /\ aheadOfIt' = << >> /\ UNCHANGED crashed
  BY DEF Edits, PushUndo, Behind
<1>2. /\ behindIt \in Seq(S) /\ aheadOfIt \in Seq(S) /\ buffer \in S /\ buffer' \in S /\ << >> \in Seq(S)
  BY StacksTyped
<1> HIDE DEF S
<1>3. EditedTo(S, l, Len(behindIt), c, m)
  BY <1>2, EditedLine
<1>4. StacksInv'
  <2>1. behindIt' \in Seq(S) /\ aheadOfIt' \in Seq(S)
    BY <1>1, <1>2, <1>3 DEF EditedTo
  <2> QED BY <1>1, <2>1, OwnSeqs DEF StacksInv
<1>5. l = behindIt \o <<buffer>> \o Reverse(aheadOfIt)
      /\ m = (behindIt \o <<buffer>> \o Reverse(aheadOfIt))'
  BY <1>1 DEF Line
<1> HIDE DEF l, m, c
<1>6. Timeline!EditOnce
  BY <1>1, <1>3, <1>5 DEF c, EditedTo, Timeline!EditOnce, Timeline!Past
<1> QED BY <1>4, <1>6 DEF Timeline!HistoryNext, Promised

\* Undo moves along the line and leaves it.
LEMMA UndoKept ==
  ASSUME StacksInv, Undo
  PROVE  StacksInv' /\ Promised
<1> DEFINE S == Buffers
           l == Line(behindIt, buffer, aheadOfIt)
           m == Line(behindIt', buffer', aheadOfIt')
<1>1. /\ behindIt # << >> /\ behindIt' = Front(behindIt) /\ buffer' = Last(behindIt)
      /\ aheadOfIt' = Append(aheadOfIt, buffer) /\ UNCHANGED crashed
  BY DEF Undo, Shows, Changes
<1>2. /\ behindIt \in Seq(S) /\ aheadOfIt \in Seq(S) /\ buffer \in S
  BY StacksTyped
<1> HIDE DEF S
<1>3. m = l /\ behindIt' \in Seq(S) /\ aheadOfIt' \in Seq(S) /\ Len(behindIt') = Len(behindIt) - 1
  <2>1. /\ Line(Front(behindIt), Last(behindIt), Append(aheadOfIt, buffer)) = Line(behindIt, buffer, aheadOfIt)
        /\ Front(behindIt) \in Seq(S) /\ Append(aheadOfIt, buffer) \in Seq(S)
        /\ Len(Front(behindIt)) = Len(behindIt) - 1
    <3>1. behindIt # << >>
      BY <1>1
    <3> QED BY <1>2, <3>1, BackIsSameLine
  <2> QED BY <1>1, <2>1, ZenonT(30)
<1>4. StacksInv'
  BY <1>1, <1>3, OwnSeqs DEF StacksInv
<1>5. l = behindIt \o <<buffer>> \o Reverse(aheadOfIt)
      /\ m = (behindIt \o <<buffer>> \o Reverse(aheadOfIt))'
  BY DEF Line
<1>6. Len(behindIt) \in Nat /\ Len(behindIt) > 0 /\ Len(aheadOfIt) \in Nat
  BY <1>1, <1>2
<1>7. l \in Seq(S) /\ Len(l) = Len(behindIt) + 1 + Len(aheadOfIt)
  BY <1>2, LinePlaces DEF Reads
<1> HIDE DEF l, m
<1>8. Len(behindIt) \in DOMAIN l
  BY <1>6, <1>7
<1>9. Len(behindIt') + 1 = Len(behindIt) + 1 - 1 /\ Len(behindIt') + 1 = Len(behindIt)
  BY <1>3, <1>6
<1>10. Timeline!Walk
  <2>1. Len(behindIt') + 1 \in DOMAIN (behindIt \o <<buffer>> \o Reverse(aheadOfIt))
    BY <1>5, <1>8, <1>9, ZenonT(30)
  <2>2. (behindIt \o <<buffer>> \o Reverse(aheadOfIt))' = behindIt \o <<buffer>> \o Reverse(aheadOfIt)
    BY <1>3, <1>5, ZenonT(30)
  <2>3. Len(behindIt') + 1 \in {Len(behindIt) + 1 - 1, Len(behindIt) + 1 + 1}
    BY <1>9, ZenonT(30)
  <2>4. (Len(behindIt) + 1)' \in {Len(behindIt) + 1 - 1, Len(behindIt) + 1 + 1}
                                 \cap DOMAIN (behindIt \o <<buffer>> \o Reverse(aheadOfIt))
    BY <2>1, <2>3, ZenonT(30)
  <2> QED BY <2>2, <2>4, SMTT(30) DEF Timeline!Walk
<1> QED BY <1>4, <1>10 DEF Timeline!HistoryNext, Promised

\* So does redo.
LEMMA RedoKept ==
  ASSUME StacksInv, Redo
  PROVE  StacksInv' /\ Promised
<1> DEFINE S == Buffers
           l == Line(behindIt, buffer, aheadOfIt)
           m == Line(behindIt', buffer', aheadOfIt')
<1>1. /\ aheadOfIt # << >> /\ aheadOfIt' = Front(aheadOfIt) /\ buffer' = Last(aheadOfIt)
      /\ behindIt' = Append(behindIt, buffer) /\ UNCHANGED crashed
  BY DEF Redo, Shows, Changes
<1>2. /\ behindIt \in Seq(S) /\ aheadOfIt \in Seq(S) /\ buffer \in S
  BY StacksTyped
<1> HIDE DEF S
<1>3. m = l /\ behindIt' \in Seq(S) /\ aheadOfIt' \in Seq(S) /\ Len(behindIt') = Len(behindIt) + 1
  BY <1>1, <1>2, ForthIsSameLine
<1>4. StacksInv'
  BY <1>1, <1>3, OwnSeqs DEF StacksInv
<1>5. l = behindIt \o <<buffer>> \o Reverse(aheadOfIt)
      /\ m = (behindIt \o <<buffer>> \o Reverse(aheadOfIt))'
  BY DEF Line
<1>6. Len(behindIt) \in Nat /\ Len(aheadOfIt) > 0 /\ Len(aheadOfIt) \in Nat
  BY <1>1, <1>2
<1>7. l \in Seq(S) /\ Len(l) = Len(behindIt) + 1 + Len(aheadOfIt)
  BY <1>2, LinePlaces DEF Reads
<1> HIDE DEF l, m
<1>8. Len(behindIt) + 1 + 1 \in DOMAIN l
  BY <1>6, <1>7
<1>9. Len(behindIt') + 1 = Len(behindIt) + 1 + 1
  BY <1>3, <1>6
<1>10. Timeline!Walk
  <2>1. Len(behindIt') + 1 \in DOMAIN (behindIt \o <<buffer>> \o Reverse(aheadOfIt))
    BY <1>5, <1>8, <1>9, ZenonT(30)
  <2>2. (behindIt \o <<buffer>> \o Reverse(aheadOfIt))' = behindIt \o <<buffer>> \o Reverse(aheadOfIt)
    BY <1>3, <1>5, ZenonT(30)
  <2>3. Len(behindIt') + 1 \in {Len(behindIt) + 1 - 1, Len(behindIt) + 1 + 1}
    BY <1>9, ZenonT(30)
  <2>4. (Len(behindIt) + 1)' \in {Len(behindIt) + 1 - 1, Len(behindIt) + 1 + 1}
                                 \cap DOMAIN (behindIt \o <<buffer>> \o Reverse(aheadOfIt))
    BY <2>1, <2>3, ZenonT(30)
  <2> QED BY <2>2, <2>4, SMTT(30) DEF Timeline!Walk
<1> QED BY <1>4, <1>10 DEF Timeline!HistoryNext, Promised

\* A new title stands where the old one stood.
LEMMA RetitleKept ==
  ASSUME StacksInv, NEW t, SetTitle(t)
  PROVE  StacksInv' /\ Promised
<1> DEFINE S == Buffers
           l == Line(behindIt, buffer, aheadOfIt)
           m == Line(behindIt, buffer', aheadOfIt)
<1>1. UNCHANGED <<behindIt, aheadOfIt, crashed>>
  BY DEF SetTitle
<1>2. /\ behindIt \in Seq(S) /\ aheadOfIt \in Seq(S) /\ buffer \in S /\ buffer' \in S
  BY StacksTyped
<1> HIDE DEF S
<1>3. StacksInv'
  BY <1>1 DEF StacksInv
<1>5. l = behindIt \o <<buffer>> \o Reverse(aheadOfIt)
      /\ m = (behindIt \o <<buffer>> \o Reverse(aheadOfIt))'
  BY <1>1 DEF Line
<1>6. Reads(l, S, behindIt, buffer, aheadOfIt) /\ Reads(m, S, behindIt, buffer', aheadOfIt)
  BY <1>2, LinePlaces
<1> HIDE DEF l, m
<1>7. Len(m) = Len(l) /\ l \in Seq(S)
  BY <1>6 DEF Reads
<1>8. ASSUME NEW i \in DOMAIN l, i # Len(behindIt) + 1 PROVE m[i] = l[i]
  <2>1. Len(behindIt) \in Nat /\ Len(aheadOfIt) \in Nat /\ i \in 1..(Len(behindIt) + 1 + Len(aheadOfIt))
    BY <1>2, <1>6 DEF Reads
  <2>2. CASE i \in 1..Len(behindIt)
    BY <1>6, <2>2 DEF Reads
  <2>3. CASE i \notin 1..Len(behindIt)
    <3> DEFINE k == i - (Len(behindIt) + 1)
    <3>1. k \in 1..Len(aheadOfIt) /\ i = Len(behindIt) + 1 + k
      BY <1>8, <2>1, <2>3
    <3> HIDE DEF k
    <3> QED BY <1>6, <3>1 DEF Reads
  <2> QED BY <2>2, <2>3
<1>9. Timeline!Retitle
  BY <1>1, <1>5, <1>7, <1>8 DEF Timeline!Retitle
<1> QED BY <1>3, <1>9 DEF Timeline!HistoryNext, Promised

\* A step that leaves the buffers alone.
LEMMA OtherKept ==
  ASSUME StacksInv, UNCHANGED <<buffer, behindIt, aheadOfIt>>, crashed' \in BOOLEAN
  PROVE  StacksInv' /\ Promised
  BY DEF StacksInv, Promised

\* Every step of the editor is one of EditHistory, or none.
LEMMA EditorStep ==
  ASSUME StacksInv, [EditorNext]_editorVars
  PROVE  StacksInv' /\ Promised
<1>1. ASSUME Panics PROVE StacksInv' /\ Promised
  BY <1>1, OtherKept DEF Panics
<1>2. ASSUME NEW c \in Typed, InsertText(c) \/ SetContent(<<c>>) PROVE StacksInv' /\ Promised
  BY <1>1, <1>2, EditKept DEF InsertText, SetContent
<1>3. ASSUME NEW t \in Headings, SetTitle(t) PROVE StacksInv' /\ Promised
  BY <1>3, RetitleKept
<1>4. CASE Delete \/ DeleteForward \/ ClearAll
  BY <1>1, <1>4, EditKept DEF Delete, DeleteForward, ClearAll
<1>5. CASE MarkSaved
  BY <1>5, OtherKept DEF MarkSaved, StacksInv
<1>6. CASE Undo
  BY <1>6, UndoKept
<1>7. CASE Redo
  BY <1>7, RedoKept
<1>8. ASSUME NEW to, Moves(to) PROVE StacksInv' /\ Promised
  BY <1>8, OtherKept DEF Moves, StacksInv
<1>9. CASE MoveCursor
  BY <1>1, <1>8, <1>9 DEF MoveCursor
<1>10. ASSUME NEW i \in 0..MaxChars, SetCursor(i) PROVE StacksInv' /\ Promised
  BY <1>8, <1>10 DEF SetCursor
<1>11. ASSUME NEW m \in {"normal", "insert", "command"}, SetMode(m) PROVE StacksInv' /\ Promised
  BY <1>11, OtherKept DEF SetMode, StacksInv
<1>12. CASE UNCHANGED editorVars
  BY <1>12, OtherKept DEF editorVars, StacksInv
<1> QED BY <1>2, <1>3, <1>4, <1>5, <1>6, <1>7, <1>9, <1>10, <1>11, <1>12 DEF EditorNext

\* The editor's two stacks (push_undo, undo, redo, and every change) keep what
\* EditHistory promises, whatever is typed, undone, redone and retitled: each step of
\* the editor is a step along its line of buffers, an edit of it, or none.
THEOREM KeepsHistoryHolds == EditorSpec => KeepsHistory
<1>1. EditorInit => StacksInv /\ Timeline!HistoryInit
  <2> SUFFICES ASSUME EditorInit PROVE StacksInv /\ Timeline!HistoryInit
    OBVIOUS
  <2>1. behindIt = << >> /\ aheadOfIt = << >> /\ crashed = FALSE
    BY DEF EditorInit
  <2>2. StacksInv
    <3>1. << >> \in Seq({buffer})
      OBVIOUS
    <3>2. << >> \in Seq(ToSet(<< >>))
      BY <3>1, SeqOfItsOwn
    <3> QED BY <2>1, <3>2 DEF StacksInv
  <2>3. Line(<< >>, buffer, << >>) = behindIt \o <<buffer>> \o Reverse(aheadOfIt)
    BY <2>1 DEF Line
  <2>4. Reads(Line(<< >>, buffer, << >>), {buffer}, << >>, buffer, << >>)
    <3>1. << >> \in Seq({buffer}) /\ buffer \in {buffer}
      OBVIOUS
    <3> QED BY <3>1, LinePlaces
  <2>5. Len(Line(<< >>, buffer, << >>)) = 1
    BY <2>4 DEF Reads
  <2> QED BY <2>1, <2>2, <2>3, <2>5 DEF Timeline!HistoryInit
<1>2. StacksInv /\ [EditorNext]_editorVars => StacksInv' /\ Promised
  BY EditorStep
<1> QED BY <1>1, <1>2, PTL DEF EditorSpec, KeepsHistory, Timeline!HistorySpec, Promised

-----------------------------------------------------------------------------
\* The classification client: a call tries every path there is.
\* A place taken modulo the number of paths is one of them.
LEMMA PlaceIsOne ==
  \A n \in Nat : n % Paths \in 0..Paths - 1
  BY DeciderAssumption

\* A search that goes once around comes to every path.
LEMMA AllAround ==
  ASSUME NEW from \in 0..Paths - 1, NEW i \in 0..Paths - 1
  PROVE  \E k \in 0..Paths - 1 : (from + k) % Paths = i
<1>1. CASE from <= i
  <2>1. i - from \in 0..Paths - 1 /\ from + (i - from) = i
    BY <1>1, DeciderAssumption
  <2>2. i % Paths = i
    BY DeciderAssumption
  <2> QED BY <2>1, <2>2
<1>2. CASE from > i
  <2>1. Paths + i - from \in 0..Paths - 1 /\ from + (Paths + i - from) = Paths + i
    BY <1>2, DeciderAssumption
  <2>2. (Paths + i) % Paths = i
    BY DeciderAssumption
  <2> QED BY <2>1, <2>2
<1> QED BY <1>1, <1>2, DeciderAssumption

\* An asker at rest has no place in a search.
LEMMA NoSweepTyped == NoSweep \in SweepType /\ NoSweep.at = "none"
  BY DeciderAssumption DEF NoSweep, SweepType

\* A call that comes to its end leaves the others where they were.
LEMMA EndsKeeps ==
  ASSUME SweepInv, NEW a \in Askers, NEW v, Ends(a, v), server' = server, pinned' \in 0..Paths - 1
  PROVE  SweepInv'
<1>1. sweep' \in [Askers -> SweepType] /\ verdict' = [b \in Askers |-> verdict'[b]]
  BY NoSweepTyped DEF SweepInv, Ends
<1>2. \A b \in Askers : sweep'[b] = IF b = a THEN NoSweep ELSE sweep[b]
  BY DEF SweepInv, Ends
<1>3. ASSUME NEW b \in Askers, sweep'[b].at = "sweep", sweep'[b].same
      PROVE  \A k \in 0..sweep'[b].step - 1 : server.does[(sweep'[b].from + k) % Paths] \in Nothing
  <2>1. b # a /\ sweep'[b] = sweep[b]
    BY <1>2, <1>3, NoSweepTyped
  <2> QED BY <1>3, <2>1 DEF SweepInv, PassedIn
<1> QED BY <1>1, <1>3 DEF SweepInv, PassedIn

\* A call that begins has passed nothing yet.
LEMMA BeginsKeeps ==
  ASSUME SweepInv, NEW a \in Askers, NEW t \in BOOLEAN, sweep' = [sweep EXCEPT ![a] = Sweeps(t)],
         UNCHANGED <<server, pinned, verdict>>
  PROVE  SweepInv'
<1>1. Sweeps(t).step = 0
  BY DEF Sweeps, NoSweep
<1>2. Sweeps(t) \in SweepType
  <2>1. "sweep" \in {"none", "sweep"} /\ pinned \in 0..Paths - 1 /\ t \in BOOLEAN
    BY DEF SweepInv
  <2> QED BY <2>1, NoSweepTyped DEF SweepType, Sweeps
<1> HIDE DEF Sweeps
<1>3. sweep' \in [Askers -> SweepType] /\ \A b \in Askers : sweep'[b] = IF b = a THEN Sweeps(t) ELSE sweep[b]
  BY <1>2 DEF SweepInv
<1>4. ASSUME NEW b \in Askers, sweep'[b].at = "sweep", sweep'[b].same
      PROVE  \A k \in 0..sweep'[b].step - 1 : server.does[(sweep'[b].from + k) % Paths] \in Nothing
  <2>1. CASE b = a
    <3>1. sweep'[b].step = 0
      BY <1>1, <1>3, <2>1
    <3> QED BY <3>1
  <2>2. CASE b # a
    BY <1>3, <1>4, <2>2 DEF SweepInv, PassedIn
  <2> QED BY <2>1, <2>2
<1> QED BY <1>3, <1>4 DEF SweepInv, PassedIn

\* A call that goes on has passed one path more, at which nothing is.
LEMMA OnwardKeeps ==
  ASSUME SweepInv, NEW a \in Askers, sweep[a].at = "sweep", server.does[Place(sweep[a])] \in Nothing,
         ~LastStep(sweep[a]), Onward(a), UNCHANGED <<server, pinned>>
  PROVE  SweepInv'
<1> DEFINE s == sweep[a]
<1>0. s \in SweepType /\ s.step \in 0..Paths - 1
  BY DEF SweepInv, SweepType
<1>1. s \in SweepType /\ s.step + 1 \in 0..Paths - 1
  BY <1>0, DeciderAssumption DEF LastStep
<1>2. sweep' = [sweep EXCEPT ![a].step = s.step + 1]
  BY DEF Onward
<1>3. sweep' \in [Askers -> SweepType]
  BY <1>1, <1>2 DEF SweepInv, SweepType
<1>4. \A b \in Askers : b # a => sweep'[b] = sweep[b]
  BY <1>2 DEF SweepInv
<1>5. sweep'[a].from = s.from /\ sweep'[a].step = s.step + 1 /\ sweep'[a].same = s.same
  BY <1>1, <1>2 DEF SweepInv, SweepType
<1>6. ASSUME NEW b \in Askers, sweep'[b].at = "sweep", sweep'[b].same
      PROVE  \A k \in 0..sweep'[b].step - 1 : server.does[(sweep'[b].from + k) % Paths] \in Nothing
  <2>1. CASE b = a
    <3>1. \A k \in 0..s.step - 1 : server.does[(s.from + k) % Paths] \in Nothing
      BY <1>5, <1>6, <2>1 DEF SweepInv, PassedIn
    <3>2. server.does[(s.from + s.step) % Paths] \in Nothing
      BY DEF Place
    <3>3. \A k \in 0..s.step : k \in 0..s.step - 1 \/ k = s.step
      BY <1>1 DEF SweepType
    <3>4. sweep'[b].step - 1 = s.step
      BY <1>1, <1>5, <2>1 DEF SweepType
    <3> QED BY <1>5, <2>1, <3>1, <3>2, <3>3, <3>4
  <2>2. CASE b # a
    BY <1>4, <1>6, <2>2 DEF SweepInv, PassedIn
  <2> QED BY <2>1, <2>2
<1>7. verdict' = verdict /\ server' = server /\ pinned' = pinned
  BY DEF Onward
<1> QED BY <1>3, <1>6, <1>7 DEF SweepInv, PassedIn

\* The searches are kept right by every step.
LEMMA SweepInvStep ==
  SweepInv /\ [DeciderNext]_deciderVars => SweepInv'
<1> SUFFICES ASSUME SweepInv, [DeciderNext]_deciderVars PROVE SweepInv'
  OBVIOUS
<1>1. ASSUME NEW a \in Askers, ClassifyTurn(a) PROVE SweepInv'
  <2>1. PICK t \in BOOLEAN : sweep' = [sweep EXCEPT ![a] = Sweeps(t)]
    BY <1>1 DEF ClassifyTurn
  <2> QED BY <1>1, <2>1, BeginsKeeps DEF ClassifyTurn, ServerRests
<1>2. ASSUME NEW a \in Askers, Probe(a) PROVE SweepInv'
  <2>1. server' = server /\ pinned' = pinned /\ pinned' \in 0..Paths - 1
    BY <1>2 DEF Probe, ServerRests, SweepInv
  <2>2. CASE Ends(a, Failed("unhealthy"))
    BY <2>1, <2>2, EndsKeeps
  <2>3. CASE sweep' = [sweep EXCEPT ![a] = Sweeps(FALSE)] /\ verdict' = verdict
    BY <2>1, <2>3, BeginsKeeps
  <2> QED BY <1>2, <2>2, <2>3 DEF Probe
<1>3. ASSUME NEW a \in Askers, GetsAnswer(a) PROVE SweepInv'
  <2>1. PICK v : Ends(a, v)
    BY <1>3 DEF GetsAnswer
  <2>2. pinned' \in 0..Paths - 1
    <3>1. sweep[a].from + sweep[a].step \in Nat
      BY DeciderAssumption DEF SweepInv, SweepType
    <3> QED BY <1>3, <3>1, PlaceIsOne DEF GetsAnswer, Place
  <2> QED BY <1>3, <2>1, <2>2, EndsKeeps DEF GetsAnswer, ServerRests
<1>4. ASSUME NEW a \in Askers, BreaksOff(a) \/ Broken(a) PROVE SweepInv'
  <2>1. PICK v : Ends(a, v)
    BY <1>4 DEF BreaksOff, Broken
  <2>2. server' = server /\ pinned' \in 0..Paths - 1
    BY <1>4 DEF BreaksOff, Broken, ServerRests, SweepInv
  <2> QED BY <2>1, <2>2, EndsKeeps
<1>5. ASSUME NEW a \in Askers, Missing(a) \/ Silent(a) PROVE SweepInv'
  <2>1. server' = server /\ pinned' = pinned /\ pinned' \in 0..Paths - 1
    BY <1>5 DEF Missing, Silent, ServerRests, SweepInv
  <2>2. CASE LastStep(sweep[a])
    <3>1. PICK v : Ends(a, v)
      BY <1>5, <2>2 DEF Missing, Silent
    <3> QED BY <2>1, <3>1, EndsKeeps
  <2>3. CASE ~LastStep(sweep[a])
    <3>1. sweep[a].at = "sweep" /\ server.does[Place(sweep[a])] \in Nothing /\ Onward(a)
      BY <1>5, <2>3 DEF Missing, Silent, Nothing
    <3> QED BY <2>1, <2>3, <3>1, OnwardKeeps
  <2> QED BY <2>2, <2>3
<1>6. CASE Replaced
  <2>1. sweep' = [b \in Askers |-> [sweep[b] EXCEPT !.same = sweep[b].at = "none"]] /\ UNCHANGED <<pinned, verdict>>
    BY <1>6 DEF Replaced
  <2>2. \A b \in Askers : [sweep[b] EXCEPT !.same = sweep[b].at = "none"] \in SweepType
    BY DEF SweepInv, SweepType
  <2>3. \A b \in Askers : sweep'[b].at = "sweep" => ~sweep'[b].same
    BY <2>1 DEF SweepInv, SweepType
  <2> QED BY <2>1, <2>2, <2>3 DEF SweepInv
<1>7. CASE UNCHANGED deciderVars
  BY <1>7 DEF deciderVars, SweepInv, PassedIn
<1> QED BY <1>1, <1>2, <1>3, <1>4, <1>5, <1>6, <1>7 DEF DeciderNext

\* A call that went around one server and was told that nothing is there was told
\* the truth, wherever the others left the pin meanwhile.
LEMMA LastFindsNothing ==
  ASSUME SweepInv, NEW a \in Askers, Missing(a) \/ Silent(a), LastStep(sweep[a]), sweep[a].same
  PROVE  \A i \in 0..Paths - 1 : server.does[i] \in Nothing
<1> DEFINE s == sweep[a]
<1>1. s \in SweepType /\ s.step = Paths - 1 /\ s.at = "sweep"
  BY DeciderAssumption DEF SweepInv, SweepType, LastStep, Missing, Silent
<1>2. \A k \in 0..s.step - 1 : server.does[(s.from + k) % Paths] \in Nothing
  BY <1>1 DEF SweepInv, PassedIn
<1>3. server.does[(s.from + s.step) % Paths] \in Nothing
  BY DEF Missing, Silent, Place, Nothing
<1>4. \A k \in 0..Paths - 1 : k \in 0..s.step - 1 \/ k = s.step
  BY <1>1, DeciderAssumption
<1>5. \A k \in 0..Paths - 1 : server.does[(s.from + k) % Paths] \in Nothing
  BY <1>2, <1>3, <1>4
<1>6. s.from \in 0..Paths - 1
  BY <1>1 DEF SweepType
<1> HIDE DEF s
<1> SUFFICES ASSUME NEW i \in 0..Paths - 1 PROVE server.does[i] \in Nothing
  OBVIOUS
<1>7. PICK k \in 0..Paths - 1 : (s.from + k) % Paths = i
  BY <1>6, AllAround
<1> QED BY <1>5, <1>7

\* A call is told that nothing is there (predict_inner's sweep over PREDICT_PATHS)
\* only by a server at which no path answers, wherever this caller or others left
\* the pin, unless the server was replaced during the call.
THEOREM PathIsFoundHolds == DeciderSpec => PathIsFound
<1>1. DeciderInit => SweepInv
  <2> SUFFICES ASSUME DeciderInit PROVE SweepInv
    OBVIOUS
  <2>1. \A a \in Askers : sweep[a] = NoSweep
    BY DEF DeciderInit
  <2>2. sweep \in [Askers -> SweepType] /\ verdict = [a \in Askers |-> verdict[a]] /\ pinned \in 0..Paths - 1
    BY NoSweepTyped, DeciderAssumption DEF DeciderInit
  <2> QED BY <2>1, <2>2, NoSweepTyped DEF SweepInv
<1>2. SweepInv /\ [DeciderNext]_deciderVars =>
        [\A a \in Askers :
           /\ sweep[a].at = "sweep" /\ sweep'[a] = NoSweep /\ verdict'[a].is \in {"missing", "silent"} /\ sweep[a].same
           => \A i \in 0..Paths - 1 : server.does[i] \in {"missing", "silent"}]_deciderVars
  <2> SUFFICES ASSUME SweepInv, DeciderNext, NEW a \in Askers, sweep[a].at = "sweep", sweep'[a] = NoSweep,
                      verdict'[a].is \in Nothing, sweep[a].same
               PROVE  \A i \in 0..Paths - 1 : server.does[i] \in Nothing
    BY DEF Nothing
  <2>0. \A b \in Askers : sweep[b] \in SweepType
    BY DEF SweepInv
  <2>1. CASE Replaced
    <3>1. sweep'[a] = [sweep[a] EXCEPT !.same = sweep[a].at = "none"]
      BY <2>1 DEF Replaced
    <3>2. sweep'[a].at = "sweep"
      BY <2>0, <3>1 DEF SweepType
    <3> QED BY <3>2, NoSweepTyped
  <2>2. ASSUME NEW b \in Askers, b # a,
               ClassifyTurn(b) \/ Probe(b) \/ GetsAnswer(b) \/ BreaksOff(b) \/ Missing(b) \/ Silent(b) \/ Broken(b)
        PROVE  FALSE
    <3>1. sweep'[a] = sweep[a]
      BY <2>2 DEF ClassifyTurn, Probe, GetsAnswer, BreaksOff, Missing, Silent, Broken, Ends, Onward, SweepInv
    <3> QED BY <3>1, NoSweepTyped
  <2>3. ~ClassifyTurn(a) /\ ~Probe(a)
    BY DEF ClassifyTurn, Probe, Free
  <2>4. ASSUME NEW v, Ends(a, v) PROVE v.is \in Nothing
    <3>1. verdict'[a] = v
      BY <2>4 DEF Ends, SweepInv
    <3> QED BY <3>1
  <2>5. CASE GetsAnswer(a)
    <3>1. CASE Ends(a, Failed("unreadable"))
      <4>1. Failed("unreadable").is \notin Nothing
        BY DEF Failed, Nothing
      <4> QED BY <2>4, <3>1, <4>1
    <3>2. ASSUME NEW answer, Ends(a, VerdictOf(answer)) PROVE FALSE
      <4>1. VerdictOf(answer).is \notin Nothing
        BY DEF VerdictOf, Nothing
      <4> QED BY <2>4, <3>2, <4>1
    <3> QED BY <2>5, <3>1, <3>2 DEF GetsAnswer
  <2>6. CASE BreaksOff(a) \/ Broken(a)
    <3>1. Ends(a, Failed("cut_off")) \/ Ends(a, Failed("broken"))
      BY <2>6 DEF BreaksOff, Broken
    <3>2. Failed("cut_off").is \notin Nothing /\ Failed("broken").is \notin Nothing
      BY DEF Failed, Nothing
    <3> QED BY <2>4, <3>1, <3>2
  <2>7. CASE Missing(a) \/ Silent(a)
    <3>1. CASE LastStep(sweep[a])
      BY <2>7, <3>1, LastFindsNothing
    <3>2. CASE ~LastStep(sweep[a])
      <4>1. sweep' = [sweep EXCEPT ![a].step = sweep[a].step + 1]
        BY <2>7, <3>2 DEF Missing, Silent, Onward
      <4>2. sweep'[a].at = "sweep"
        BY <2>0, <4>1 DEF SweepInv, SweepType
      <4> QED BY <4>2, NoSweepTyped
    <3> QED BY <3>1, <3>2
  <2> QED BY <2>1, <2>2, <2>3, <2>5, <2>6, <2>7 DEF DeciderNext
<1> QED BY <1>1, <1>2, SweepInvStep, PTL DEF DeciderSpec, PathIsFound
=============================================================================
