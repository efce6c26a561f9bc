----------------------------- MODULE HostProofs -----------------------------
(***************************************************************************)
(* The runtime host and the device store, for any callers, sockets, phones *)
(* and codes and any number of builds, mints, lost writes and restarts.    *)
(***************************************************************************)
EXTENDS Host, DeviceStore, SequenceTheorems, FiniteSetTheorems, WellFoundedInduction, TLAPS

-----------------------------------------------------------------------------
\* The runtime host: no runtime is built into the place of another.

\* Joining the queue and leaving it.
LEMMA Queueing ==
  /\ \A x : Append(<< >>, x) = <<x>> /\ Head(<<x>>) = x /\ Tail(<<x>>) = << >>
  /\ \A x, y : Append(<<x>>, y) = <<x, y>> /\ Head(<<x, y>>) = x /\ Tail(<<x, y>>) = <<y>>
  /\ \A x, y : <<x>>[1] = x /\ <<x, y>>[1] = x
<1>1. ASSUME NEW x PROVE Append(<< >>, x) = <<x>> /\ Head(<<x>>) = x /\ <<x>>[1] = x
  OBVIOUS
<1>2. ASSUME NEW x PROVE Tail(<<x>>) = << >>
  OBVIOUS
<1>3. ASSUME NEW x, NEW y PROVE Append(<<x>>, y) = <<x, y>>
  <2>1. <<x>> \in Seq({x, y}) /\ y \in {x, y} /\ <<x, y>> \in Seq({x, y}) /\ Len(<<x, y>>) = 2 /\ Len(<<x>>) = 1
    OBVIOUS
  <2>2. /\ Append(<<x>>, y) \in Seq({x, y}) /\ Len(Append(<<x>>, y)) = 2
        /\ Append(<<x>>, y)[1] = x /\ Append(<<x>>, y)[2] = y
    BY <2>1
  <2>3. \A i \in 1..2 : Append(<<x>>, y)[i] = <<x, y>>[i]
    BY <2>2
  <2> QED BY <2>1, <2>2, <2>3, SeqEqual
<1>4. ASSUME NEW x, NEW y PROVE Head(<<x, y>>) = x /\ <<x, y>>[1] = x
  OBVIOUS
<1>5. ASSUME NEW x, NEW y PROVE Tail(<<x, y>>) = <<y>>
  OBVIOUS
<1> QED BY <1>1, <1>2, <1>3, <1>4, <1>5

\* What LoadInv speaks of.
loadVars == <<runtime, pc, loading, queue, reaper, down>>

\* Every step keeps LoadInv, and replaces no runtime that is there.
LEMMA LoadInvStep ==
  LoadInv /\ [Next]_vars => LoadInv' /\ (runtime # 0 /\ runtime' # runtime => runtime' = 0 \/ down # "up")
<1> SUFFICES ASSUME LoadInv, [Next]_vars
             PROVE  LoadInv' /\ (runtime # 0 /\ runtime' # runtime => runtime' = 0 \/ down # "up")
  OBVIOUS
<1> USE HostAssumption DEF Nobody, Reaper
<1>1. ASSUME NEW c \in Callers, Ensure(c)
      PROVE  LoadInv' /\ runtime' = runtime
  <2>1. /\ pc[c] = "out" /\ UNCHANGED <<runtime, loading, queue, reaper, down>>
        /\ pc' = [pc EXCEPT ![c] = "using"] \/ pc' = [pc EXCEPT ![c] = "locking"]
    BY <1>1 DEF Ensure
  <2>2. loading # c
    BY <2>1 DEF LoadInv
  <2>3. Installing' <=> Installing
    BY <2>1, <2>2 DEF Installing, LoadInv
  <2> QED BY <2>1, <2>2, <2>3 DEF LoadInv, QueueIs, Reaping
<1>2. ASSUME NEW c \in Callers, Lock(c)
      PROVE  LoadInv' /\ runtime' = runtime
  <2>1. /\ pc[c] = "locking" /\ loading = Nobody /\ UNCHANGED <<runtime, queue, reaper, down>>
        /\ \/ pc' = [pc EXCEPT ![c] = "using"] /\ UNCHANGED loading
           \/ Current = 0 /\ pc' = [pc EXCEPT ![c] = "building"] /\ loading' = c
    BY <1>2 DEF Lock
  <2>2. ~Installing /\ ~Installing'
    BY <2>1 DEF Installing, LoadInv
  <2>3. CASE pc' = [pc EXCEPT ![c] = "using"] /\ UNCHANGED loading
    BY <2>1, <2>2, <2>3 DEF LoadInv, QueueIs, Reaping
  <2>4. CASE Current = 0 /\ pc' = [pc EXCEPT ![c] = "building"] /\ loading' = c
    <3>1. down = "up" => runtime = 0 \/ (reaper = "queued" /\ queue[1] = Reaper)
      BY <2>2, <2>4, Queueing DEF Current, LoadInv, QueueIs, Reaping
    <3> QED BY <2>1, <2>2, <2>4, <3>1 DEF LoadInv, QueueIs, Reaping
  <2> QED BY <2>1, <2>3, <2>4
<1>3. ASSUME NEW c \in Callers, Build(c)
      PROVE  LoadInv' /\ runtime' = runtime
  <2>1. /\ pc[c] = "building" /\ pc' = [pc EXCEPT ![c] = "installing"] /\ queue' = Append(queue, c)
        /\ UNCHANGED <<runtime, loading, reaper, down>>
    BY <1>3 DEF Build
  <2>2. loading = c /\ ~Installing /\ Installing'
    BY <2>1 DEF LoadInv, Installing
  <2>3. down = "up" => QueueIs' /\ (queue # << >> => queue'[1] = queue[1])
    <3>1. CASE down = "up" /\ Reaping
      <4>1. queue = <<Reaper>>
        BY <2>2, <3>1 DEF LoadInv, QueueIs
      <4>2. queue' = <<Reaper, c>> /\ queue'[1] = queue[1]
        BY <2>1, <4>1, Queueing
      <4>3. Reaping' /\ loading' = c
        BY <2>1, <2>2, <3>1 DEF Reaping
      <4> QED BY <2>2, <4>2, <4>3 DEF QueueIs
    <3>2. CASE down = "up" /\ ~Reaping
      <4>1. queue = << >>
        BY <2>2, <3>2 DEF LoadInv, QueueIs
      <4>2. queue' = <<c>>
        BY <2>1, <4>1, Queueing
      <4>3. ~Reaping' /\ loading' = c
        BY <2>1, <2>2, <3>2 DEF Reaping
      <4> QED BY <2>2, <4>1, <4>2, <4>3 DEF QueueIs
    <3> QED BY <3>1, <3>2
  <2>4. down = "up" /\ Reaping => queue # << >>
    BY <2>2, Queueing DEF LoadInv, QueueIs
  <2> QED BY <2>1, <2>2, <2>3, <2>4 DEF LoadInv, Reaping
<1>4. ASSUME NEW c \in Callers, BuildFails(c)
      PROVE  LoadInv' /\ runtime' = runtime
  <2>1. /\ pc[c] = "building" /\ pc' = [pc EXCEPT ![c] = "out"] /\ loading' = Nobody
        /\ UNCHANGED <<runtime, queue, reaper, down>>
    BY <1>4 DEF BuildFails
  <2>2. loading = c /\ ~Installing /\ ~Installing'
    BY <2>1 DEF LoadInv, Installing
  <2> QED BY <2>1, <2>2 DEF LoadInv, QueueIs, Reaping
<1>5. ASSUME NEW c \in Callers, Install(c)
      PROVE  LoadInv' /\ (down = "up" => runtime = 0)
  <2>1. /\ pc[c] = "installing" /\ pc' = [pc EXCEPT ![c] = "using"] /\ loading' = Nobody
        /\ queue # << >> /\ Head(queue) = c /\ queue' = Tail(queue) /\ UNCHANGED <<reaper, down>>
    BY <1>5 DEF Install, Enters
  <2>2. loading = c /\ Installing /\ ~Installing' /\ c # Reaper
    BY <2>1 DEF LoadInv, Installing
  <2>3. down = "up" => queue[1] = c /\ QueueIs' /\ runtime = 0 /\ reaper # "dropping"
    <3>1. CASE down = "up" /\ Reaping
      <4>1. queue \in {<<Reaper, c>>, <<c, Reaper>>}
        BY <2>2, <3>1 DEF LoadInv, QueueIs
      <4>2. queue = <<c, Reaper>>
        BY <2>1, <2>2, <4>1, Queueing
      <4>3. queue' = <<Reaper>> /\ queue[1] = c
        BY <2>1, <4>2, Queueing
      <4>4. Reaping'
        BY <2>1, <3>1 DEF Reaping
      <4> QED BY <2>2, <3>1, <4>3, <4>4 DEF LoadInv, QueueIs
    <3>2. CASE down = "up" /\ ~Reaping
      <4>1. queue = <<c>>
        BY <2>2, <3>2 DEF LoadInv, QueueIs
      <4>2. queue' = << >> /\ queue[1] = c
        BY <2>1, <4>1, Queueing
      <4>3. ~Reaping'
        BY <2>1, <3>2 DEF Reaping
      <4> QED BY <2>2, <3>2, <4>2, <4>3 DEF LoadInv, QueueIs, Reaping
    <3> QED BY <3>1, <3>2
  <2> QED BY <2>1, <2>2, <2>3 DEF LoadInv
<1>6. ASSUME NEW c \in Callers, Release(c)
      PROVE  LoadInv' /\ runtime' = runtime
  <2>1. pc[c] = "using" /\ pc' = [pc EXCEPT ![c] = "out"] /\ UNCHANGED <<runtime, loading, queue, reaper, down>>
    BY <1>6 DEF Release
  <2>2. loading # c
    BY <2>1 DEF LoadInv
  <2>3. Installing' <=> Installing
    BY <2>1, <2>2 DEF Installing, LoadInv
  <2> QED BY <2>1, <2>2, <2>3 DEF LoadInv, QueueIs, Reaping
<1>7. CASE UNCHANGED loadVars
  BY <1>7 DEF loadVars, LoadInv, QueueIs, Reaping, Installing
<1>8. CASE ReapCheck
  BY <1>8 DEF ReapCheck, LoadInv, QueueIs, Reaping, Installing
<1>9. CASE ReapQueue
  <2>1. /\ reaper = "checked" /\ reaper' = "queued" /\ queue' = Append(queue, Reaper)
        /\ UNCHANGED <<runtime, pc, loading, down>>
    BY <1>9 DEF ReapQueue
  <2>2. Installing' <=> Installing
    BY <2>1 DEF Installing
  <2>3. down = "up" => QueueIs'
    <3>1. CASE down = "up" /\ Installing
      <4>1. queue = <<loading>> /\ queue' = Append(queue, Reaper)
        BY <2>1, <3>1 DEF LoadInv, QueueIs, Reaping
      <4>2. queue' = <<loading', Reaper>>
        BY <2>1, <4>1, Queueing
      <4> QED BY <2>1, <2>2, <3>1, <4>2 DEF QueueIs, Reaping
    <3>2. CASE down = "up" /\ ~Installing
      <4>1. queue = << >> /\ queue' = Append(queue, Reaper)
        BY <2>1, <3>2 DEF LoadInv, QueueIs, Reaping
      <4>2. queue' = <<Reaper>>
        BY <4>1, Queueing
      <4> QED BY <2>1, <2>2, <3>2, <4>2 DEF QueueIs, Reaping
    <3> QED BY <3>1, <3>2
  <2> QED BY <2>1, <2>3 DEF LoadInv
<1>10. CASE Reap
  <2>1. /\ reaper = "queued" /\ reaper' = "dropping" /\ runtime' = 0
        /\ queue # << >> /\ Head(queue) = Reaper /\ UNCHANGED <<pc, loading, queue, down>>
    BY <1>10 DEF Reap, Enters
  <2>2. down = "up" => QueueIs' /\ queue[1] = Reaper
    BY <2>1, Queueing DEF LoadInv, QueueIs, Reaping, Installing
  <2> QED BY <2>1, <2>2 DEF LoadInv
<1>11. CASE ReapEnds
  <2>1. /\ reaper = "dropping" /\ reaper' = "idle" /\ queue' = Tail(queue)
        /\ UNCHANGED <<runtime, pc, loading, down>>
    BY <1>11 DEF ReapEnds
  <2>2. Installing' <=> Installing
    BY <2>1 DEF Installing
  <2>3. down = "up" => QueueIs'
    <3>1. CASE down = "up" /\ Installing
      <4>1. queue \in {<<Reaper, loading>>, <<loading, Reaper>>} /\ queue[1] = Reaper /\ loading # Reaper
        BY <2>1, <3>1 DEF LoadInv, QueueIs, Reaping
      <4>2. queue = <<Reaper, loading>>
        BY <4>1, Queueing
      <4>3. queue' = <<loading'>>
        BY <2>1, <4>2, Queueing
      <4> QED BY <2>1, <2>2, <3>1, <4>3 DEF QueueIs, Reaping
    <3>2. CASE down = "up" /\ ~Installing
      <4>1. queue = <<Reaper>>
        BY <2>1, <3>2 DEF LoadInv, QueueIs, Reaping
      <4>2. queue' = << >>
        BY <2>1, <4>1, Queueing
      <4> QED BY <2>1, <2>2, <3>2, <4>2 DEF QueueIs, Reaping
    <3> QED BY <3>1, <3>2
  <2> QED BY <2>1, <2>3 DEF LoadInv
<1>12. CASE Shutdown
  BY <1>12 DEF Shutdown, LoadInv
<1>13. CASE ReaperAborted
  BY <1>13 DEF ReaperAborted, LoadInv
<1>14. CASE Unload
  BY <1>14 DEF Unload, LoadInv
<1>15. CASE UnloadEnds
  BY <1>15 DEF UnloadEnds, LoadInv
<1>16. ASSUME NEW s \in Sockets, Connect(s) \/ Disconnect(s) \/ Frame(s) \/ ReadEnds(s)
       PROVE  UNCHANGED loadVars
  BY <1>16 DEF Connect, Disconnect, Frame, ReadEnds, loadVars
<1>17. Tick \/ UNCHANGED vars => UNCHANGED loadVars
  BY DEF Tick, vars, loadVars
<1>18. UNCHANGED loadVars => runtime' = runtime
  BY DEF loadVars
<1> QED
  BY <1>1, <1>2, <1>3, <1>4, <1>5, <1>6, <1>7, <1>8, <1>9, <1>10, <1>11, <1>12, <1>13, <1>14, <1>15,
     <1>16, <1>17, <1>18 DEF Next, Builds, ReapCheck, ReapQueue, Reap, ReapEnds, Shutdown, ReaperAborted,
     Unload, UnloadEnds

\* While the gateway is up a runtime is built only where none is (ensure), whoever
\* asks for one, whatever the reaper is at, and although a writer that only waits
\* hides the runtime from both looks.
THEOREM NoneReplacedHolds == Spec => NoneReplaced
<1>1. Init => LoadInv
  BY HostAssumption DEF Init, LoadInv, QueueIs, Reaping, Installing, Nobody
<1>2. LoadInv /\ [Next]_vars => [runtime # 0 /\ runtime' # runtime => runtime' = 0 \/ down # "up"]_vars
  BY LoadInvStep
<1> QED BY <1>1, <1>2, LoadInvStep, PTL DEF Spec, NoneReplaced

-----------------------------------------------------------------------------
\* Pairing and the device store: a code gives one phone its device, and what was
\* lost has a cause.

\* Among finitely many numbered devices of one phone one has the highest number.
LEMMA NewestDevice ==
  ASSUME NEW D \in SUBSET Devices, NEW p, \E d \in D : d[1] = p
  PROVE  \E d \in D : d[1] = p /\ \A e \in D : e[1] = p => e[2] <= d[2]
<1> DEFINE S == {MaxMints - d[2] : d \in {d \in D : d[1] = p}}
<1>1. S \subseteq Nat /\ S # {}
  BY DeviceStoreAssumption DEF Devices
<1>2. PICK x \in S : \A y \in S : <<y, x>> \notin OpToRel(<, Nat)
  BY <1>1, NatLessThanWellFounded, WFMin, Zenon
<1>3. PICK d \in D : d[1] = p /\ x = MaxMints - d[2]
  BY <1>2
<1>4. ASSUME NEW e \in D, e[1] = p PROVE e[2] <= d[2]
  <2> DEFINE y == MaxMints - e[2]
  <2>1. y \in S /\ y \in Nat /\ x \in Nat
    BY <1>1, <1>2, <1>4
  <2> HIDE DEF y
  <2>2. <<y, x>> \in Nat \X Nat /\ <<y, x>>[1] = y /\ <<y, x>>[2] = x
    BY <2>1
  <2>3. ~(<<y, x>>[1] < <<y, x>>[2])
    BY <1>2, <2>1, <2>2, Zenon DEF OpToRel
  <2>4. y >= x
    BY <2>1, <2>2, <2>3
  <2> QED BY <1>3, <2>4, DeviceStoreAssumption DEF y, Devices
<1> QED BY <1>3, <1>4

\* Sets of at most one device.
LEMMA SmallSets ==
  /\ Cardinality({}) <= 1
  /\ \A x : Cardinality({x}) <= 1
BY FS_EmptySet, FS_Singleton

\* An empty store.
LEMMA StoreInitially == StoreInit => StoreInv
<1> SUFFICES ASSUME StoreInit PROVE StoreInv
  OBVIOUS
<1>1. /\ Empty.pairing = 0 /\ Empty.devices = {} /\ Empty \in Stores
  BY DeviceStoreAssumption DEF Empty, Stores
<1>2. StoreTypeOK
  <2>1. \A p \in Phones : phone[p] = {} /\ Cardinality(phone[p]) <= 1
    BY SmallSets DEF StoreInit
  <2>2. phone \in [Phones -> SUBSET Devices]
    BY DEF StoreInit
  <2> HIDE DEF StoreInit
  <2>3. up \in BOOLEAN /\ damage \in Damages /\ aside \subseteq Devices /\ unread \subseteq Devices
    BY Zenon DEF StoreInit, Damages
  <2>4. /\ mem \in Stores /\ file \in Stores
        /\ minted \in 0..MaxMints /\ printed \in 0..minted /\ lapsed \subseteq 1..minted
        /\ mem.pairing <= minted /\ file.pairing <= minted
    BY <1>1, DeviceStoreAssumption DEF StoreInit
  <2>5. conn \in [Phones -> {"off", "redeemed", "seen", "on"}]
    BY DEF StoreInit
  <2> QED BY <2>1, <2>2, <2>3, <2>4, <2>5 DEF StoreInit, StoreTypeOK
<1> QED BY <1>1, <1>2 DEF StoreInit, StoreInv, OneDevicePerCode, KeptFrom, LossHasACause, OnePhonePerCode

\* What StoreInv says of numbers and of phones, spelled out.
LEMMA Plainly ==
  ASSUME StoreInv
  PROVE  /\ minted \in Nat /\ minted <= MaxMints /\ mem.pairing \in Nat /\ file.pairing \in Nat
         /\ mem.pairing <= minted /\ file.pairing <= minted
         /\ mem.devices \subseteq Devices /\ file.devices \subseteq Devices
         /\ \A d \in Devices : d[1] \in Phones /\ d[2] \in Nat /\ d[2] # 0
         /\ \A p \in Phones : \A d \in phone[p] : d \in Devices /\ d[1] = p /\ d[2] <= minted
         /\ \A p \in Phones : conn[p] = "redeemed" => \E d \in mem.devices : d[1] = p
<1> USE DEF StoreInv
<1>1. \A d \in Devices : d[1] \in Phones /\ d[2] \in Nat /\ d[2] # 0
  BY DEF Devices
<1>2. /\ minted \in Nat /\ minted <= MaxMints /\ mem \in Stores /\ file \in Stores
      /\ mem.pairing <= minted /\ file.pairing <= minted
      /\ phone \in [Phones -> SUBSET Devices]
  BY DeviceStoreAssumption DEF StoreTypeOK
<1>3. \A p \in Phones : \A d \in phone[p] : d \in Devices
  BY <1>2
<1>4. /\ mem.pairing \in Nat /\ file.pairing \in Nat
      /\ mem.devices \subseteq Devices /\ file.devices \subseteq Devices
  BY <1>2, DeviceStoreAssumption DEF Stores
<1>5. ASSUME NEW p \in Phones
      PROVE  /\ \A d \in phone[p] : d[1] = p /\ d[2] <= minted
             /\ conn[p] = "redeemed" => \E d \in mem.devices : d[1] = p
  OBVIOUS
<1> HIDE DEF StoreInv
<1> QED BY <1>1, <1>2, <1>3, <1>4, <1>5

\* load() gives a store that StoreInv allows, and so does what it leaves of the file;
\* what the file had is in both or has been put down.
LEMMA LoadedIsSound ==
  ASSUME StoreInv, NEW how \in Loads, Load(how)
  PROVE  /\ \A s \in {Loaded(how), Remaining(how)} :
              /\ s \in Stores /\ s.pairing <= minted
              /\ OneDevicePerCode(s) /\ KeptFrom(s)
         /\ Loaded(how).devices \subseteq file.devices
         /\ Remaining(how).devices \subseteq file.devices
         /\ file.devices \subseteq Loaded(how).devices \cup aside' \cup unread'
         /\ file.devices \subseteq Remaining(how).devices \cup aside' \cup unread'
         /\ aside \subseteq aside' /\ unread \subseteq unread'
         /\ aside' \subseteq Devices /\ unread' \subseteq Devices
         /\ DamageLeft(how) \in Damages
<1>1. Empty.pairing = 0 /\ Empty.devices = {} /\ Empty \in Stores
  BY DeviceStoreAssumption DEF Empty, Stores
<1>2. \A p \in Phones : \A d \in phone[p] : d \in Devices
  BY DEF StoreInv, StoreTypeOK
<1>3. Loaded(how) \in {file, Empty} /\ Remaining(how) \in {file, Empty}
  BY DEF Loaded, Remaining
<1>4. \A s \in {file, Empty} : /\ s \in Stores /\ s.pairing <= minted
                               /\ OneDevicePerCode(s) /\ KeptFrom(s)
  BY <1>1, <1>2, DeviceStoreAssumption DEF StoreInv, StoreTypeOK, OneDevicePerCode, KeptFrom, Devices
<1>5. file.devices \subseteq Devices
  BY Plainly
<1>6. /\ aside \subseteq aside' /\ unread \subseteq unread'
      /\ aside' \subseteq Devices /\ unread' \subseteq Devices
  BY <1>5 DEF Load, StoreInv, StoreTypeOK
<1>7. /\ file.devices \subseteq Loaded(how).devices \cup aside' \cup unread'
      /\ file.devices \subseteq Remaining(how).devices \cup aside' \cup unread'
  BY DEF Load, Loaded, Remaining, Loads
<1>8. DamageLeft(how) \in Damages
  BY DEF DamageLeft, Damages, StoreInv, StoreTypeOK
<1> QED BY <1>1, <1>3, <1>4, <1>6, <1>7, <1>8

\* A write that breaks leaves one of the damages.
LEMMA BrokenIsTyped ==
  ASSUME NEW left \in Damages, Broken(left)
  PROVE  damage' \in Damages
BY DEF Broken, Damages

\* A store with a fresh code is as sound as the one it was minted in.
LEMMA MintedIsSound ==
  ASSUME StoreInv, NEW s \in Stores, NEW reissue \in BOOLEAN, NEW m, m = Mint(s, reissue),
         s.pairing <= minted, OneDevicePerCode(s), KeptFrom(s), minted < MaxMints
  PROVE  /\ m \in Stores /\ m.pairing = minted + 1 /\ m.devices \subseteq s.devices
         /\ ~reissue => m.devices = s.devices
         /\ \A d, e \in m.devices : d[2] = e[2] => d = e
         /\ \A d \in m.devices : d[2] <= minted + 1 /\ d[2] # m.pairing
         /\ \A d \in s.devices : d[2] <= minted + 1 /\ d[2] # s.pairing
         /\ KeptFrom(m)
<1>1. m.pairing = minted + 1 /\ m.devices = IF reissue THEN {} ELSE s.devices
  BY DEF Mint
<1>2. m \in Stores
  BY DeviceStoreAssumption DEF Mint, Stores, StoreInv, StoreTypeOK
<1>3. \A d \in s.devices : d \in Devices
  BY DEF Stores
<1>4. \A p \in Phones : \A d \in phone[p] : d \in Devices
  BY DEF StoreInv, StoreTypeOK
<1>5. KeptFrom(m)
  <2>1. \A p \in Phones : \A d \in phone[p] : d[2] <= minted /\ d[2] \in Nat /\ minted \in Nat
    BY Plainly
  <2> QED BY <1>1, <2>1 DEF KeptFrom
<1>6. \A d \in s.devices : d[2] <= minted /\ d[2] \in Nat /\ minted \in Nat
  BY <1>3, DeviceStoreAssumption DEF OneDevicePerCode, StoreInv, StoreTypeOK, Devices
<1>7. \A d, e \in s.devices : d[2] = e[2] => d = e
  BY DEF OneDevicePerCode
<1>8. \A d \in s.devices : d[2] # s.pairing
  BY DEF OneDevicePerCode
<1>9. /\ \A d, e \in m.devices : d[2] = e[2] => d = e
      /\ \A d \in m.devices : d[2] <= minted + 1 /\ d[2] # m.pairing
      /\ \A d \in s.devices : d[2] <= minted + 1 /\ d[2] # s.pairing
  BY <1>1, <1>6, <1>7, <1>8
<1> QED BY <1>1, <1>2, <1>5, <1>9


\* A start of the gateway that does not mint, or a `lucy pair` that fails: memory and
\* file become what was loaded and what is left.
LEMMA ReloadKeeps ==
  ASSUME StoreInv, NEW how \in Loads, ServeStored(how) \/ PairFails(how)
  PROVE  StoreInv'
<1>1. /\ Load(how) /\ file' = Remaining(how) /\ damage' \in Damages
      /\ UNCHANGED <<minted, lapsed, printed, conn, phone, revoked>>
  BY LoadedIsSound, BrokenIsTyped DEF ServeStored, PairFails, codes
<1>2. \/ ~up /\ up' = TRUE /\ mem' = Loaded(how)
      \/ up' = up /\ mem' = mem
  BY DEF ServeStored, PairFails
<1>3. /\ \A s \in {Loaded(how), Remaining(how)} :
              /\ s \in Stores /\ s.pairing <= minted
              /\ OneDevicePerCode(s) /\ KeptFrom(s)
      /\ Loaded(how).devices \subseteq file.devices
      /\ Remaining(how).devices \subseteq file.devices
      /\ file.devices \subseteq Loaded(how).devices \cup aside' \cup unread'
      /\ file.devices \subseteq Remaining(how).devices \cup aside' \cup unread'
      /\ aside \subseteq aside' /\ unread \subseteq unread'
      /\ aside' \subseteq Devices /\ unread' \subseteq Devices
  BY <1>1, LoadedIsSound
<1>4. StoreTypeOK'
  BY <1>1, <1>2, <1>3 DEF StoreInv, StoreTypeOK
<1>5. LossHasACause'
  BY <1>1, <1>3 DEF StoreInv, LossHasACause
<1>6. \A p \in Phones : /\ \A d \in phone'[p] : d[1] = p /\ d[2] <= minted'
                        /\ conn'[p] = "redeemed" => \E d \in mem'.devices : d[1] = p
  <2>1. ~up => \A p \in Phones : conn[p] = "off"
    BY DEF StoreInv
  <2> QED BY <1>1, <1>2, <2>1, Plainly
<1>7. /\ OneDevicePerCode(mem)' /\ OneDevicePerCode(file)'
      /\ KeptFrom(mem)' /\ KeptFrom(file)'
  BY <1>1, <1>2, <1>3 DEF StoreInv, OneDevicePerCode, KeptFrom
<1>8. IF up' THEN file'.devices \subseteq mem'.devices \cup revoked' \cup aside' \cup unread'
      ELSE mem' = Empty /\ \A p \in Phones : conn'[p] = "off"
  BY <1>1, <1>2, <1>3 DEF StoreInv
<1> QED BY <1>1, <1>4, <1>5, <1>6, <1>7, <1>8 DEF StoreInv, OnePhonePerCode

\* A new code replaces the one before it.
LEMMA MintKeeps ==
  ASSUME StoreInv, NEW how \in Loads, NEW reissue \in BOOLEAN,
         ServePair(how, reissue) \/ Pair(how, reissue)
  PROVE  StoreInv'
<1> DEFINE loaded == Loaded(how)
           m      == Mint(loaded, reissue)
<1>1. /\ Load(how) /\ minted' = minted + 1 /\ printed' = minted' /\ minted < MaxMints
      /\ revoked' = IF reissue THEN revoked \cup loaded.devices ELSE revoked
      /\ file' \in {m, Remaining(how)} /\ damage' \in Damages
      /\ UNCHANGED <<lapsed, conn, phone>>
  <2>1. Load(how) /\ DamageLeft(how) \in Damages /\ "none" \in Damages
    BY LoadedIsSound DEF ServePair, Pair, Damages
  <2> QED BY <2>1, BrokenIsTyped DEF ServePair, Pair, Minted, Write
<1>2. \/ ~up /\ up' = TRUE /\ mem' = m
      \/ up' = up /\ mem' = mem /\ file' = m
  BY DEF ServePair, Pair, Write
<1>3. /\ \A s \in {loaded, Remaining(how)} :
              /\ s \in Stores /\ s.pairing <= minted
              /\ OneDevicePerCode(s) /\ KeptFrom(s)
      /\ loaded.devices \subseteq file.devices
      /\ Remaining(how).devices \subseteq file.devices
      /\ file.devices \subseteq loaded.devices \cup aside' \cup unread'
      /\ file.devices \subseteq Remaining(how).devices \cup aside' \cup unread'
      /\ aside \subseteq aside' /\ unread \subseteq unread'
      /\ aside' \subseteq Devices /\ unread' \subseteq Devices
  BY <1>1, LoadedIsSound
<1>4. /\ m \in Stores /\ m.pairing = minted + 1 /\ m.devices \subseteq loaded.devices
      /\ ~reissue => m.devices = loaded.devices
      /\ \A d, e \in m.devices : d[2] = e[2] => d = e
      /\ \A d \in m.devices : d[2] <= minted + 1 /\ d[2] # m.pairing
      /\ KeptFrom(m)
  BY <1>1, <1>3, MintedIsSound
<1>r. \A d \in Remaining(how).devices : d[2] \in Nat /\ d[2] <= minted /\ minted \in Nat
  <2>1. Remaining(how).devices \subseteq Devices
    BY <1>3, Plainly
  <2> QED BY <1>3, <2>1, Plainly DEF OneDevicePerCode
<1> HIDE DEF m, loaded
<1>5. StoreTypeOK'
  <2>1. minted \in Nat /\ minted' \in 0..MaxMints /\ printed' \in 0..minted' /\ lapsed' \subseteq 1..minted'
    BY <1>1, Plainly, DeviceStoreAssumption DEF StoreInv, StoreTypeOK
  <2>2. mem' \in Stores /\ file' \in Stores
    BY <1>1, <1>2, <1>3, <1>4 DEF StoreInv, StoreTypeOK
  <2>3. mem'.pairing <= minted' /\ file'.pairing <= minted'
    BY <1>1, <1>2, <1>3, <1>4, Plainly DEF Stores
  <2>4. revoked' \subseteq Devices
    BY <1>1, <1>3, Plainly DEF StoreInv, StoreTypeOK
  <2>5. up' \in BOOLEAN
    BY <1>2 DEF StoreInv, StoreTypeOK
  <2> QED BY <1>1, <1>3, <2>1, <2>2, <2>3, <2>4, <2>5 DEF StoreInv, StoreTypeOK
<1>6. LossHasACause' /\ OnePhonePerCode'
  <2>1. file.devices \subseteq file'.devices \cup revoked' \cup aside' \cup unread'
    BY <1>1, <1>3, <1>4
  <2>2. revoked \subseteq revoked'
    BY <1>1
  <2> QED BY <1>1, <1>3, <2>1, <2>2 DEF StoreInv, LossHasACause, OnePhonePerCode
<1>7. OneDevicePerCode(mem)' /\ OneDevicePerCode(file)'
  <2>1. ASSUME NEW s \in {mem, m, Remaining(how)}
        PROVE  /\ \A d, e \in s.devices : d[2] = e[2] => d = e
               /\ \A d \in s.devices : d[2] <= minted + 1 /\ d[2] # s.pairing
    <3>1. CASE s = mem
      BY <3>1, Plainly DEF StoreInv, OneDevicePerCode
    <3>2. CASE s = m
      BY <1>4, <3>2
    <3>3. CASE s = Remaining(how)
      BY <1>3, <1>r, <3>3 DEF OneDevicePerCode
    <3> QED BY <3>1, <3>2, <3>3
  <2>2. mem' \in {mem, m} /\ file' \in {m, Remaining(how)} /\ minted' = minted + 1
    BY <1>1, <1>2
  <2> QED BY <2>1, <2>2 DEF OneDevicePerCode
<1>8. KeptFrom(mem)' /\ KeptFrom(file)'
  BY <1>1, <1>2, <1>3, <1>4 DEF StoreInv, KeptFrom
<1>9. \A p \in Phones : /\ \A d \in phone'[p] : d[1] = p /\ d[2] <= minted'
                        /\ conn'[p] = "redeemed" => \E d \in mem'.devices : d[1] = p
  <2>1. ~up => \A p \in Phones : conn[p] = "off"
    BY DEF StoreInv
  <2> QED BY <1>1, <1>2, <2>1, Plainly
<1>10. IF up' THEN file'.devices \subseteq mem'.devices \cup revoked' \cup aside' \cup unread'
       ELSE mem' = Empty /\ \A p \in Phones : conn'[p] = "off"
  <2>1. CASE ~up /\ up' = TRUE /\ mem' = m
    <3>1. file.devices \subseteq m.devices \cup revoked' \cup aside' \cup unread'
      BY <1>1, <1>3, <1>4
    <3>2. file'.devices \subseteq m.devices \cup file.devices
      BY <1>1, <1>3
    <3> QED BY <2>1, <3>1, <3>2
  <2>2. CASE up' = up /\ mem' = mem /\ file' = m
    <3>1. m.devices \subseteq file.devices /\ revoked \subseteq revoked'
      BY <1>1, <1>3, <1>4
    <3> QED BY <1>1, <1>3, <2>2, <3>1 DEF StoreInv
  <2> QED BY <1>2, <2>1, <2>2
<1> QED BY <1>5, <1>6, <1>7, <1>8, <1>9, <1>10 DEF StoreInv

\* A code is redeemed once.
LEMMA RedeemKeeps ==
  ASSUME StoreInv, NEW p \in Phones, NEW t \in 1..MaxMints, Redeem(p, t)
  PROVE  StoreInv'
<1>1. /\ up /\ t = mem.pairing /\ t # 0 /\ mem'.pairing = 0
      /\ mem'.devices = mem.devices \cup {<<p, t>>}
      /\ mem' \in Stores /\ conn' = [conn EXCEPT ![p] = "redeemed"]
      /\ UNCHANGED <<up, file, damage, aside, unread, minted, lapsed, printed, phone, revoked>>
  BY DeviceStoreAssumption DEF Redeem, codes, disk, StoreInv, StoreTypeOK, Stores, Devices
<1>2. StoreTypeOK'
  BY <1>1, DeviceStoreAssumption DEF StoreInv, StoreTypeOK
<1>3. <<p, t>>[1] = p /\ <<p, t>>[2] = t /\ t <= minted
  BY <1>1 DEF StoreInv, StoreTypeOK
<1>4. \A d \in mem.devices : d[2] # 0 /\ d \in Devices
  BY DEF StoreInv, StoreTypeOK, Stores, Devices
<1>5. \A q \in Phones : \A d \in phone[q] : d[2] # 0 /\ d \in Devices
  BY DEF StoreInv, StoreTypeOK, Devices
<1>6. OneDevicePerCode(mem)' /\ OneDevicePerCode(file)'
  BY <1>1, <1>3, <1>4 DEF StoreInv, OneDevicePerCode
<1>7. KeptFrom(mem)' /\ KeptFrom(file)'
  BY <1>1, <1>3, <1>5 DEF StoreInv, KeptFrom
<1>8. \A q \in Phones : /\ \A d \in phone'[q] : d[1] = q /\ d[2] <= minted'
                        /\ conn'[q] = "redeemed" => \E d \in mem'.devices : d[1] = q
  BY <1>1, <1>3 DEF StoreInv, StoreTypeOK
<1> QED BY <1>1, <1>2, <1>6, <1>7, <1>8 DEF StoreInv, LossHasACause, OnePhonePerCode

\* A code that is refused changes no device.
LEMMA RefuseKeeps ==
  ASSUME StoreInv, NEW p \in Phones, NEW t \in 1..MaxMints, RefuseCode(p, t)
  PROVE  StoreInv'
<1>1. /\ up /\ mem'.devices = mem.devices /\ mem'.pairing \in {0, mem.pairing}
      /\ mem' \in Stores /\ t \in 1..minted
      /\ UNCHANGED <<up, file, damage, aside, unread, minted, lapsed, printed, conn, phone, revoked>>
  BY DeviceStoreAssumption DEF RefuseCode, codes, disk, StoreInv, StoreTypeOK, Stores
<1>2. StoreTypeOK'
  <2>1. UNCHANGED <<up, file, damage, aside, unread, minted, lapsed, printed, conn, phone, revoked>> /\ StoreTypeOK
    BY <1>1 DEF StoreInv
  <2>2. minted \in Nat /\ mem'.pairing <= minted
    <3>1. minted \in 0..MaxMints /\ mem.pairing <= minted
      BY <2>1 DEF StoreTypeOK
    <3> QED BY <1>1, <3>1, DeviceStoreAssumption
  <2> QED BY <1>1, <2>1, <2>2 DEF StoreTypeOK
<1>3. \A d \in mem.devices : d[2] # 0 /\ d \in Devices
  BY DEF StoreInv, StoreTypeOK, Stores, Devices
<1>4. \A q \in Phones : \A d \in phone[q] : d[2] # 0 /\ d \in Devices
  BY DEF StoreInv, StoreTypeOK, Devices
<1> QED
  BY <1>1, <1>2, <1>3, <1>4 DEF StoreInv, LossHasACause, OnePhonePerCode, OneDevicePerCode, KeptFrom

\* The file written is a store that memory held.
LEMMA SavedKeeps == ASSUME StoreInv, NEW p \in Phones, Saved(p) PROVE StoreInv'
<1> DEFINE kept == CHOOSE d \in mem.devices : d[1] = p /\ \A e \in mem.devices :
                                                     e[1] = p => e[2] <= d[2]
<1>1. /\ conn[p] \in {"redeemed", "seen"} /\ up
      /\ file' = mem /\ damage' \in Damages /\ conn' = [conn EXCEPT ![p] = "on"]
      /\ UNCHANGED <<up, mem, aside, unread, minted, lapsed, printed, revoked>>
  BY DEF Saved, Write, Damages, codes, StoreInv
<1>2. CASE conn[p] = "seen"
  <2>1. phone' = phone
    BY <1>2 DEF Saved, StoreInv, StoreTypeOK
  <2>2. StoreTypeOK'
    BY <1>1, <2>1 DEF StoreInv, StoreTypeOK
  <2> QED BY <1>1, <2>1, <2>2 DEF StoreInv, StoreTypeOK, LossHasACause, OnePhonePerCode, OneDevicePerCode, KeptFrom
<1>3. CASE conn[p] = "redeemed"
  <2>1. mem.devices \in SUBSET Devices /\ \E d \in mem.devices : d[1] = p
    BY <1>3, Plainly
  <2>2. kept \in mem.devices /\ kept[1] = p
    BY <2>1, NewestDevice
  <2>3. phone' = [phone EXCEPT ![p] = {kept}]
    BY <1>3 DEF Saved
  <2> HIDE DEF kept
  <2>4. StoreTypeOK'
    BY <1>1, <2>1, <2>2, <2>3, SmallSets DEF StoreInv, StoreTypeOK
  <2>5. \A q \in Phones : \A d \in phone'[q] :
          \/ d \in phone[q]
          \/ d = kept /\ q = p
    BY <2>3 DEF StoreInv, StoreTypeOK
  <2>6. \A d \in mem.devices : d[2] <= minted /\ d[2] # mem.pairing
    BY DEF StoreInv, OneDevicePerCode
  <2>7. OnePhonePerCode'
    <3> SUFFICES ASSUME NEW q \in Phones, NEW r \in Phones, q # r,
                        NEW d \in phone'[q], NEW e \in phone'[r], d[2] = e[2]
                 PROVE  FALSE
      BY DEF OnePhonePerCode
    <3>1. CASE d \in phone[q] /\ e \in phone[r]
      BY <3>1 DEF StoreInv, OnePhonePerCode
    <3>2. CASE d = kept /\ q = p /\ e \in phone[r]
      BY <2>2, <3>2, Plainly DEF StoreInv, KeptFrom
    <3>3. CASE d \in phone[q] /\ e = kept /\ r = p
      BY <2>2, <3>3, Plainly DEF StoreInv, KeptFrom
    <3> QED BY <2>5, <3>1, <3>2, <3>3
  <2>8. KeptFrom(mem)' /\ KeptFrom(file)'
    <3> SUFFICES ASSUME NEW q \in Phones, NEW d \in phone'[q]
                 PROVE  d[2] # mem.pairing /\ \A e \in mem.devices : d[2] = e[2] => d = e
      BY <1>1 DEF KeptFrom
    <3>1. CASE d \in phone[q]
      BY <3>1 DEF StoreInv, KeptFrom
    <3>2. CASE d = kept
      BY <2>2, <2>6, <3>2 DEF StoreInv, OneDevicePerCode
    <3> QED BY <2>5, <3>1, <3>2
  <2>9. \A q \in Phones : /\ \A d \in phone'[q] : d[1] = q /\ d[2] <= minted'
                          /\ conn'[q] = "redeemed" => \E d \in mem'.devices : d[1] = q
    BY <1>1, <2>2, <2>5, <2>6, Plainly DEF StoreInv, StoreTypeOK
  <2>10. LossHasACause'
    BY <1>1, <2>2, <2>5 DEF StoreInv, LossHasACause
  <2> QED BY <1>1, <2>4, <2>7, <2>8, <2>9, <2>10 DEF StoreInv, OneDevicePerCode
<1> QED BY <1>1, <1>2, <1>3

\* Every step keeps StoreInv.
LEMMA StoreStep == StoreInv /\ [StoreNext]_storeVars => StoreInv'
<1> SUFFICES ASSUME StoreInv, [StoreNext]_storeVars PROVE StoreInv'
  OBVIOUS
<1> USE DEF codes, disk
<1>1. CASE UNCHANGED storeVars
  BY <1>1 DEF storeVars, StoreInv, StoreTypeOK, LossHasACause, OnePhonePerCode, OneDevicePerCode, KeptFrom
<1>2. ASSUME NEW how \in Loads, ServeStored(how) \/ PairFails(how) PROVE StoreInv'
  BY <1>2, ReloadKeeps
<1>3. CASE Crash
  <2>1. /\ up' = FALSE /\ mem' = Empty /\ conn' = [q \in Phones |-> "off"]
        /\ damage' \in Damages
        /\ UNCHANGED <<file, aside, unread, minted, lapsed, printed, phone, revoked>>
    BY <1>3, BrokenIsTyped DEF Crash, StoreInv, StoreTypeOK
  <2>2. Empty.pairing = 0 /\ Empty.devices = {} /\ Empty \in Stores
    BY DeviceStoreAssumption DEF Empty, Stores
  <2>3. \A q \in Phones : \A d \in phone[q] : d[2] # 0
    BY DEF StoreInv, StoreTypeOK, Devices
  <2>4. StoreTypeOK'
    <3>1. mem'.pairing <= minted
      BY <2>2, Plainly, <2>1
    <3>2. conn' \in [Phones -> {"off", "redeemed", "seen", "on"}]
      BY <2>1
    <3> QED BY <2>1, <2>2, <3>1, <3>2 DEF StoreInv, StoreTypeOK
  <2> QED BY <2>1, <2>2, <2>3, <2>4 DEF StoreInv, LossHasACause, OnePhonePerCode, OneDevicePerCode, KeptFrom
<1>4. ASSUME NEW how \in Loads, NEW reissue \in BOOLEAN, ServePair(how, reissue) \/ Pair(how, reissue)
      PROVE  StoreInv'
  BY <1>4, MintKeeps
<1>5. ASSUME NEW t \in 1..MaxMints, Lapse(t) PROVE StoreInv'
  BY <1>5 DEF Lapse, StoreInv, StoreTypeOK, LossHasACause, OnePhonePerCode, OneDevicePerCode, KeptFrom
<1>6. ASSUME NEW p \in Phones, NEW t \in 1..MaxMints, Redeem(p, t) \/ RefuseCode(p, t) PROVE StoreInv'
  BY <1>6, RedeemKeeps, RefuseKeeps
<1>7. ASSUME NEW p \in Phones, Authenticate(p) \/ SaveFails(p) \/ Leave(p) PROVE StoreInv'
  <2>1. /\ conn' \in [Phones -> {"off", "redeemed", "seen", "on"}]
        /\ \A q \in Phones : conn'[q] # conn[q] => conn'[q] # "redeemed"
        /\ ~up => \A q \in Phones : conn'[q] = "off"
        /\ damage' \in Damages
        /\ UNCHANGED <<up, mem, file, aside, unread, minted, lapsed, printed, phone, revoked>>
    BY <1>7, BrokenIsTyped DEF Authenticate, SaveFails, Leave, StoreInv, StoreTypeOK
  <2>2. StoreTypeOK'
    BY <2>1 DEF StoreInv, StoreTypeOK
  <2> QED BY <2>1, <2>2 DEF StoreInv, LossHasACause, OnePhonePerCode, OneDevicePerCode, KeptFrom
<1>8. ASSUME NEW p \in Phones, Saved(p) PROVE StoreInv'
  BY <1>8, SavedKeeps
<1> QED BY <1>1, <1>2, <1>3, <1>4, <1>5, <1>6, <1>7, <1>8 DEF StoreNext

\* StoreInv holds throughout.
LEMMA StoreInvHolds == StoreSpec => []StoreInv
BY StoreInitially, StoreStep, PTL DEF StoreSpec

\* No code makes two phones devices.
THEOREM OnePhonePerCodeHolds == StoreSpec => []OnePhonePerCode
<1>1. StoreInv => OnePhonePerCode
  BY DEF StoreInv
<1> QED BY <1>1, StoreInvHolds, PTL

\* A token that was handed out is lost to a reissue, with a damaged file that was put aside,
\* or by a load that could neither read nor move the file (auth.rs), and to nothing else.
THEOREM LossHasACauseHolds == StoreSpec => []LossHasACause
<1>1. StoreInv => LossHasACause
  BY DEF StoreInv
<1> QED BY <1>1, StoreInvHolds, PTL
=============================================================================
