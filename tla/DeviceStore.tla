---------------------------- MODULE DeviceStore ----------------------------
(***************************************************************************)
(* lucy-gateway's pairing and device store (crates/lucy-gateway/src/auth.rs, *)
(* lib.rs and the authentication part of server.rs): the copy the running   *)
(* gateway works on, the JSON file it writes back, the `lucy pair` process  *)
(* that edits the file, and the phones.  Tokens are numbered as they are    *)
(* minted; a device is the phone and the pairing token it redeemed.         *)
(***************************************************************************)
EXTENDS Integers, FiniteSets

CONSTANTS Phones,
          MaxMints,    \* bound on the pairing tokens minted
          PairBeside,  \* `lucy pair` may run while the gateway does
          TornWrites   \* a write that fails or dies may leave the file half written

ASSUME DeviceStoreAssumption ==
  /\ MaxMints \in Nat
  /\ PairBeside \in BOOLEAN /\ TornWrites \in BOOLEAN

VARIABLES up,       \* the gateway process runs
          mem,      \* its store: the live pairing token (0 for none) and the devices
          file,     \* the store last written whole, or none since it was moved
          damage,   \* what half a write left of the file: it does not parse, or is no text
          aside,    \* the devices of damaged files that were renamed aside
          unread,   \* the devices of files a load could neither read nor move
          minted, lapsed, printed,  \* tokens: how many, expired ones, the last QR shown
          conn,     \* each phone's connection
          phone,    \* the device token a phone keeps, as the set of it
          revoked   \* devices a reissue removed

disk  == <<file, damage, aside, unread>>
storeVars == <<up, mem, disk, minted, lapsed, printed, conn, phone, revoked>>
codes == <<minted, lapsed, printed>>

Devices == Phones \X (1..MaxMints)
Stores  == [pairing : 0..MaxMints, devices : SUBSET Devices]
Empty   == [pairing |-> 0, devices |-> {}]
Damages == {"none", "garbled", "binary"}

StoreTypeOK ==
  /\ up \in BOOLEAN /\ damage \in Damages
  /\ aside \subseteq Devices /\ unread \subseteq Devices
  /\ mem \in Stores /\ file \in Stores
  /\ minted \in 0..MaxMints /\ printed \in 0..minted /\ lapsed \subseteq 1..minted
  /\ mem.pairing <= minted /\ file.pairing <= minted
  /\ conn \in [Phones -> {"off", "redeemed", "seen", "on"}]
  /\ phone \in [Phones -> SUBSET Devices] /\ \A p \in Phones : Cardinality(phone[p]) <= 1
  /\ revoked \subseteq Devices

StoreInit ==
  /\ up = FALSE /\ mem = Empty
  /\ file = Empty /\ damage = "none" /\ aside = {} /\ unread = {}
  /\ minted = 0 /\ lapsed = {} /\ printed = 0
  /\ conn = [p \in Phones |-> "off"] /\ phone = [p \in Phones |-> {}]
  /\ revoked = {}

----------------------------------------------------------------------------
\* Slip: a file that does not parse is replaced without being kept.
LoadReplacing(how) ==
  /\ how = "read" => damage = "none"
  /\ how = "kept" => damage = "garbled"
  /\ aside' = aside
  /\ unread' = IF how = "blind" THEN unread \cup file.devices ELSE unread

\* load(): the file is read; or it does not parse, is renamed aside and a fresh store
\* begun; or a fresh store is begun with the file left as it is, since it could not be
\* read (whatever the error, text that is no UTF-8 among them) or not be renamed.
Load(how) ==
  /\ how = "read" => damage = "none"
  /\ how = "kept" => damage = "garbled"
  /\ aside' = IF how = "kept" THEN aside \cup file.devices ELSE aside
  /\ unread' = IF how = "blind" THEN unread \cup file.devices ELSE unread

Loads == {"read", "kept", "blind"}
Loaded(how)    == IF how = "read" THEN file ELSE Empty
Remaining(how) == IF how = "kept" THEN Empty ELSE file
DamageLeft(how) == IF how = "kept" THEN "none" ELSE damage

\* save(): fs::write truncates, then writes.
Write(store) == file' = store /\ damage' = "none"
\* A write that fails, or dies, over what a load left.
Broken(left) == damage' \in {left} \cup IF TornWrites THEN {"garbled", "binary"} ELSE {}

\* mint_pairing(), then, for a reissue, the revocation of every device.
Mint(store, reissue) ==
  [pairing |-> minted + 1, devices |-> IF reissue THEN {} ELSE store.devices]
Minted(store, reissue) ==
  /\ minted < MaxMints
  /\ minted' = minted + 1
  /\ revoked' = IF reissue THEN revoked \cup store.devices ELSE revoked

\* `lucy serve`: load the store.
ServeStored(how) ==
  /\ ~up /\ up' = TRUE
  /\ Load(how) /\ mem' = Loaded(how)
  /\ file' = Remaining(how) /\ damage' = DamageLeft(how)
  /\ UNCHANGED <<codes, conn, phone, revoked>>

\* `lucy serve --pair`: mint too, save (a failure is only logged), print the QR.
ServePair(how, reissue) ==
  /\ ~up /\ up' = TRUE
  /\ Load(how) /\ Minted(Loaded(how), reissue)
  /\ mem' = Mint(Loaded(how), reissue)
  /\ \/ Write(mem')
     \/ file' = Remaining(how) /\ Broken(DamageLeft(how))
  /\ printed' = minted'
  /\ UNCHANGED <<lapsed, conn, phone>>

\* `lucy pair`: mint in the file.
Pair(how, reissue) ==
  /\ ~up \/ PairBeside
  /\ Load(how) /\ Minted(Loaded(how), reissue)
  /\ Write(Mint(Loaded(how), reissue))
  /\ printed' = minted'
  /\ UNCHANGED <<up, mem, lapsed, conn, phone>>

\* It fails or dies in its save, and prints nothing.
PairFails(how) ==
  /\ ~up \/ PairBeside
  /\ Load(how) /\ minted < MaxMints
  /\ file' = Remaining(how) /\ Broken(DamageLeft(how))
  /\ UNCHANGED <<up, mem, codes, conn, phone, revoked>>

\* PAIRING_TTL_SECS pass.
Lapse(t) ==
  /\ t \in 1..minted /\ lapsed' = lapsed \cup {t}
  /\ UNCHANGED <<up, mem, disk, minted, printed, conn, phone, revoked>>

----------------------------------------------------------------------------
(* The auth message of a phone's connection *)

\* A stored device token the gateway knows: last_seen is touched and saved.
Authenticate(p) ==
  /\ up /\ conn[p] = "off" /\ phone[p] # {} /\ phone[p] \subseteq mem.devices
  /\ conn' = [conn EXCEPT ![p] = "seen"]
  /\ UNCHANGED <<up, mem, disk, codes, phone, revoked>>

\* Slip: the redeemed token stays live.
RedeemAgain(p, t) ==
  /\ up /\ conn[p] = "off" /\ t = mem.pairing /\ t # 0 /\ t \notin lapsed
  /\ mem' = [mem EXCEPT !.devices = @ \cup {<<p, t>>}]
  /\ conn' = [conn EXCEPT ![p] = "redeemed"]
  /\ UNCHANGED <<up, disk, codes, phone, revoked>>

\* redeem_pairing(): the token is spent and the device registered, in memory.
Redeem(p, t) ==
  /\ up /\ conn[p] = "off" /\ t = mem.pairing /\ t # 0 /\ t \notin lapsed
  /\ mem' = [pairing |-> 0, devices |-> mem.devices \cup {<<p, t>>}]
  /\ conn' = [conn EXCEPT ![p] = "redeemed"]
  /\ UNCHANGED <<up, disk, codes, phone, revoked>>

\* Any other code is refused; an expired pairing is cleared on the way.
RefuseCode(p, t) ==
  /\ up /\ conn[p] = "off" /\ t \in 1..printed
  /\ t # mem.pairing \/ t \in lapsed
  /\ mem' = IF mem.pairing \in lapsed THEN [mem EXCEPT !.pairing = 0] ELSE mem
  /\ UNCHANGED <<up, disk, codes, conn, phone, revoked>>

\* save_devices() writes whatever the store is by now.  A new device's token is
\* sent when it worked; a phone that was only seen goes on either way.
Saved(p) ==
  /\ conn[p] \in {"redeemed", "seen"}
  /\ Write(mem)
  /\ conn' = [conn EXCEPT ![p] = "on"]
  /\ phone' = [phone EXCEPT ![p] =
                 IF conn[p] = "seen" THEN @
                 ELSE {CHOOSE d \in mem.devices : d[1] = p /\ \A e \in mem.devices :
                                                    e[1] = p => e[2] <= d[2]}]
  /\ UNCHANGED <<up, mem, aside, unread, codes, revoked>>

\* It fails, perhaps after it has truncated the file.
SaveFails(p) ==
  /\ conn[p] \in {"redeemed", "seen"}
  /\ conn' = [conn EXCEPT ![p] = IF @ = "seen" THEN "on" ELSE "off"]
  /\ Broken(damage)
  /\ UNCHANGED <<up, mem, file, aside, unread, codes, phone, revoked>>

Leave(p) ==
  /\ conn[p] = "on" /\ conn' = [conn EXCEPT ![p] = "off"]
  /\ UNCHANGED <<up, mem, disk, codes, phone, revoked>>

\* The gateway dies, perhaps in the middle of fs::write.
Crash ==
  /\ up /\ up' = FALSE
  /\ IF \E p \in Phones : conn[p] \in {"redeemed", "seen"} THEN Broken(damage) ELSE damage' = damage
  /\ mem' = Empty /\ conn' = [p \in Phones |-> "off"]
  /\ UNCHANGED <<file, aside, unread, codes, phone, revoked>>

----------------------------------------------------------------------------
StoreNext ==
  \/ Crash
  \/ \E how \in Loads : \/ ServeStored(how) \/ PairFails(how)
                       \/ \E reissue \in BOOLEAN : ServePair(how, reissue) \/ Pair(how, reissue)
  \/ \E t \in 1..MaxMints : Lapse(t) \/ \E p \in Phones : Redeem(p, t) \/ RefuseCode(p, t)
  \/ \E p \in Phones : Authenticate(p) \/ Saved(p) \/ SaveFails(p) \/ Leave(p)

StoreSpec == StoreInit /\ [][StoreNext]_storeVars

----------------------------------------------------------------------------
\* A pairing token makes one phone a device, whatever crashes and failed saves
\* come between: no two phones ever hold tokens had for the same code.
OnePhonePerCode ==
  \A p, q \in Phones : p # q => \A d \in phone[p], e \in phone[q] : d[2] # e[2]

\* A phone that was given its token is in the file, so it outlives a restart, whatever
\* saves fail and crashes come between, but for three causes: a reissue revoked it, it
\* was put aside with a damaged file, or a load could neither read nor move the file
\* (auth.rs:99, 242), which is less than auth.rs:86-88 promises (README, section 6).
LossHasACause ==
  \A p \in Phones : phone[p] \subseteq file.devices \cup revoked \cup aside \cup unread

\* What is behind the two.  A code is live in a store only while no device has it
\* there and no phone keeps a token had for it; a device of one code is the same
\* device wherever it is; and what the file has, the running gateway has too, save
\* what was lost for one of the three causes.
OneDevicePerCode(s) ==
  /\ \A d, e \in s.devices : d[2] = e[2] => d = e
  /\ \A d \in s.devices : d[2] <= minted /\ d[2] # s.pairing
KeptFrom(s) ==
  \A p \in Phones : \A d \in phone[p] :
    /\ d[2] # s.pairing
    /\ \A e \in s.devices : d[2] = e[2] => d = e
StoreInv ==
  /\ StoreTypeOK /\ LossHasACause /\ OnePhonePerCode
  /\ OneDevicePerCode(mem) /\ OneDevicePerCode(file)
  /\ KeptFrom(mem) /\ KeptFrom(file)
  /\ \A p \in Phones : /\ \A d \in phone[p] : d[1] = p /\ d[2] <= minted
                       /\ conn[p] = "redeemed" => \E d \in mem.devices : d[1] = p
  /\ IF up THEN file.devices \subseteq mem.devices \cup revoked \cup aside \cup unread
     ELSE mem = Empty /\ \A p \in Phones : conn[p] = "off"
=============================================================================
