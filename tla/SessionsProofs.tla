--------------------------- MODULE SessionsProofs ---------------------------
(***************************************************************************)
(* Sessions and compaction, plan execution, the browser tab and the page   *)
(* watches, for any sessions, tasks, requests, plans, pages, lost answers, *)
(* lines, lengths and likenesses.                                          *)
(***************************************************************************)
EXTENDS Sessions, Turn, BrowserTab, Tasks, SequenceTheorems, FiniteSetTheorems, WellFoundedInduction, TLAPS

-----------------------------------------------------------------------------
\* Sessions: what the live session holds, its log holds.

\* The lesser of two numbers.
LEMMA LeastOfTwo ==
  ASSUME NEW a \in Nat, NEW b \in Nat
  PROVE  Min({a, b}) \in Nat /\ Min({a, b}) <= a /\ Min({a, b}) <= b
<1> DEFINE Least(m) == m \in {a, b} /\ \A y \in {a, b} : m <= y
<1>1. \E m : Least(m)
  <2>1. CASE a <= b
    BY <2>1
  <2>2. CASE ~(a <= b)
    BY <2>2
  <2> QED BY <2>1, <2>2
<1>2. Min({a, b}) = CHOOSE m : Least(m)
  BY DEF Min
<1>3. Least(Min({a, b}))
  BY <1>1, <1>2
<1> QED BY <1>3

\* Trimming and summarising drop turns and invent none but the summary.
LEMMA TrimDrops ==
  ASSUME NEW S, NEW h \in Seq(S), NEW max \in Nat \ {0}
  PROVE  /\ Trim(h, max) \in Seq(S)
         /\ \A i \in DOMAIN Trim(h, max) : \E j \in DOMAIN h : Trim(h, max)[i] = h[j]
<1>1. CASE Len(h) <= max
  BY <1>1 DEF Trim
<1>2. CASE Len(h) > max /\ h[1].by = "user"
  <2> DEFINE back == SubSeq(h, Len(h) - max + 2, Len(h))
  <2>1. Trim(h, max) = <<h[1]>> \o back
    BY <1>2 DEF Trim
  <2>2. back \in Seq(S) /\ Len(back) = max - 1 /\ \A i \in 1..max-1 : back[i] = h[Len(h) - max + 1 + i]
    BY <1>2
  <2>3. h[1] \in S /\ 1 \in DOMAIN h
    BY <1>2
  <2> HIDE DEF back
  <2>4. Len(<<h[1]>> \o back) = max
    BY <2>2
  <2>5. \A i \in 1..max : (<<h[1]>> \o back)[i] = IF i = 1 THEN h[1] ELSE back[i - 1]
    BY <2>2
  <2>6. \A i \in 2..max : back[i-1] = h[Len(h) - max + i] /\ Len(h) - max + i \in DOMAIN h
    BY <1>2, <2>2
  <2>7. <<h[1]>> \o back \in Seq(S)
    BY <2>2, <2>3
  <2>8. \A i \in 1..max : \E j \in DOMAIN h : (<<h[1]>> \o back)[i] = h[j]
    <3> SUFFICES ASSUME NEW i \in 1..max PROVE \E j \in DOMAIN h : (<<h[1]>> \o back)[i] = h[j]
      OBVIOUS
    <3>1. CASE i = 1
      BY <2>3, <2>5, <3>1
    <3>2. CASE i \in 2..max
      <4>1. i # 1 /\ i \in 1..max
        BY <3>2
      <4>2. (<<h[1]>> \o back)[i] = back[i - 1]
        BY <2>5, <4>1
      <4>3. back[i - 1] = h[Len(h) - max + i] /\ Len(h) - max + i \in DOMAIN h
        BY <2>6, <3>2
      <4> QED BY <4>2, <4>3
    <3>3. \A k \in 1..max : k = 1 \/ k \in 2..max
      OBVIOUS
    <3> QED BY <3>1, <3>2, <3>3
  <2>9. DOMAIN (<<h[1]>> \o back) = 1..max
    BY <2>4, <2>7
  <2> QED BY <2>1, <2>7, <2>8, <2>9
<1>3. CASE Len(h) > max /\ h[1].by # "user"
  <2> DEFINE back == SubSeq(h, Len(h) - max + 1, Len(h))
  <2>1. Trim(h, max) = back
    BY <1>3 DEF Trim
  <2>2. back \in Seq(S) /\ Len(back) = max /\ \A i \in 1..max : back[i] = h[Len(h) - max + i]
    BY <1>3
  <2> HIDE DEF back
  <2>3. \A i \in 1..max : Len(h) - max + i \in DOMAIN h
    BY <1>3
  <2> QED BY <2>1, <2>2, <2>3
<1> QED BY <1>1, <1>2, <1>3

\* So does compaction, but for the summary.
LEMMA CompactedDrops ==
  ASSUME NEW S, NEW h \in Seq(S), Summary \in S
  PROVE  /\ Compacted(h) \in Seq(S)
         /\ \A i \in DOMAIN Compacted(h) :
              Compacted(h)[i] = Summary \/ \E j \in DOMAIN h : Compacted(h)[i] = h[j]
<1> DEFINE kept == Min({Keep, Len(h)})
<1>1. kept \in Nat /\ kept <= Len(h)
  BY LeastOfTwo, SessionsAssumption
<1> DEFINE back == SubSeq(h, Len(h) - kept + 1, Len(h))
<1>2. Compacted(h) = <<Summary>> \o back
  BY DEF Compacted
<1> HIDE DEF kept
<1>3. back \in Seq(S) /\ Len(back) = kept /\ \A i \in 1..kept : back[i] = h[Len(h) - kept + i]
  BY <1>1
<1> HIDE DEF back
<1>4. Len(<<Summary>> \o back) = kept + 1
  BY <1>1, <1>3
<1>5. \A i \in 1..kept+1 : (<<Summary>> \o back)[i] = IF i = 1 THEN Summary ELSE back[i - 1]
  BY <1>1, <1>3
<1>6. \A i \in 2..kept+1 : back[i-1] = h[Len(h) - kept + i - 1] /\ Len(h) - kept + i - 1 \in DOMAIN h
  BY <1>1, <1>3
<1> QED BY <1>1, <1>2, <1>3, <1>4, <1>5, <1>6

\* What a history holds are turns.
LEMMA TurnsThere ==
  /\ Summary \in Turns /\ LegacyTurns \in Seq(Turns) /\ NoData \in Session
  /\ \A p \in Prompts : Said(p, "user") \in Turns /\ Said(p, "lucy") \in Turns
<1>1. Summary \in Turns /\ \A p \in Prompts : Said(p, "user") \in Turns /\ Said(p, "lucy") \in Turns
  BY DEF Turns
<1>2. LegacyTurns \in Seq(ToSet(LegacyTurns)) /\ ToSet(LegacyTurns) \subseteq Turns
  BY SessionsAssumption DEF Turns
<1>3. LegacyTurns \in Seq(Turns)
  BY <1>2
<1>4. << >> \in Seq(Turns)
  OBVIOUS
<1>5. NoData \in Session
  BY <1>4 DEF NoData, Session
<1> QED BY <1>1, <1>3, <1>5

\* The types of the start.
LEMMA RecordTypesInit == SessionsInit => RecordTypeOK
<1> SUFFICES ASSUME SessionsInit PROVE RecordTypeOK
  OBVIOUS
<1>1. store \in [Stored -> Seq(Turns)] /\ Stored = {}
  BY DEF SessionsInit, Stored
<1>2. live \in Session /\ command \in Command
  BY TurnsThere DEF SessionsInit, Command
<1>3. turn \in [Prompts -> Progress]
  BY DEF SessionsInit, Progress
<1> QED BY <1>1, <1>2, <1>3 DEF RecordTypeOK, SessionsInit, NoCommand

\* Storing under an id, and loading from it.
LEMMA StoreTypes ==
  ASSUME RecordTypeOK
  PROVE  /\ \A id \in Ids : [NoData EXCEPT !.id = id].id = id
         /\ \A id \in Ids : /\ Written(id, << >>) \in [Stored \cup {id} -> Seq(Turns)]
                            /\ DOMAIN Written(id, << >>) = Stored \cup {id}
         /\ \A id \in Ids : Without(id) \in [Stored \ {id} -> Seq(Turns)] /\ DOMAIN Without(id) = Stored \ {id}
         /\ \A id \in Ids, t \in Turns : Logged(id, t) \in [Stored -> Seq(Turns)] /\ DOMAIN Logged(id, t) = Stored
         /\ \A id \in Stored : Loaded(id) \in Session
         /\ \A id \in Ids : [NoData EXCEPT !.id = id] = [id |-> id, hist |-> << >>] /\ [NoData EXCEPT !.id = id] \in Session
<1>0. store \in [Stored -> Seq(Turns)] /\ << >> \in Seq(Turns)
  BY DEF RecordTypeOK
<1>1. \A id \in Ids : /\ Written(id, << >>) \in [Stored \cup {id} -> Seq(Turns)]
                     /\ DOMAIN Written(id, << >>) = Stored \cup {id}
  BY <1>0 DEF Written
<1>2. \A id \in Ids : Without(id) \in [Stored \ {id} -> Seq(Turns)] /\ DOMAIN Without(id) = Stored \ {id}
  BY <1>0 DEF Without
<1>3. \A id \in Ids, t \in Turns : Logged(id, t) \in [Stored -> Seq(Turns)] /\ DOMAIN Logged(id, t) = Stored
  <2> SUFFICES ASSUME NEW id \in Ids, NEW t \in Turns
               PROVE  Logged(id, t) \in [Stored -> Seq(Turns)] /\ DOMAIN Logged(id, t) = Stored
    OBVIOUS
  <2>1. CASE id \in Stored
    <3>1. Append(store[id], t) \in Seq(Turns)
      BY <1>0, <2>1
    <3> QED BY <1>0, <3>1 DEF Logged
  <2>2. CASE id \notin Stored
    BY <1>0, <2>2 DEF Logged
  <2> QED BY <2>1, <2>2
<1>4. \A id \in Stored : Loaded(id) \in Session
  BY <1>0 DEF Loaded, Session, RecordTypeOK
<1>6. \A id \in Ids : [NoData EXCEPT !.id = id].id = id
  BY DEF NoData
<1>5. \A id \in Ids : [NoData EXCEPT !.id = id] = [id |-> id, hist |-> << >>] /\ [NoData EXCEPT !.id = id] \in Session
  <2> SUFFICES ASSUME NEW id \in Ids
               PROVE  [NoData EXCEPT !.id = id] = [id |-> id, hist |-> << >>] /\ [NoData EXCEPT !.id = id] \in Session
    OBVIOUS
  <2>1. [NoData EXCEPT !.id = id] = [id |-> id, hist |-> << >>]
    BY DEF NoData
  <2> QED BY <1>0, <2>1 DEF Session
<1> QED BY <1>1, <1>2, <1>3, <1>4, <1>5, <1>6

\* A session under an id is one of that id.
LEMMA EmptySession ==
  ASSUME RecordTypeOK, NEW id \in Ids
  PROVE  [NoData EXCEPT !.id = id] \in Session /\ [NoData EXCEPT !.id = id].id = id
  BY StoreTypes

\* What a turn saves, and how it moves, keeps the types.
LEMMA TurnTypes ==
  ASSUME RecordTypeOK, NEW p \in Prompts
  PROVE  /\ Pending(p) \in Turns
         /\ \A a \in {"asked", "answering", "answered", "summarising", "done"} :
              [turn EXCEPT ![p].at = a] \in [Prompts -> Progress]
         /\ \A a \in {"asking", "answering"} :
              [turn EXCEPT ![p] = [at |-> a, owner |-> live.id]] \in [Prompts -> Progress]
<1>1. Pending(p) \in Turns
  BY TurnsThere DEF Pending
<1>2. turn \in [Prompts -> Progress] /\ live.id \in Ids \cup {"none"}
  BY DEF RecordTypeOK, Session
<1>3. \A a \in {"asked", "answering", "answered", "summarising", "done"} :
        [turn EXCEPT ![p].at = a] \in [Prompts -> Progress]
  BY <1>2 DEF Progress
<1>4. \A a \in {"asking", "answering"} :
        [turn EXCEPT ![p] = [at |-> a, owner |-> live.id]] \in [Prompts -> Progress]
  BY <1>2 DEF Progress
<1> QED BY <1>1, <1>3, <1>4

\* What may be said of the history after one more turn, a trim or a summary.
LEMMA HistoryTypes ==
  ASSUME RecordTypeOK
  PROVE  /\ \A t \in Turns : Trim(Append(live.hist, t), MaxHistory) \in Seq(Turns)
         /\ \A max \in Nat \ {0} : Trim(live.hist, max) \in Seq(Turns)
         /\ Compacted(live.hist) \in Seq(Turns)
         /\ \A h \in Seq(Turns) : /\ [live EXCEPT !.hist = h] \in Session
                                  /\ [live EXCEPT !.hist = h].id = live.id
                                  /\ [live EXCEPT !.hist = h].hist = h
<1>1. live.hist \in Seq(Turns) /\ live \in Session
  BY DEF RecordTypeOK, Session
<1>2. MaxHistory \in Nat \ {0}
  BY SessionsAssumption
<1>3. \A t \in Turns : Append(live.hist, t) \in Seq(Turns)
  BY <1>1
<1>4. \A t \in Turns : Trim(Append(live.hist, t), MaxHistory) \in Seq(Turns)
  BY <1>2, <1>3, TrimDrops
<1>5. \A max \in Nat \ {0} : Trim(live.hist, max) \in Seq(Turns)
  BY <1>1, TrimDrops
<1>6. Compacted(live.hist) \in Seq(Turns)
  BY <1>1, TurnsThere, CompactedDrops
<1>7. \A h \in Seq(Turns) : /\ [live EXCEPT !.hist = h] \in Session
                             /\ [live EXCEPT !.hist = h].id = live.id
                             /\ [live EXCEPT !.hist = h].hist = h
  BY <1>1 DEF Session
<1> QED BY <1>4, <1>5, <1>6, <1>7

\* The steps of a turn leave the store's sessions and the command as they are.
LEMMA TurnKeepsTypes ==
  ASSUME RecordTypeOK, NEW p \in Prompts,
         SaveUser(p) \/ SaveReply(p) \/ AppendEvent(p) \/ AutoCompactStart(p) \/ AutoCompactEnd(p)
  PROVE  RecordTypeOK'
<1>u. process = "up" /\ UNCHANGED <<command, process, used>>
  BY DEF SaveUser, SaveReply, AppendEvent, AutoCompactStart, AutoCompactEnd, Up
<1>s. /\ command' \in Command /\ used' \subseteq Ids /\ process' = "up" /\ live.id \in used'
      /\ live \in Session /\ store \in [Stored -> Seq(Turns)] /\ Stored \subseteq used'
      /\ turn \in [Prompts -> Progress] /\ (command'.op = "install" => command'.data.id \in used')
      /\ (command'.op \in {"fork", "copy"} => command'.to \in Stored)
  BY <1>u DEF RecordTypeOK
<1>1. CASE SaveUser(p)
  <2>1. live' = [live EXCEPT !.hist = Trim(Append(live.hist, Said(p, "user")), MaxHistory)] /\ store' = store
    BY <1>1 DEF SaveUser
  <2>2. turn' \in [Prompts -> Progress]
    BY <1>1, TurnTypes DEF SaveUser
  <2>3. live' \in Session /\ live'.id = live.id
    BY <2>1, TurnsThere, HistoryTypes
  <2> QED BY <1>s, <2>1, <2>2, <2>3 DEF RecordTypeOK, Stored
<1>2. CASE SaveReply(p)
  <2>1. live' = [live EXCEPT !.hist = Trim(Append(live.hist, Said(p, "lucy")), MaxHistory)] /\ store' = store
    BY <1>2 DEF SaveReply
  <2>2. turn' \in [Prompts -> Progress]
    BY <1>2, TurnTypes DEF SaveReply
  <2>3. live' \in Session /\ live'.id = live.id
    BY <2>1, TurnsThere, HistoryTypes
  <2> QED BY <1>s, <2>1, <2>2, <2>3 DEF RecordTypeOK, Stored
<1>3. CASE AppendEvent(p)
  <2>1. live' = live
    BY <1>3 DEF AppendEvent
  <2>2. turn' \in [Prompts -> Progress]
    BY <1>3, TurnTypes DEF AppendEvent
  <2>3. store' = store \/ (turn[p].owner \in Stored /\ store' = Logged(turn[p].owner, Pending(p)))
    BY <1>3 DEF AppendEvent
  <2>4. store' \in [Stored -> Seq(Turns)] /\ Stored' = Stored
    <3>1. CASE store' = store
      BY <3>1, <1>s DEF Stored
    <3>2. CASE turn[p].owner \in Stored /\ store' = Logged(turn[p].owner, Pending(p))
      <4>1. turn[p].owner \in Ids
        BY <1>s, <3>2
      <4> QED BY <3>2, <4>1, StoreTypes, TurnTypes DEF Stored
    <3> QED BY <2>3, <3>1, <3>2
  <2> QED BY <1>s, <2>1, <2>2, <2>4 DEF RecordTypeOK
<1>4. CASE AutoCompactStart(p)
  <2>1. live' = live /\ store' = store
    BY <1>4 DEF AutoCompactStart
  <2>2. turn' \in [Prompts -> Progress]
    BY <1>4, TurnTypes DEF AutoCompactStart
  <2> QED BY <1>s, <2>1, <2>2 DEF RecordTypeOK, Stored
<1>5. CASE AutoCompactEnd(p)
  <2>1. PICK h \in {Compacted(live.hist), Trim(live.hist, MaxHistory)} : live' = [live EXCEPT !.hist = h]
    BY <1>5 DEF AutoCompactEnd
  <2>2. turn' \in [Prompts -> Progress] /\ store' = store
    BY <1>5, TurnTypes DEF AutoCompactEnd
  <2>3. h \in Seq(Turns)
    BY HistoryTypes, SessionsAssumption
  <2>4. live' \in Session /\ live'.id = live.id
    BY <2>1, <2>3, HistoryTypes
  <2> QED BY <1>s, <2>2, <2>4 DEF RecordTypeOK, Stored
<1> QED BY <1>1, <1>2, <1>3, <1>4, <1>5

\* What a session command may have in hand.
LEMMA CommandTypes ==
  /\ NoCommand \in Command /\ [op |-> "pick"] \in Command
  /\ \A d \in Session : [op |-> "install", data |-> d] \in Command
  /\ \A id \in Ids : [op |-> "clear", id |-> id] \in Command
  /\ \A from, to \in Ids : [op |-> "fork", from |-> from, to |-> to] \in Command
  /\ \A to \in Ids, rest \in Seq(Turns) : [op |-> "copy", to |-> to, rest |-> rest] \in Command
BY DEF Command

\* A command is what its name says.
LEMMA CommandFields ==
  ASSUME RecordTypeOK
  PROVE  /\ command.op = "install" => command.data \in Session
         /\ command.op = "clear" => command.id \in Ids
         /\ command.op = "fork" => command.from \in Ids /\ command.to \in Ids
         /\ command.op = "copy" => /\ command.to \in Ids /\ command.rest \in Seq(Turns)
                                  /\ command = [op |-> "copy", to |-> command.to, rest |-> command.rest]
<1>1. command \in Command
  BY DEF RecordTypeOK
<1> QED BY <1>1 DEF Command, NoCommand

\* A command's step, by what it does to the store, the command and the live session.
LEMMA CommandKeepsTypes ==
  ASSUME RecordTypeOK, turn' = turn, process' = process, process = "up",
         \/ used' = used /\ store' = store
         \/ \E id \in Ids : used' = used \cup {id} /\ store' = Written(id, << >>)
         \/ \E id \in Ids : used' = used /\ store' = Without(id)
         \/ \E id \in Ids, t \in Turns : used' = used /\ store' = Logged(id, t),
         command' \in Command, live' \in Session, live'.id \in used',
         command'.op = "install" => command'.data.id \in used',
         command'.op \in {"fork", "copy"} => command'.to \in DOMAIN store'
  PROVE  RecordTypeOK'
<1>1. used \subseteq Ids /\ Stored \subseteq used /\ store \in [Stored -> Seq(Turns)] /\ turn \in [Prompts -> Progress]
  BY DEF RecordTypeOK
<1>2. used' \subseteq Ids /\ Stored' \subseteq used' /\ store' \in [Stored' -> Seq(Turns)]
  <2>1. ASSUME NEW id \in Ids, used' = used \cup {id}, store' = Written(id, << >>)
        PROVE  used' \subseteq Ids /\ Stored' \subseteq used' /\ store' \in [Stored' -> Seq(Turns)]
    <3>1. Stored' = Stored \cup {id}
      BY <2>1, StoreTypes DEF Stored
    <3> QED BY <1>1, <2>1, <3>1, StoreTypes
  <2>2. ASSUME used' = used, NEW id \in Ids, store' = Without(id)
        PROVE  used' \subseteq Ids /\ Stored' \subseteq used' /\ store' \in [Stored' -> Seq(Turns)]
    <3>1. Stored' = Stored \ {id}
      BY <2>2, StoreTypes DEF Stored
    <3> QED BY <1>1, <2>2, <3>1, StoreTypes
  <2>3. ASSUME used' = used, NEW id \in Ids, NEW t \in Turns, store' = Logged(id, t)
        PROVE  used' \subseteq Ids /\ Stored' \subseteq used' /\ store' \in [Stored' -> Seq(Turns)]
    <3>1. Stored' = Stored
      BY <2>3, StoreTypes DEF Stored
    <3> QED BY <1>1, <2>3, <3>1, StoreTypes
  <2>4. ASSUME used' = used, store' = store
        PROVE  used' \subseteq Ids /\ Stored' \subseteq used' /\ store' \in [Stored' -> Seq(Turns)]
    BY <1>1, <2>4 DEF Stored
  <2> QED BY <2>1, <2>2, <2>3, <2>4
<1> QED BY <1>1, <1>2 DEF RecordTypeOK, Stored

\* So every command keeps the types.
LEMMA CommandsKeepTypes ==
  ASSUME RecordTypeOK,
         \/ \E id \in Ids : SwitchSession(id) \/ DeleteSession(id)
         \/ NewSession \/ Install \/ PickNext \/ ClearDelete \/ ClearCreate
         \/ ForkCreate \/ ForkRead \/ ForkEnds \/ Compact
  PROVE  RecordTypeOK'
<1> DEFINE Suits == /\ command' \in Command
                    /\ command'.op = "install" => command'.data.id \in used'
                    /\ command'.op \in {"fork", "copy"} => command'.to \in DOMAIN store'
<1>f. \A id \in Fresh : id \in Ids
  BY DEF Fresh
<1>u. /\ Stored \subseteq used /\ used \subseteq Ids /\ live \in Session /\ (process = "up" => live.id \in used)
      /\ Stored = DOMAIN store /\ NoCommand.op = "none"
  BY DEF RecordTypeOK, Stored, NoCommand
<1>h. ASSUME NEW d \in Session, d.id \in used', command' = [op |-> "install", data |-> d] PROVE Suits
  BY <1>h, CommandTypes
<1>n. ASSUME command' = NoCommand PROVE Suits
  BY <1>n, CommandTypes DEF NoCommand
<1>1. ASSUME NEW id \in Ids, SwitchSession(id) PROVE RecordTypeOK'
  <2>1. process = "up" /\ UNCHANGED <<store, live, turn, process, used>> /\ command' = [op |-> "install", data |-> Loaded(id)] /\ id \in Stored
    BY <1>1 DEF SwitchSession, Ready, Hold
  <2>2. Loaded(id) \in Session /\ Loaded(id).id \in used'
    BY <1>u, <2>1, StoreTypes DEF Loaded
  <2>3. Suits
    BY <1>h, <2>1, <2>2
  <2> QED BY <1>u, <2>1, <2>3, CommandKeepsTypes
<1>2. ASSUME NEW id \in Ids, DeleteSession(id) PROVE RecordTypeOK'
  <2>1. process = "up" /\ UNCHANGED <<live, turn, process, used>> /\ store' = Without(id)
    BY <1>2 DEF DeleteSession, Ready
  <2>2. Suits
    <3>1. CASE command' = NoCommand
      BY <1>n, <3>1
    <3>2. CASE command' = [op |-> "pick"]
      BY <3>2, CommandTypes
    <3> QED BY <1>2, <3>1, <3>2 DEF DeleteSession
  <2> QED BY <1>u, <2>1, <2>2, CommandKeepsTypes
<1>3. CASE NewSession
  <2>1. PICK id \in Fresh : Create(id) /\ Hold([NoData EXCEPT !.id = id])
    BY <1>3 DEF NewSession
  <2>2. process = "up" /\ UNCHANGED <<live, turn, process>> /\ used' = used \cup {id} /\ store' = Written(id, << >>)
    BY <1>3, <2>1 DEF NewSession, Ready, Create
  <2>3. [NoData EXCEPT !.id = id] \in Session /\ [NoData EXCEPT !.id = id].id \in used'
    <3>1. id \in Ids
      BY <1>f
    <3> QED BY <2>2, <3>1, EmptySession
  <2>4. Suits
    BY <1>h, <2>1, <2>3 DEF Hold
  <2> QED BY <1>f, <1>u, <2>2, <2>4, CommandKeepsTypes
<1>4. CASE Install
  <2>1. process = "up" /\ UNCHANGED <<store, turn, process, used>> /\ live' = command.data /\ command' = NoCommand /\ command.op = "install"
    BY <1>4 DEF Install
  <2>2. live' \in Session /\ Suits
    BY <1>n, <2>1, CommandFields
  <2>3. live'.id \in used
    BY <2>1 DEF RecordTypeOK
  <2> QED BY <1>u, <2>1, <2>2, <2>3, CommandKeepsTypes
<1>5. CASE PickNext
  <2>0. process = "up" /\ UNCHANGED <<live, turn, process>>
    BY <1>5 DEF PickNext
  <2>1. CASE \E id \in Stored : Hold(Loaded(id)) /\ UNCHANGED <<store, used>>
    <3>1. PICK id \in Stored : Hold(Loaded(id)) /\ UNCHANGED <<store, used>>
      BY <2>1
    <3>2. Loaded(id) \in Session /\ Loaded(id).id \in used'
      BY <1>u, <3>1, StoreTypes DEF Loaded
    <3>3. Suits
      BY <1>h, <3>1, <3>2 DEF Hold
    <3> QED BY <1>u, <2>0, <3>1, <3>3, CommandKeepsTypes
  <2>2. CASE \E id \in Fresh : Create(id) /\ Hold([NoData EXCEPT !.id = id])
    <3>1. PICK id \in Fresh : Create(id) /\ Hold([NoData EXCEPT !.id = id])
      BY <2>2
    <3>2. used' = used \cup {id} /\ store' = Written(id, << >>)
      BY <3>1 DEF Create
    <3>3. [NoData EXCEPT !.id = id] \in Session /\ [NoData EXCEPT !.id = id].id \in used'
      <4>1. id \in Ids
        BY <1>f
      <4> QED BY <3>2, <4>1, EmptySession
    <3>4. Suits
      BY <1>h, <3>1, <3>3 DEF Hold
    <3> QED BY <1>f, <1>u, <2>0, <3>2, <3>4, CommandKeepsTypes
  <2> QED BY <1>5, <2>1, <2>2 DEF PickNext
<1>6. CASE ClearDelete
  <2>1. process = "up" /\ UNCHANGED <<live, turn, process, used>> /\ store' = Without(live.id) /\ live.id \in Ids
        /\ command' = [op |-> "clear", id |-> live.id]
    BY <1>6, <1>u DEF ClearDelete, Ready
  <2>2. Suits
    BY <2>1, CommandTypes
  <2> QED BY <1>u, <2>1, <2>2, CommandKeepsTypes
<1>7. CASE ClearCreate
  <2>0. process = "up" /\ UNCHANGED <<live, turn, process>> /\ command.id \in Ids
    BY <1>7, CommandFields DEF ClearCreate
  <2>1. CASE Create(command.id) /\ Hold([NoData EXCEPT !.id = command.id])
    <3>1. used' = used \cup {command.id} /\ store' = Written(command.id, << >>)
      BY <2>1 DEF Create
    <3>2. [NoData EXCEPT !.id = command.id] \in Session /\ [NoData EXCEPT !.id = command.id].id \in used'
      <4>1. PICK id \in Ids : id = command.id
        BY <2>0
      <4>2. [NoData EXCEPT !.id = id] \in Session /\ [NoData EXCEPT !.id = id].id = id /\ id \in used'
        BY <3>1, <4>1, EmptySession
      <4> QED BY <4>1, <4>2
    <3>3. Suits
      BY <1>h, <2>1, <3>2 DEF Hold
    <3> QED BY <1>u, <2>0, <3>1, <3>3, CommandKeepsTypes
  <2>2. CASE command' = NoCommand /\ UNCHANGED <<store, used>>
    BY <1>n, <1>u, <2>0, <2>2, CommandKeepsTypes
  <2> QED BY <1>7, <2>1, <2>2 DEF ClearCreate
<1>8. CASE ForkCreate
  <2>1. PICK id \in Fresh : Create(id) /\ command' = [op |-> "fork", from |-> live.id, to |-> id]
    BY <1>8 DEF ForkCreate
  <2>2. process = "up" /\ UNCHANGED <<live, turn, process>> /\ used' = used \cup {id} /\ store' = Written(id, << >>)
    BY <1>8, <2>1 DEF ForkCreate, Ready, Create
  <2>3. Suits
    <3>1. DOMAIN store' = Stored \cup {id}
      BY <1>f, <2>2, StoreTypes
    <3> QED BY <1>f, <1>u, <2>1, <2>2, <3>1, CommandTypes
  <2> QED BY <1>f, <1>u, <2>2, <2>3, CommandKeepsTypes
<1>9. CASE ForkRead
  <2>1. process = "up" /\ UNCHANGED <<store, live, turn, process, used>> /\ command.op = "fork"
    BY <1>9 DEF ForkRead
  <2>2. command.from \in Stored => store[command.from] \in Seq(Turns)
    BY DEF RecordTypeOK
  <2>3. Suits
    <3>1. CASE command' = NoCommand
      BY <1>n, <3>1
    <3>2. CASE command.from \in Stored /\ command' = [op |-> "copy", to |-> command.to, rest |-> store[command.from]]
      <4>1. command.to \in Ids /\ command.to \in Stored
        BY <2>1, CommandFields DEF RecordTypeOK
      <4> QED BY <1>u, <2>1, <2>2, <3>2, <4>1, CommandTypes
    <3> QED BY <1>9, <3>1, <3>2 DEF ForkRead
  <2> QED BY <1>u, <2>1, <2>3, CommandKeepsTypes
<1>10. CASE ForkEnds
  <2>1. process = "up" /\ UNCHANGED <<store, live, turn, process, used>> /\ command' = [op |-> "install", data |-> Loaded(command.to)]
    BY <1>10 DEF ForkEnds, Hold
  <2>2. Suits
    <3>1. command.to \in Stored
      BY <1>10 DEF ForkEnds, RecordTypeOK
    <3>2. Loaded(command.to) \in Session /\ Loaded(command.to).id \in used'
      BY <1>u, <2>1, <3>1, StoreTypes DEF Loaded
    <3> QED BY <1>h, <2>1, <3>2
  <2> QED BY <1>u, <2>1, <2>2, CommandKeepsTypes
<1>11. CASE Compact
  <2>1. PICK max \in {Keep + 1, MaxHistory} : live' = [live EXCEPT !.hist = Trim(@, max)]
    BY <1>11 DEF Compact
  <2>2. process = "up" /\ UNCHANGED <<store, turn, command, process, used>>
    BY <1>11 DEF Compact, Ready
  <2>3. max \in Nat \ {0}
    BY SessionsAssumption
  <2>4. live' \in Session /\ live'.id = live.id
    BY <2>1, <2>3, HistoryTypes
  <2>5. Suits
    BY <1>11, <1>u, <2>2 DEF RecordTypeOK, Compact, Ready
  <2> QED BY <1>u, <2>2, <2>4, <2>5, CommandKeepsTypes
<1> QED BY <1>1, <1>2, <1>3, <1>4, <1>5, <1>6, <1>7, <1>8, <1>9, <1>10, <1>11

\* The rest: the copying of events, and a crash and a start.
LEMMA RecordTypesStep == RecordTypeOK /\ [SessionsNext]_sessionsVars => RecordTypeOK'
<1> SUFFICES ASSUME RecordTypeOK, [SessionsNext]_sessionsVars PROVE RecordTypeOK'
  OBVIOUS
<1>u. /\ used \subseteq Ids /\ Stored \subseteq used /\ store \in [Stored -> Seq(Turns)] /\ live \in Session
      /\ turn \in [Prompts -> Progress] /\ Stored = DOMAIN store
      /\ command' = NoCommand => command' \in Command /\ command'.op = "none"
  BY CommandTypes DEF RecordTypeOK, Stored, NoCommand
<1>1. CASE UNCHANGED sessionsVars
  BY <1>1 DEF sessionsVars, RecordTypeOK, Stored
<1>2. ASSUME NEW p \in Prompts,
             SaveUser(p) \/ SaveReply(p) \/ AppendEvent(p) \/ AutoCompactStart(p) \/ AutoCompactEnd(p)
      PROVE  RecordTypeOK'
  BY <1>2, TurnKeepsTypes
<1>3. CASE \/ \E id \in Ids : SwitchSession(id) \/ DeleteSession(id)
           \/ NewSession \/ Install \/ PickNext \/ ClearDelete \/ ClearCreate
           \/ ForkCreate \/ ForkRead \/ ForkEnds \/ Compact
  BY <1>3, CommandsKeepTypes
<1>4. CASE CopyEvent
  <2>1. /\ command.op = "copy" /\ command.to \in Ids /\ command.to \in Stored /\ command.rest \in Seq(Turns)
        /\ command = [op |-> "copy", to |-> command.to, rest |-> command.rest]
    BY <1>4, CommandFields DEF CopyEvent, RecordTypeOK
  <2>2. UNCHANGED <<live, turn, process, used>> /\ command.rest # << >>
    BY <1>4 DEF CopyEvent
  <2>3. /\ store' \in [Stored -> Seq(Turns)] /\ DOMAIN store' = Stored /\ command' \in Command
        /\ command'.op \in {"none", "copy"} /\ (command'.op = "copy" => command'.to = command.to)
    <3>1. CASE command' = NoCommand /\ UNCHANGED store
      BY <1>u, <3>1
    <3>2. CASE store' = Logged(command.to, Head(command.rest)) /\ command' = [command EXCEPT !.rest = Tail(@)]
      <4>1. Head(command.rest) \in Turns /\ Tail(command.rest) \in Seq(Turns)
        BY <2>1, <2>2
      <4>2. command' = [op |-> "copy", to |-> command.to, rest |-> Tail(command.rest)]
        BY <2>1, <3>2
      <4>3. command' \in Command /\ command'.op = "copy" /\ command'.to = command.to
        BY <2>1, <4>1, <4>2, CommandTypes
      <4> QED BY <2>1, <3>2, <4>1, <4>3, StoreTypes
    <3> QED BY <1>4, <3>1, <3>2 DEF CopyEvent
  <2> QED BY <1>u, <2>1, <2>2, <2>3 DEF RecordTypeOK, Stored
<1>5. CASE Crash
  <2>1. process' = "down" /\ live' = NoData /\ command' = NoCommand /\ UNCHANGED <<store, used>>
    BY <1>5 DEF Crash
  <2>2. turn' \in [Prompts -> Progress]
    BY <1>5, <1>u DEF Crash, Progress
  <2> QED BY <1>u, <2>1, <2>2, TurnsThere DEF RecordTypeOK, Stored
<1>6. CASE Start
  <2>1. process = "down" /\ process' = "starting" /\ UNCHANGED <<live, turn>> /\ live = NoData
    BY <1>6 DEF Start, RecordTypeOK
  <2>2. CASE UNCHANGED <<store, command, used>>
    BY <2>1, <2>2 DEF RecordTypeOK, Stored
  <2>3. CASE /\ Create(LegacyId) /\ command' = [op |-> "copy", to |-> LegacyId, rest |-> LegacyTurns]
    <3>1. LegacyId \in Ids
      BY SessionsAssumption
    <3>2. used' = used \cup {LegacyId} /\ store' = Written(LegacyId, << >>)
      BY <2>3 DEF Create
    <3>3. command' \in Command
      BY <2>3, <3>1, CommandTypes, TurnsThere
    <3>4. store' \in [Stored \cup {LegacyId} -> Seq(Turns)] /\ DOMAIN store' = Stored \cup {LegacyId}
      BY <3>1, <3>2, StoreTypes
    <3> QED BY <1>u, <2>1, <2>3, <3>1, <3>2, <3>3, <3>4 DEF RecordTypeOK, Stored
  <2> QED BY <1>6, <2>2, <2>3 DEF Start
<1>7. CASE EnsureCurrent
  <2>1. process' = "up" /\ command' = NoCommand /\ turn' = turn
    BY <1>7 DEF EnsureCurrent
  <2>2. ASSUME NEW id \in Stored, live' = Loaded(id), UNCHANGED <<store, used>> PROVE RecordTypeOK'
    <3>1. live' \in Session /\ live'.id \in used'
      BY <1>u, <2>2, StoreTypes DEF Loaded
    <3> QED BY <1>u, <2>1, <2>2, <3>1 DEF RecordTypeOK, Stored
  <2>3. ASSUME NEW id \in Fresh, Create(id), live' = [NoData EXCEPT !.id = id] PROVE RecordTypeOK'
    <3>1. id \in Ids
      BY DEF Fresh
    <3>2. used' = used \cup {id} /\ store' = Written(id, << >>)
      BY <2>3 DEF Create
    <3>3. live' \in Session /\ live'.id \in used'
      <4>1. [NoData EXCEPT !.id = id] \in Session /\ [NoData EXCEPT !.id = id].id = id
        BY <3>1, StoreTypes
      <4> QED BY <2>3, <3>2, <4>1
    <3>4. store' \in [Stored \cup {id} -> Seq(Turns)] /\ DOMAIN store' = Stored \cup {id}
      BY <3>1, <3>2, StoreTypes
    <3> QED BY <1>u, <2>1, <3>1, <3>2, <3>3, <3>4 DEF RecordTypeOK, Stored
  <2> QED BY <1>7, <2>2, <2>3 DEF EnsureCurrent
<1> QED BY <1>1, <1>2, <1>3, <1>4, <1>5, <1>6, <1>7 DEF SessionsNext

----------------------------------------------------------------------------
(* What is on record *)

\* What is on record stays there while the log grows.
LEMMA OnRecordKept ==
  ASSUME NEW d, OnRecord(d), d.id \in Stored' => d.id \in Stored,
         \A t : d.id \in Stored' /\ Contains(store[d.id], t) => Contains(store'[d.id], t),
         refused \subseteq refused', \A q \in Prompts : Saving(q) => turn'[q] = turn[q]
  PROVE  OnRecord(d)'
<1> SUFFICES ASSUME d.id \in Stored', NEW i \in DOMAIN d.hist, d.hist[i].by # "summary"
             PROVE  InLog(d.id, d.hist[i])'
  BY DEF OnRecord
<1>1. InLog(d.id, d.hist[i])
  BY DEF OnRecord
<1>2. CASE Contains(store[d.id], d.hist[i])
  BY <1>2 DEF InLog
<1>3. CASE <<d.id, d.hist[i]>> \in refused
  BY <1>3 DEF InLog
<1>4. CASE \E q \in Prompts : Saving(q) /\ turn[q].owner = d.id /\ Pending(q) = d.hist[i]
  <2>1. PICK q \in Prompts : Saving(q) /\ turn[q].owner = d.id /\ Pending(q) = d.hist[i]
    BY <1>4
  <2>2. turn'[q] = turn[q]
    BY <2>1
  <2> QED BY <2>1, <2>2 DEF InLog, Saving, Pending
<1> QED BY <1>1, <1>2, <1>3, <1>4 DEF InLog

\* A session as it is loaded, and an empty one, are on record.
LEMMA LoadedOnRecord ==
  ASSUME RecordTypeOK, NEW id \in Stored
  PROVE  OnRecord(Loaded(id))
<1>1. store[id] \in Seq(Turns)
  BY DEF RecordTypeOK
<1>2. \A i \in DOMAIN store[id] : Contains(store[id], store[id][i])
  BY <1>1 DEF Contains
<1> QED BY <1>2 DEF OnRecord, InLog, Loaded

\* An empty history is on record.
LEMMA EmptyOnRecord == ASSUME NEW id PROVE OnRecord([id |-> id, hist |-> << >>])
BY DEF OnRecord

\* The log of an id outlasts what is written under another id, and an append.
LEMMA AppendOutlasts ==
  ASSUME RecordTypeOK, NEW id \in Ids, NEW t \in Turns, NEW j \in Stored, NEW x, Contains(store[j], x)
  PROVE  Contains(Logged(id, t)[j], x)
<1>1. store \in [Stored -> Seq(Turns)]
  BY DEF RecordTypeOK
<1>2. \A s \in Seq(Turns) : Contains(s, x) => Contains(Append(s, t), x)
  BY DEF Contains
<1>3. Logged(id, t)[j] = store[j] \/ Logged(id, t)[j] = Append(store[j], t)
  BY <1>1 DEF Logged
<1>4. store[j] \in Seq(Turns)
  BY <1>1
<1> QED BY <1>2, <1>3, <1>4

\* What is written to one log leaves the others, and is found in its own.
LEMMA LogOutlasts ==
  ASSUME RecordTypeOK
  PROVE  /\ \A id \in Ids, j \in Stored : id # j => Written(id, << >>)[j] = store[j] /\ Without(id)[j] = store[j]
         /\ \A id \in Stored, t \in Turns : Contains(Logged(id, t)[id], t)
<1>1. \A id \in Ids, j \in Stored : id # j => Written(id, << >>)[j] = store[j] /\ Without(id)[j] = store[j]
  BY DEF Written, Without
<1>2. store \in [Stored -> Seq(Turns)]
  BY DEF RecordTypeOK
<1>4. \A s \in Seq(Turns), t \in Turns : Contains(Append(s, t), t)
  <2> SUFFICES ASSUME NEW s \in Seq(Turns), NEW t \in Turns PROVE Contains(Append(s, t), t)
    OBVIOUS
  <2>1. Append(s, t)[Len(s) + 1] = t /\ Len(s) + 1 \in 1..Len(Append(s, t))
    OBVIOUS
  <2> QED BY <2>1 DEF Contains
<1>6. ASSUME NEW id \in Stored, NEW t \in Turns PROVE Contains(Logged(id, t)[id], t)
  <2>1. Logged(id, t)[id] = Append(store[id], t) /\ store[id] \in Seq(Turns)
    BY <1>2 DEF Logged
  <2> QED BY <1>4, <2>1
<1> QED BY <1>1, <1>6

\* An append that comes through, or is refused, is what the turn was waiting for.
LEMMA AppendKeepsRecord ==
  ASSUME RecordTypeOK, NEW p \in Prompts, AppendEvent(p), NEW d, OnRecord(d)
  PROVE  OnRecord(d)'
<1>0. turn \in [Prompts -> Progress] /\ Saving(p)
  BY DEF RecordTypeOK, AppendEvent
<1>1. \A q \in Prompts \ {p} : turn'[q] = turn[q]
  BY <1>0 DEF AppendEvent
<1>2. \/ /\ turn[p].owner \in Stored /\ store' = Logged(turn[p].owner, Pending(p)) /\ refused' = refused
      \/ store' = store /\ refused' = refused \cup {<<turn[p].owner, Pending(p)>>}
  BY DEF AppendEvent
<1>3. Pending(p) \in Turns
  BY TurnTypes
<1>4. Stored \subseteq Ids
  BY DEF RecordTypeOK
<1>5. Stored' = Stored
  <2>1. CASE store' = store
    BY <2>1 DEF Stored
  <2>2. CASE turn[p].owner \in Stored /\ store' = Logged(turn[p].owner, Pending(p))
    BY <1>3, <1>4, <2>2, StoreTypes DEF Stored
  <2> QED BY <1>2, <2>1, <2>2
<1> SUFFICES ASSUME d.id \in Stored, NEW i \in DOMAIN d.hist, d.hist[i].by # "summary"
             PROVE  InLog(d.id, d.hist[i])'
  BY <1>5 DEF OnRecord
<1>6. InLog(d.id, d.hist[i])
  BY DEF OnRecord
<1>7. CASE Contains(store[d.id], d.hist[i])
  <2>1. Contains(store'[d.id], d.hist[i])
    <3>1. CASE store' = store
      BY <1>7, <3>1
    <3>2. CASE turn[p].owner \in Ids /\ store' = Logged(turn[p].owner, Pending(p))
      <4>1. Contains(Logged(turn[p].owner, Pending(p))[d.id], d.hist[i])
        BY <1>3, <1>7, <3>2, AppendOutlasts
      <4> QED BY <3>2, <4>1
    <3> QED BY <1>2, <1>4, <3>1, <3>2
  <2> QED BY <2>1 DEF InLog
<1>8. CASE <<d.id, d.hist[i]>> \in refused
  BY <1>2, <1>8 DEF InLog
<1>9. CASE \E q \in Prompts : Saving(q) /\ turn[q].owner = d.id /\ Pending(q) = d.hist[i]
  <2>1. PICK q \in Prompts : Saving(q) /\ turn[q].owner = d.id /\ Pending(q) = d.hist[i]
    BY <1>9
  <2>2. CASE q # p
    BY <1>1, <2>1, <2>2 DEF InLog, Saving, Pending
  <2>3. CASE q = p
    <3>1. Contains(store'[d.id], d.hist[i]) \/ <<d.id, d.hist[i]>> \in refused'
      BY <1>2, <1>3, <2>1, <2>3, LogOutlasts
    <3> QED BY <3>1 DEF InLog
  <2> QED BY <2>2, <2>3
<1> QED BY <1>6, <1>7, <1>8, <1>9 DEF InLog

\* A step that changes nothing but what the live session shows.
LEMMA HistoryKeepsRecord ==
  ASSUME RecordInv, UNCHANGED <<store, command, refused>>, live'.id = live.id,
         \A q \in Prompts : Saving(q) => turn'[q] = turn[q],
         \A i \in DOMAIN live'.hist :
           \/ live'.hist[i].by = "summary"
           \/ \E j \in DOMAIN live.hist : live'.hist[i] = live.hist[j]
           \/ InLog(live.id, live.hist[i])'
  PROVE  /\ command'.op = "install" => OnRecord(command.data)'
         /\ LiveIsLogged'
<1>s. Stored' = Stored
  BY DEF Stored
<1>1. \A d : OnRecord(d) => OnRecord(d)'
  <2> SUFFICES ASSUME NEW d, OnRecord(d) PROVE OnRecord(d)'
    OBVIOUS
  <2> QED BY <1>s, OnRecordKept
<1>2. command'.op = "install" => OnRecord(command.data)'
  <2> SUFFICES ASSUME command.op = "install" PROVE OnRecord(command.data)'
    OBVIOUS
  <2>1. PICK d : d = command.data
    OBVIOUS
  <2>2. OnRecord(d)
    BY <2>1 DEF RecordInv
  <2>3. OnRecord(d)' /\ d = command'.data
    BY <1>1, <2>1, <2>2
  <2> QED BY <2>3
<1>3. LiveIsLogged'
  <2> SUFFICES ASSUME ~Replacing(live.id)', live'.id \in Stored', NEW i \in DOMAIN live'.hist, live'.hist[i].by # "summary"
               PROVE  InLog(live.id, live.hist[i])'
    BY DEF LiveIsLogged, OnRecord
  <2>1. PICK d : d = live
    OBVIOUS
  <2>2. OnRecord(d)
    BY <2>1 DEF RecordInv, LiveIsLogged, Replacing
  <2>3. OnRecord(d)'
    BY <1>1, <2>2
  <2>4. CASE \E j \in DOMAIN live.hist : live'.hist[i] = live.hist[j]
    <3>1. PICK j \in DOMAIN d.hist : live'.hist[i] = d.hist[j]
      BY <2>1, <2>4
    <3>2. InLog(d.id, d.hist[j])'
      BY <2>1, <2>3, <3>1 DEF OnRecord
    <3> QED BY <2>1, <3>1, <3>2 DEF InLog
  <2>5. CASE InLog(live.id, live.hist[i])'
    BY <2>5
  <2> QED BY <2>4, <2>5
<1> QED BY <1>2, <1>3

\* A step of a command: the live session's log is replaced only with the session.
LEMMA CommandKeepsRecord ==
  ASSUME RecordInv, UNCHANGED <<live, turn, refused>>, command.op # "install",
         command'.op = "install" => OnRecord(command.data)',
         \/ Replacing(live.id)' \/ live.id \notin Stored'
         \/ live.id \in Stored /\ \A t : Contains(store[live.id], t) => Contains(store'[live.id], t)
  PROVE  LiveIsLogged'
<1>1. PICK d : d = live
  OBVIOUS
<1>2. OnRecord(d)
  BY <1>1 DEF RecordInv, LiveIsLogged, Replacing
<1>3. CASE Replacing(live.id)'
  BY <1>3 DEF LiveIsLogged
<1>4. CASE live.id \notin Stored'
  BY <1>4 DEF LiveIsLogged, OnRecord
<1>5. CASE live.id \in Stored /\ \A t : Contains(store[live.id], t) => Contains(store'[live.id], t)
  <2>1. OnRecord(d)'
    BY <1>1, <1>2, <1>5, OnRecordKept
  <2> QED BY <1>1, <2>1 DEF LiveIsLogged
<1> QED BY <1>3, <1>4, <1>5

\* A turn's step.
LEMMA TurnKeepsRecord ==
  ASSUME RecordInv, NEW p \in Prompts,
         SaveUser(p) \/ SaveReply(p) \/ AppendEvent(p) \/ AutoCompactStart(p) \/ AutoCompactEnd(p)
  PROVE  /\ command'.op = "install" => OnRecord(command.data)'
         /\ LiveIsLogged'
<1>t. RecordTypeOK /\ turn \in [Prompts -> Progress] /\ live.hist \in Seq(Turns)
  BY DEF RecordInv, RecordTypeOK, Session
<1>1. CASE AppendEvent(p)
  <2>1. UNCHANGED <<live, command>>
    BY <1>1 DEF AppendEvent
  <2>2. command.op = "install" => OnRecord(command.data)'
    <3>1. PICK d : d = command.data
      OBVIOUS
    <3>2. command.op = "install" => OnRecord(d)'
      BY <1>t, <1>1, <3>1, AppendKeepsRecord DEF RecordInv
    <3> QED BY <2>1, <3>1, <3>2
  <2>3. LiveIsLogged'
    <3>1. PICK d : d = live
      OBVIOUS
    <3>2. OnRecord(d) => OnRecord(d)'
      BY <1>t, <1>1, AppendKeepsRecord
    <3> QED BY <2>1, <3>1, <3>2 DEF RecordInv, LiveIsLogged, Replacing
  <2> QED BY <2>1, <2>2, <2>3
<1>2. ASSUME NEW who \in {"user", "lucy"}, NEW a \in {"asking", "answering"}, ~Saving(p),
             Said(p, who) = IF a = "asking" THEN Said(p, "user") ELSE Said(p, "lucy"),
             turn' = [turn EXCEPT ![p] = [at |-> a, owner |-> live.id]],
             live' = [live EXCEPT !.hist = Trim(Append(@, Said(p, who)), MaxHistory)],
             UNCHANGED <<store, command, refused>>
      PROVE  /\ command'.op = "install" => OnRecord(command.data)'
             /\ LiveIsLogged'
  <2>1. \A q \in Prompts : Saving(q) => turn'[q] = turn[q]
    BY <1>t, <1>2
  <2> DEFINE h == Append(live.hist, Said(p, who))
  <2>2. h \in Seq(Turns) /\ \A j \in DOMAIN h : h[j] = Said(p, who) \/ (j \in DOMAIN live.hist /\ h[j] = live.hist[j])
    BY <1>t, TurnsThere
  <2>3. live'.id = live.id /\ live'.hist = Trim(h, MaxHistory)
    <3>1. Trim(h, MaxHistory) \in Seq(Turns)
      BY <2>2, TrimDrops, SessionsAssumption
    <3> QED BY <1>t, <1>2, <3>1, HistoryTypes
  <2>4. InLog(live.id, Said(p, who))'
    BY <1>t, <1>2, <2>3 DEF InLog, Saving, Pending, Said
  <2> HIDE DEF h
  <2>5. \A i \in DOMAIN live'.hist : \E j \in DOMAIN h : live'.hist[i] = h[j]
    BY <2>2, <2>3, TrimDrops, SessionsAssumption
  <2>6. ASSUME NEW i \in DOMAIN live'.hist
        PROVE  (\E j \in DOMAIN live.hist : live'.hist[i] = live.hist[j]) \/ InLog(live.id, live.hist[i])'
    <3>1. PICK j \in DOMAIN h : live'.hist[i] = h[j]
      BY <2>5
    <3>2. CASE h[j] = Said(p, who)
      <4>1. live'.hist[i] = Said(p, who)
        BY <3>1, <3>2
      <4> QED BY <2>4, <4>1 DEF InLog, Said
    <3> QED BY <2>2, <3>1, <3>2
  <2> QED BY <1>2, <2>1, <2>3, <2>6, HistoryKeepsRecord
<1>3. CASE SaveUser(p)
  <2>1. ~Saving(p)
    BY <1>3 DEF SaveUser, Up, Saving
  <2> QED BY <1>2, <1>3, <2>1 DEF SaveUser
<1>4. CASE SaveReply(p)
  <2>1. ~Saving(p)
    BY <1>4 DEF SaveReply, Up, Saving
  <2> QED BY <1>2, <1>4, <2>1 DEF SaveReply
<1>5. CASE AutoCompactStart(p)
  <2>1. ~Saving(p) /\ UNCHANGED <<store, live, command, refused>>
    BY <1>5 DEF AutoCompactStart, Up, Saving
  <2>2. \A q \in Prompts : Saving(q) => turn'[q] = turn[q]
    BY <1>t, <1>5, <2>1 DEF AutoCompactStart
  <2> QED BY <2>1, <2>2, HistoryKeepsRecord
<1>6. CASE AutoCompactEnd(p)
  <2>1. ~Saving(p) /\ UNCHANGED <<store, command, refused>>
    BY <1>6 DEF AutoCompactEnd, Up, Saving
  <2>2. \A q \in Prompts : Saving(q) => turn'[q] = turn[q]
    BY <1>t, <1>6, <2>1 DEF AutoCompactEnd
  <2>3. PICK h \in {Compacted(live.hist), Trim(live.hist, MaxHistory)} : live' = [live EXCEPT !.hist = h]
    BY <1>6 DEF AutoCompactEnd
  <2>4. h \in Seq(Turns)
    BY <1>t, HistoryTypes, SessionsAssumption
  <2>5. live'.id = live.id /\ live'.hist = h
    BY <1>t, <2>3, <2>4, HistoryTypes
  <2>6. \A i \in DOMAIN h : h[i].by = "summary" \/ \E j \in DOMAIN live.hist : h[i] = live.hist[j]
    <3>1. CASE h = Compacted(live.hist)
      <4>1. \A i \in DOMAIN h : h[i] = Summary \/ \E j \in DOMAIN live.hist : h[i] = live.hist[j]
        BY <1>t, <3>1, TurnsThere, CompactedDrops
      <4>2. Summary.by = "summary"
        BY DEF Summary
      <4> QED BY <4>1, <4>2
    <3>2. CASE h = Trim(live.hist, MaxHistory)
      <4>1. live.hist \in Seq(Turns) /\ MaxHistory \in Nat \ {0}
        BY <1>t, TurnsThere, SessionsAssumption
      <4>2. \A i \in DOMAIN Trim(live.hist, MaxHistory) :
              \E j \in DOMAIN live.hist : Trim(live.hist, MaxHistory)[i] = live.hist[j]
        BY <4>1, TrimDrops
      <4> QED BY <3>2, <4>2
    <3> QED BY <3>1, <3>2
  <2> QED BY <2>1, <2>2, <2>5, <2>6, HistoryKeepsRecord
<1> QED BY <1>1, <1>3, <1>4, <1>5, <1>6

\* Session commands: an id drawn for a new log is not the live session's, and a
\* log that is begun again under its id is about to be installed.
LEMMA CommandsKeepRecord ==
  ASSUME RecordInv,
         \/ \E id \in Ids : SwitchSession(id) \/ DeleteSession(id)
         \/ NewSession \/ PickNext \/ ClearDelete \/ ClearCreate
         \/ ForkCreate \/ ForkRead \/ ForkEnds
  PROVE  /\ command'.op = "install" => OnRecord(command.data)'
         /\ LiveIsLogged'
<1>t. /\ RecordTypeOK /\ Stored \subseteq used /\ used \subseteq Ids /\ (process = "up" => live.id \in used)
      /\ NoCommand.op = "none"
  BY DEF RecordInv, RecordTypeOK, NoCommand
<1> DEFINE Outlasts == \/ live.id \notin Stored'
                       \/ live.id \in Stored /\ store'[live.id] = store[live.id]
<1>k. ASSUME UNCHANGED <<live, turn, refused>>, command.op # "install",
             command'.op = "install" => OnRecord(command.data)', Outlasts \/ Replacing(live.id)'
      PROVE  LiveIsLogged'
  BY <1>k, CommandKeepsRecord
<1>w. ASSUME NEW id \in Ids, store' = Written(id, << >>), id # live.id PROVE Outlasts
  <2>1. Stored' = Stored \cup {id}
    BY <1>t, <1>w, StoreTypes DEF Stored
  <2> QED BY <1>t, <1>w, <2>1, LogOutlasts
<1>d. ASSUME NEW id \in Ids, store' = Without(id) PROVE Outlasts
  <2>1. Stored' = Stored \ {id}
    BY <1>t, <1>d, StoreTypes DEF Stored
  <2> QED BY <1>t, <1>d, <2>1, LogOutlasts
<1>s. ASSUME store' = store PROVE Outlasts
  BY <1>s DEF Stored
<1>e. ASSUME NEW id \in Ids, Hold([NoData EXCEPT !.id = id]) PROVE OnRecord(command.data)' /\ command'.data.id = id
  <2>1. command'.data = [id |-> id, hist |-> << >>]
    BY <1>t, <1>e, StoreTypes DEF Hold
  <2> QED BY <2>1 DEF OnRecord
<1>l. ASSUME NEW id \in Stored, Hold(Loaded(id)), store' = store, refused' = refused, turn' = turn
      PROVE  OnRecord(command.data)'
  <2>1. OnRecord(Loaded(id)) /\ command'.data = Loaded(id)
    BY <1>t, <1>l, LoadedOnRecord DEF Hold
  <2>2. PICK d : d = Loaded(id)
    OBVIOUS
  <2>3. OnRecord(d)'
    BY <1>l, <2>1, <2>2, OnRecordKept DEF Stored
  <2> QED BY <2>1, <2>2, <2>3
<1>1. ASSUME NEW id \in Ids, SwitchSession(id)
      PROVE  (command'.op = "install" => OnRecord(command.data)') /\ LiveIsLogged'
  <2>1. UNCHANGED <<store, live, turn, refused>> /\ command = NoCommand /\ id \in Stored /\ Hold(Loaded(id))
    BY <1>1 DEF SwitchSession, Ready
  <2> QED BY <1>t, <1>k, <1>l, <1>s, <2>1
<1>2. ASSUME NEW id \in Ids, DeleteSession(id)
      PROVE  (command'.op = "install" => OnRecord(command.data)') /\ LiveIsLogged'
  <2>1. UNCHANGED <<live, turn, refused>> /\ command = NoCommand /\ store' = Without(id) /\ command'.op \in {"pick", "none"}
    BY <1>2, <1>t DEF DeleteSession, Ready
  <2> QED BY <1>t, <1>k, <1>d, <2>1
<1>3. CASE NewSession
  <2>1. PICK id \in Fresh : Create(id) /\ Hold([NoData EXCEPT !.id = id])
    BY <1>3 DEF NewSession
  <2>2. id \in Ids /\ id \notin used
    BY DEF Fresh
  <2>3. UNCHANGED <<live, turn, refused>> /\ command = NoCommand /\ process = "up" /\ store' = Written(id, << >>)
    BY <1>3, <2>1 DEF NewSession, Ready, Create
  <2>4. Outlasts /\ OnRecord(command.data)'
    BY <1>t, <1>w, <1>e, <2>1, <2>2, <2>3
  <2> QED BY <1>t, <1>k, <2>3, <2>4
<1>4. CASE PickNext
  <2>1. UNCHANGED <<live, turn, refused>> /\ command.op = "pick" /\ process = "up"
    BY <1>4 DEF PickNext
  <2>2. ASSUME NEW id \in Stored, Hold(Loaded(id)), UNCHANGED <<store, used>>
        PROVE  (command'.op = "install" => OnRecord(command.data)') /\ LiveIsLogged'
    BY <1>k, <1>l, <1>s, <2>1, <2>2
  <2>3. ASSUME NEW id \in Fresh, Create(id), Hold([NoData EXCEPT !.id = id])
        PROVE  (command'.op = "install" => OnRecord(command.data)') /\ LiveIsLogged'
    <3>1. id \in Ids /\ id \notin used /\ store' = Written(id, << >>)
      BY <2>3 DEF Fresh, Create
    <3>2. Outlasts /\ OnRecord(command.data)'
      BY <1>t, <1>w, <1>e, <2>1, <2>3, <3>1
    <3> QED BY <1>k, <2>1, <3>2
  <2> QED BY <1>4, <2>2, <2>3 DEF PickNext
<1>5. CASE ClearDelete
  <2>1. UNCHANGED <<live, turn, refused>> /\ command = NoCommand /\ store' = Without(live.id)
        /\ live.id \in Ids /\ command'.op = "clear"
    BY <1>5, <1>t DEF ClearDelete, Ready
  <2>2. live.id \notin Stored'
    BY <1>t, <2>1, StoreTypes DEF Stored
  <2> QED BY <1>t, <1>k, <2>1, <2>2
<1>6. CASE ClearCreate
  <2>1. UNCHANGED <<live, turn, refused>> /\ command.op = "clear" /\ command.id \in Ids
    BY <1>6, <1>t, CommandFields DEF ClearCreate
  <2>2. CASE command' = NoCommand /\ store' = store
    BY <1>t, <1>k, <1>s, <2>1, <2>2
  <2>3. CASE Create(command.id) /\ Hold([NoData EXCEPT !.id = command.id])
    <3>1. PICK id \in Ids : id = command.id
      BY <2>1
    <3>2. store' = Written(id, << >>) /\ OnRecord(command.data)' /\ command'.data.id = id /\ command'.op = "install"
      BY <1>e, <2>3, <3>1 DEF Create, Hold
    <3>3. CASE id = live.id
      <4>1. Replacing(live.id)'
        BY <2>1, <3>2, <3>3 DEF Replacing
      <4> QED BY <1>k, <2>1, <3>2, <4>1
    <3>4. CASE id # live.id
      BY <1>k, <1>w, <2>1, <3>2, <3>4
    <3> QED BY <3>3, <3>4
  <2> QED BY <1>6, <2>2, <2>3 DEF ClearCreate
<1>7. CASE ForkCreate
  <2>1. PICK id \in Fresh : Create(id) /\ command' = [op |-> "fork", from |-> live.id, to |-> id]
    BY <1>7 DEF ForkCreate
  <2>2. id \in Ids /\ id \notin used
    BY DEF Fresh
  <2>3. UNCHANGED <<live, turn, refused>> /\ command = NoCommand /\ process = "up" /\ store' = Written(id, << >>)
    BY <1>7, <2>1 DEF ForkCreate, Ready, Create
  <2> QED BY <1>t, <1>k, <1>w, <2>1, <2>2, <2>3
<1>8. CASE ForkRead
  <2>1. UNCHANGED <<store, live, turn, refused>> /\ command.op = "fork" /\ command'.op \in {"none", "copy"}
    BY <1>8, <1>t DEF ForkRead
  <2> QED BY <1>k, <1>s, <2>1
<1>9. CASE ForkEnds
  <2>1. UNCHANGED <<store, live, turn, refused>> /\ command.op = "copy" /\ Hold(Loaded(command.to))
    BY <1>9 DEF ForkEnds
  <2>2. PICK id : id = command.to
    OBVIOUS
  <2>3. id \in Stored
    BY <1>t, <2>1, <2>2 DEF RecordTypeOK
  <2>4. OnRecord(command.data)'
    BY <1>l, <2>1, <2>2, <2>3
  <2> QED BY <1>k, <1>s, <2>1, <2>4
<1> QED BY <1>1, <1>2, <1>3, <1>4, <1>5, <1>6, <1>7, <1>8, <1>9

\* Nothing was said yet.
LEMMA RecordInit == SessionsInit => RecordInv
<1> SUFFICES ASSUME SessionsInit PROVE RecordInv
  OBVIOUS
<1>1. command.op = "none" /\ Stored = {}
  BY DEF SessionsInit, NoCommand, Stored
<1> QED BY <1>1, RecordTypesInit DEF RecordInv, LiveIsLogged, OnRecord

\* Every step keeps RecordInv.
LEMMA RecordStep == RecordInv /\ [SessionsNext]_sessionsVars => RecordInv'
<1> SUFFICES ASSUME RecordInv, [SessionsNext]_sessionsVars PROVE RecordInv'
  OBVIOUS
<1>t. RecordTypeOK /\ RecordTypeOK' /\ NoCommand.op = "none" /\ live.hist \in Seq(Turns)
  BY RecordTypesStep DEF RecordInv, NoCommand, RecordTypeOK, Session
<1> SUFFICES (command'.op = "install" => OnRecord(command.data)') /\ LiveIsLogged'
  BY <1>t DEF RecordInv
<1>1. CASE UNCHANGED sessionsVars
  <2>1. \A q \in Prompts : Saving(q) => turn'[q] = turn[q]
    BY <1>1 DEF sessionsVars
  <2> QED BY <1>1, <2>1, HistoryKeepsRecord DEF sessionsVars
<1>2. ASSUME NEW p \in Prompts,
             SaveUser(p) \/ SaveReply(p) \/ AppendEvent(p) \/ AutoCompactStart(p) \/ AutoCompactEnd(p)
      PROVE  (command'.op = "install" => OnRecord(command.data)') /\ LiveIsLogged'
  BY <1>2, TurnKeepsRecord
<1>3. CASE \/ \E id \in Ids : SwitchSession(id) \/ DeleteSession(id)
           \/ NewSession \/ PickNext \/ ClearDelete \/ ClearCreate \/ ForkCreate \/ ForkRead \/ ForkEnds
  BY <1>3, CommandsKeepRecord
<1>4. CASE Install
  <2>1. command.op = "install" /\ live' = command.data /\ command' = NoCommand /\ UNCHANGED <<store, turn, refused>>
    BY <1>4 DEF Install
  <2>2. PICK d : d = command.data
    OBVIOUS
  <2>3. OnRecord(d)'
    BY <2>1, <2>2, OnRecordKept DEF RecordInv, Stored
  <2> QED BY <1>t, <2>1, <2>2, <2>3 DEF LiveIsLogged
<1>5. CASE Compact
  <2>1. PICK max \in {Keep + 1, MaxHistory} : live' = [live EXCEPT !.hist = Trim(@, max)]
    BY <1>5 DEF Compact
  <2>2. UNCHANGED <<store, turn, command, refused>> /\ max \in Nat \ {0}
    BY <1>5, SessionsAssumption DEF Compact
  <2>3. live'.id = live.id /\ live'.hist = Trim(live.hist, max)
    BY <1>t, <2>1, <2>2, HistoryTypes
  <2>4. \A i \in DOMAIN live'.hist : \E j \in DOMAIN live.hist : live'.hist[i] = live.hist[j]
    BY <1>t, <2>2, <2>3, TrimDrops
  <2> QED BY <2>2, <2>3, <2>4, HistoryKeepsRecord
<1>6. CASE CopyEvent
  <2>1. command.op = "copy" /\ command.to \in Ids /\ command.rest \in Seq(Turns) /\ command.rest # << >>
    BY <1>6, <1>t, CommandFields DEF CopyEvent
  <2>2. UNCHANGED <<live, turn, refused>> /\ command'.op \in {"none", "copy"}
    <3>1. command = [op |-> "copy", to |-> command.to, rest |-> command.rest]
      BY <1>t, <2>1, CommandFields
    <3>2. [command EXCEPT !.rest = Tail(@)].op = "copy"
      BY <2>1, <3>1
    <3> QED BY <1>6, <1>t, <3>2 DEF CopyEvent
  <2>3. store' = store \/ (store' = Logged(command.to, Head(command.rest)) /\ Head(command.rest) \in Turns)
    BY <1>6, <2>1 DEF CopyEvent
  <2>4. Stored' = Stored
    BY <1>t, <2>1, <2>3, StoreTypes DEF Stored
  <2>5. live.id \in Stored => \A t : Contains(store[live.id], t) => Contains(store'[live.id], t)
    <3> SUFFICES ASSUME live.id \in Stored, NEW t, Contains(store[live.id], t) PROVE Contains(store'[live.id], t)
      OBVIOUS
    <3>1. CASE store' = store
      BY <3>1
    <3>2. CASE store' = Logged(command.to, Head(command.rest)) /\ Head(command.rest) \in Turns
      <4>1. Contains(Logged(command.to, Head(command.rest))[live.id], t)
        BY <1>t, <2>1, <3>2, AppendOutlasts
      <4> QED BY <3>2, <4>1
    <3> QED BY <2>3, <3>1, <3>2
  <2> QED BY <2>1, <2>2, <2>4, <2>5, CommandKeepsRecord
<1>7. CASE Crash
  <2>1. live'.hist = << >> /\ command'.op = "none"
    BY <1>7, <1>t DEF Crash, NoData
  <2> QED BY <2>1 DEF LiveIsLogged, OnRecord
<1>8. CASE Start
  <2>1. live' = live /\ live.hist = << >> /\ UNCHANGED <<turn, refused>>
    BY <1>8, <1>t DEF Start, RecordTypeOK, NoData
  <2>2. LiveIsLogged'
    BY <2>1 DEF LiveIsLogged, OnRecord
  <2>3. CASE UNCHANGED <<store, command, used>>
    <3>1. PICK d : d = command.data
      OBVIOUS
    <3>2. command.op = "install" => OnRecord(d)'
      BY <2>1, <2>3, <3>1, OnRecordKept DEF RecordInv, Stored
    <3> QED BY <2>2, <2>3, <3>1, <3>2
  <2>4. CASE command' = [op |-> "copy", to |-> LegacyId, rest |-> LegacyTurns]
    BY <2>2, <2>4
  <2> QED BY <1>8, <2>3, <2>4 DEF Start
<1>9. CASE EnsureCurrent
  <2>1. command'.op = "none" /\ UNCHANGED <<turn, refused>>
    BY <1>9, <1>t DEF EnsureCurrent
  <2>2. ASSUME NEW id \in Stored, live' = Loaded(id), store' = store PROVE LiveIsLogged'
    <3>1. PICK d : d = Loaded(id)
      OBVIOUS
    <3>2. OnRecord(d)
      BY <1>t, <3>1, LoadedOnRecord
    <3>3. OnRecord(d)'
      BY <2>1, <2>2, <3>2, OnRecordKept DEF Stored
    <3> QED BY <2>2, <3>1, <3>3 DEF LiveIsLogged
  <2>3. ASSUME NEW id \in Fresh, live' = [NoData EXCEPT !.id = id] PROVE LiveIsLogged'
    <3>1. live'.hist = << >>
      BY <2>3 DEF NoData
    <3> QED BY <3>1 DEF LiveIsLogged, OnRecord
  <2> QED BY <1>9, <2>1, <2>2, <2>3 DEF EnsureCurrent
<1> QED BY <1>1, <1>2, <1>3, <1>4, <1>5, <1>6, <1>7, <1>8, <1>9 DEF SessionsNext

\* The record of a session is complete, for any prompts, sessions and commands,
\* however their steps, faults and crashes interleave.
THEOREM LiveIsLoggedHolds == SessionsSpec => []LiveIsLogged
<1>1. RecordInv => LiveIsLogged
  BY DEF RecordInv
<1> QED BY <1>1, RecordInit, RecordStep, PTL DEF SessionsSpec
-----------------------------------------------------------------------------
\* A turn: after a stop nothing more of the plan is started.

\* Nothing was stopped yet.
LEMMA LateInit == TurnInit => LateInv
BY DEF TurnInit, LateInv

\* Only a call adds to `late`; before the first one after a stop it is empty, and
\* behind it lie the second try of the same step and the end.
LEMMA LateStep == LateInv /\ [TurnNext]_turnVars => LateInv'
<1> SUFFICES ASSUME LateInv, [TurnNext]_turnVars PROVE LateInv'
  OBVIOUS
<1>1. CASE UNCHANGED turnVars
  BY <1>1 DEF turnVars, LateInv
<1>2. ASSUME NEW r \in Requests, Receive(r) \/ PlanGoal(r) PROVE LateInv'
  BY <1>2 DEF Receive, PlanGoal, LateInv, running
<1>3. CASE \/ RouteManually \/ NoClassifier \/ Classified \/ AskSecond
           \/ SecondAnswers \/ Settle
  <2>1. stage = "classifying" /\ late' = late
    <3>1. CASE RouteManually \/ NoClassifier
      BY <3>1 DEF RouteManually, NoClassifier, running
    <3>2. CASE Classified
      BY <3>2 DEF Classified, running
    <3>3. CASE AskSecond
      BY <3>3 DEF AskSecond, running
    <3>4. CASE SecondAnswers
      BY <3>4 DEF SecondAnswers, running
    <3>5. CASE Settle
      BY <3>5 DEF Settle, running
    <3> QED BY <1>3, <3>1, <3>2, <3>3, <3>4, <3>5
  <2> QED BY <2>1 DEF LateInv
<1>4. CASE PlanCommands
  BY <1>4 DEF PlanCommands, LateInv
<1>5. CASE CheckStep
  BY <1>5 DEF CheckStep, Leave, LateInv
<1>6. CASE Decided
  BY <1>6 DEF Decided, Leave, LateInv
<1>7. CASE Call
  <2>1. late = {} \/ (stage = "retrying" /\ late = {at} /\ stop)
    <3>1. stage \in {"calling", "retrying"}
      BY <1>7 DEF Call
    <3> QED BY <3>1 DEF LateInv
  <2>2. late' = {} \/ (late' = {at} /\ stop')
    BY <1>7, <2>1 DEF Call
  <2>3. stage' \in {"check", "retrying", "abandoned"} /\ (stage' = "retrying" => at' = at)
    BY <1>7 DEF Call, Leave
  <2> QED BY <2>2, <2>3 DEF LateInv
<1>8. CASE PlanEnds \/ Answered \/ Stop
  BY <1>8 DEF PlanEnds, Answered, Stop, LateInv, running
<1> QED BY <1>1, <1>2, <1>3, <1>4, <1>5, <1>6, <1>7, <1>8 DEF TurnNext

\* A plan is over at the kill switch, but for the step in hand, for any commands
\* and plans of any length.
THEOREM StopEndsPlanHolds == TurnSpec => []StopEndsPlan
<1>1. LateInv => StopEndsPlan
  <2>1. CASE late = {}
    BY <2>1, FS_EmptySet DEF StopEndsPlan
  <2>2. ASSUME LateInv, late # {} PROVE StopEndsPlan
    <3>1. PICK i \in late : late = {i}
      BY <2>2 DEF LateInv
    <3>2. Cardinality(late) = 1
      BY <3>1, FS_Singleton
    <3> QED BY <3>2 DEF StopEndsPlan
  <2> QED BY <2>1, <2>2
<1> QED BY <1>1, LateInit, LateStep, PTL DEF TurnSpec

-----------------------------------------------------------------------------
\* The browser tab: its inputs follow one another.
\* A place of a sequence holds one of its elements.
LEMMA ElementIs ==
  ASSUME NEW S, NEW s \in Seq(S), NEW i \in DOMAIN s
  PROVE  s[i] \in S
  OBVIOUS

\* A sequence whose elements are in a set is a sequence over it.
LEMMA SequenceOver ==
  ASSUME NEW S, NEW T, NEW s \in Seq(S), \A i \in DOMAIN s : s[i] \in T
  PROVE  s \in Seq(T)
  OBVIOUS

\* A function on the first numbers is a sequence.
LEMMA FunctionIsSequence ==
  ASSUME NEW S, NEW n \in Nat, NEW f \in [1..n -> S]
  PROVE  f \in Seq(S)
  OBVIOUS

\* A sequence without its first element.
LEMMA WithoutFirst ==
  ASSUME NEW S, NEW s \in Seq(S), s # << >>
  PROVE  /\ Tail(s) \in Seq(S)
         /\ \A i \in DOMAIN Tail(s) : i + 1 \in DOMAIN s /\ i + 1 # 1 /\ Tail(s)[i] = s[i + 1]
  OBVIOUS

\* A sequence that is neither empty nor one element long goes on after its first.
LEMMA GoesOn ==
  ASSUME NEW S, NEW s \in Seq(S), s # << >>, Len(s) # 1
  PROVE  Tail(s) \in Seq(S) /\ Len(s) > 1
<1>1. \A n \in Nat : n # 0 /\ n # 1 => n > 1
  OBVIOUS
<1>2. Len(s) \in Nat
  OBVIOUS
<1>3. Len(s) # 0
  OBVIOUS
<1>4. Tail(s) \in Seq(S)
  OBVIOUS
<1>5. Len(s) > 1
  BY <1>1, <1>2, <1>3, Zenon
<1> QED BY <1>4, <1>5

\* What an action sends after it has waited for the page.
LEMMA InputsAre ==
  ASSUME NEW row \in Seq(Cmds)
  PROVE  /\ Inputs(row) \in Seq(Cmds)
         /\ row = << >> => Len(Inputs(row)) = 0
         /\ row # << >> => Len(Inputs(row)) = Len(row) - 1 /\ \A i \in 1..Len(row) - 1 : Inputs(row)[i] = row[i + 1]
<1>1. CASE row = << >>
  BY <1>1 DEF Inputs
<1>2. CASE row # << >>
  BY <1>2 DEF Inputs
<1> QED BY <1>1, <1>2

\* Following call by call is following as a prefix.
LEMMA FollowsIsPrefix ==
  ASSUME NEW row \in Seq(Cmds), NEW ran \in Seq(Cmds), Follows(ran, row)
  PROVE  IsPrefix(ran, Inputs(row))
<1>1. Inputs(row) \in Seq(Cmds)
  BY InputsAre
<1>2. Len(ran) <= Len(Inputs(row)) /\ \A i \in 1..Len(ran) : ran[i] = Inputs(row)[i]
  BY DEF Follows
<1>3. SubSeq(ran, 1, Len(ran)) = SubSeq(Inputs(row), 1, Len(ran))
  BY <1>1, <1>2
<1> QED BY <1>2, <1>3 DEF IsPrefix

\* One input more, if it is the next one.
LEMMA OneMore ==
  ASSUME NEW row \in Seq(Cmds), NEW ran \in Seq(Cmds), Follows(ran, row), NEW cmd \in Cmds,
         Len(ran) < Len(Inputs(row)), cmd = Inputs(row)[Len(ran) + 1]
  PROVE  Append(ran, cmd) \in Seq(Cmds) /\ Len(Append(ran, cmd)) = Len(ran) + 1 /\ Follows(Append(ran, cmd), row)
<1>1. Inputs(row) \in Seq(Cmds)
  BY InputsAre
<1>2. /\ Append(ran, cmd) \in Seq(Cmds) /\ Len(Append(ran, cmd)) = Len(ran) + 1
      /\ Append(ran, cmd)[Len(ran) + 1] = cmd /\ \A i \in 1..Len(ran) : Append(ran, cmd)[i] = ran[i]
  OBVIOUS
<1>3. ASSUME NEW i \in 1..Len(Append(ran, cmd)) PROVE Append(ran, cmd)[i] = Inputs(row)[i]
  <2>1. i \in 1..Len(ran) \/ i = Len(ran) + 1
    BY <1>2
  <2> QED BY <1>2, <2>1 DEF Follows
<1> QED BY <1>1, <1>2, <1>3 DEF Follows

\* What becomes of an operation when a call was answered, or was not.
Ended == doing' = Resting
WentOn == OneDoing(doing)' /\ doing'.op = doing.op /\ doing'.id = 0 /\ Len(doing.todo) > 1 /\ doing'.todo = Tail(doing.todo)
AsksAgain == OneDoing(doing)' /\ doing'.op = doing.op /\ doing'.id = 0 /\ doing'.todo = doing.todo

\* The operation at rest has the shape of one.
LEMMA RestingIsOne == OneDoing(Resting) /\ Resting.op = "none"
<1>1. << >> \in Seq(Cmds)
  OBVIOUS
<1> QED BY <1>1 DEF OneDoing, Resting

\* Going on ends an operation or takes up its next call.
LEMMA OnwardGoes ==
  ASSUME OneDoing(doing), doing.todo # << >>, Onward
  PROVE  Ended \/ WentOn
<1>1. CASE Len(doing.todo) = 1
  BY <1>1 DEF Onward, Ended
<1>2. CASE Len(doing.todo) # 1
  <2>1. doing' = [doing EXCEPT !.todo = Tail(doing.todo), !.id = 0, !.calm = FALSE, !.polls = 0]
    BY <1>2 DEF Onward
  <2>2. doing' = [op |-> doing.op, at |-> doing.at, link |-> doing.link, todo |-> Tail(doing.todo), id |-> 0,
                  calm |-> FALSE, polls |-> 0]
    BY <2>1, ZenonT(30) DEF OneDoing
  <2>3. doing.todo \in Seq(Cmds)
    BY DEF OneDoing
  <2>4. Tail(doing.todo) \in Seq(Cmds) /\ Len(doing.todo) > 1
    BY <1>2, <2>3, GoesOn, ZenonT(30)
  <2>5. /\ doing'.op = doing.op /\ doing'.todo = Tail(doing.todo) /\ doing'.id = 0
        /\ doing' = [op |-> doing'.op, at |-> doing'.at, link |-> doing'.link, todo |-> doing'.todo, id |-> doing'.id,
                     calm |-> doing'.calm, polls |-> doing'.polls]
    BY <2>2
  <2>6. OneDoing(doing)'
    BY <2>4, <2>5 DEF OneDoing
  <2> QED BY <2>4, <2>5, <2>6 DEF WentOn
<1> QED BY <1>1, <1>2

\* Asking again leaves the calls as they are.
LEMMA AgainAsks ==
  ASSUME OneDoing(doing), NEW calm, Again(calm)
  PROVE  AsksAgain
<1>1. doing' = [op |-> doing.op, at |-> doing.at, link |-> doing.link, todo |-> doing.todo, id |-> 0,
                calm |-> calm, polls |-> doing.polls + 1]
  BY DEF Again, OneDoing
<1> QED BY <1>1 DEF AsksAgain, OneDoing

\* An operation goes on with an answer, or without one where that does not matter;
\* it asks again where it waits.
LEMMA HearingLeadsOn ==
  ASSUME OneDoing(doing), doing.todo # << >>, NEW says, Hears(says)
  PROVE  \/ Ended
         \/ WentOn /\ (says = "yes" \/ NextCall \in (Waits \ {"guard"}) \cup BestEffort)
         \/ AsksAgain /\ (NextCall \in Waits \ {"guard"} \/ (NextCall = "guard" /\ says = "no"))
<1>1. Onward => Ended \/ WentOn
  BY OnwardGoes
<1>2. \A calm : Again(calm) => AsksAgain
  BY AgainAsks
<1>3. Finished => Ended
  BY DEF Finished, Ended
<1>4. CASE NextCall \in Waits
  <2>1. Polled(says)
    BY <1>4 DEF Hears, Waits, BestEffort
  <2>2. CASE NextCall = "load"
    <3>1. Onward \/ Again(TRUE) \/ Again(FALSE) \/ Again(doing.calm)
      BY <2>1, <2>2 DEF Polled
    <3> QED BY <1>1, <1>2, <2>2, <3>1 DEF Waits
  <2>3. CASE NextCall = "ready"
    <3>1. (says = "yes" /\ Onward) \/ Again(FALSE) \/ Finished
      BY <2>1, <2>3 DEF Polled
    <3> QED BY <1>1, <1>2, <1>3, <2>3, <3>1 DEF Waits
  <2>4. CASE NextCall = "options"
    <3>1. Onward \/ Again(FALSE)
      BY <2>1, <2>4 DEF Polled
    <3> QED BY <1>1, <1>2, <2>4, <3>1 DEF Waits
  <2>5. CASE NextCall = "guard"
    <3>1. (says = "yes" /\ Onward) \/ (says = "no" /\ Again(FALSE)) \/ Finished
      BY <2>1, <2>5 DEF Polled
    <3> QED BY <1>1, <1>2, <1>3, <2>5, <3>1 DEF Waits
  <2> QED BY <1>4, <2>2, <2>3, <2>4, <2>5 DEF Waits
<1>5. CASE NextCall \notin Waits /\ NextCall \in BestEffort
  BY <1>1, <1>5 DEF Hears
<1>6. CASE NextCall \notin Waits /\ NextCall \notin BestEffort
  BY <1>1, <1>3, <1>6 DEF Hears
<1> QED BY <1>4, <1>5, <1>6

\* The call an action under way makes next: the first is the wait for the page and
\* no later one is.
LEMMA NextOfAct ==
  ASSUME TabInv, doing.op = "act", doing.todo # << >>
  PROVE  LET e == log[Len(log)] IN
         /\ log # << >> /\ Len(log) \in DOMAIN log /\ e.row \in Seq(Cmds) /\ e.ran \in Seq(Cmds)
         /\ OpensWithLoad(e.row) /\ UnderWay(e)
         /\ Cut(e.row) \in Nat /\ Cut(e.row) + 1 <= Len(e.row) /\ NextCall = e.row[Cut(e.row) + 1] /\ NextCall \in Cmds
         /\ NextCall = "load" <=> Cut(e.row) = 0
         /\ NextCall # "load" => NextCall \notin (Waits \ {"guard"}) \cup BestEffort
<1> DEFINE e == log[Len(log)]
<1>1. log # << >> /\ UnderWay(e)
  BY DEF TabInv, ActInv
<1>2. Len(log) \in DOMAIN log /\ e.row \in Seq(Cmds) /\ e.ran \in Seq(Cmds) /\ OpensWithLoad(e.row)
  <2>1. log \in Seq([row : Seq(Cmds), ran : Seq(Cmds)]) /\ \A k \in DOMAIN log : OpensWithLoad(log[k].row)
    BY DEF TabInv, LogInv
  <2>2. Len(log) \in DOMAIN log
    BY <1>1, <2>1
  <2>3. e \in [row : Seq(Cmds), ran : Seq(Cmds)]
    BY <2>1, <2>2, ElementIs
  <2> QED BY <2>1, <2>2, <2>3
<1>3. doing.todo \in Seq(Cmds) /\ Len(doing.todo) >= 1 /\ NextCall = doing.todo[1] /\ NextCall \in Cmds
  BY DEF TabInv, OneDoing, NextCall
<1>4. Len(doing.todo) <= Len(e.row) /\ \A i \in 1..Len(doing.todo) : doing.todo[i] = e.row[Cut(e.row) + i]
  BY <1>1 DEF UnderWay
<1> HIDE DEF e
<1>5. Cut(e.row) \in Nat /\ Cut(e.row) + 1 <= Len(e.row) /\ NextCall = e.row[Cut(e.row) + 1] /\ e.row # << >>
  <2>1. Len(e.row) \in Nat /\ Len(doing.todo) \in Nat /\ Cut(e.row) = Len(e.row) - Len(doing.todo)
    BY <1>2, <1>3 DEF Cut
  <2>2. Cut(e.row) \in Nat /\ Cut(e.row) + 1 <= Len(e.row)
    BY <1>3, <1>4, <2>1
  <2>3. 1 \in 1..Len(doing.todo)
    BY <1>3, <2>1
  <2>4. NextCall = e.row[Cut(e.row) + 1]
    BY <1>3, <1>4, <2>3
  <2>5. e.row # << >>
    BY <1>2, <2>2
  <2> QED BY <2>2, <2>4, <2>5
<1>6. e.row[1] = "load" /\ \A i \in 2..Len(e.row) : e.row[i] \notin (Waits \ {"guard"}) \cup BestEffort
  BY <1>2, <1>5 DEF OpensWithLoad
<1>7. "load" \in Waits \ {"guard"}
  BY DEF Waits
<1>8. Cut(e.row) # 0 => Cut(e.row) + 1 \in 2..Len(e.row)
  BY <1>2, <1>5
<1>9. NextCall = "load" <=> Cut(e.row) = 0
  BY <1>5, <1>6, <1>7, <1>8
<1>10. NextCall # "load" => NextCall \notin (Waits \ {"guard"}) \cup BestEffort
  BY <1>5, <1>6, <1>8, <1>9
<1> QED BY <1>1, <1>2, <1>3, <1>5, <1>9, <1>10 DEF e

\* The wire stays right when nothing new is on it.
LEMMA LessOnTheWire ==
  ASSUME OneSocket(socket), WireInv, OneSocket(socket)', UNCHANGED log, socket'.sent = socket.sent,
         \A j \in DOMAIN socket'.back : \E i \in DOMAIN socket.back : socket'.back[j] = socket.back[i]
  PROVE  WireInv'
<1>1. DOMAIN socket'.sent = DOMAIN socket.sent /\ \A i \in DOMAIN socket.sent : socket'.sent[i] = socket.sent[i]
  OBVIOUS
<1>2. \A i \in DOMAIN socket.sent, j \in DOMAIN socket'.back : socket'.sent[i].id # socket'.back[j].id
  BY <1>1 DEF WireInv
<1> QED BY <1>1, <1>2 DEF WireInv, IsInput, Awaits

\* Hearing of a call, or giving it up, keeps an action in step with the page, as
\* long as what is heard is how far the page came.
LEMMA HearingKeeps ==
  ASSUME TabInv, doing.todo # << >>, NEW says, Hears(says), UNCHANGED log, OneSocket(socket)',
         socket'.sent = socket.sent,
         \A j \in DOMAIN socket'.back : \E i \in DOMAIN socket.back : socket'.back[j] = socket.back[i],
         doing.op = "act" /\ NextCall # "load" /\ says # "error" =>
           LET e == log[Len(log)] IN
           /\ Len(e.ran) = IF says = "yes" THEN Cut(e.row) ELSE Cut(e.row) - 1
           /\ \A i \in DOMAIN socket.sent : IsInput(socket.sent[i]) => socket.sent[i].act # Len(log)
  PROVE  TabInv'
<1>1. WireInv'
  BY LessOnTheWire DEF TabInv
<1>2. LogInv'
  BY DEF TabInv, LogInv
<1>3. \/ Ended
      \/ WentOn /\ (says = "yes" \/ NextCall \in (Waits \ {"guard"}) \cup BestEffort)
      \/ AsksAgain /\ (NextCall \in Waits \ {"guard"} \/ (NextCall = "guard" /\ says = "no"))
  BY HearingLeadsOn DEF TabInv
<1>4. OneDoing(doing)'
  BY <1>3, RestingIsOne DEF Ended, WentOn, AsksAgain, OneDoing
<1>5. ASSUME doing'.op = "act", doing'.todo # << >> PROVE (log # << >> /\ UnderWay(log[Len(log)]))'
  <2>1. ~Ended /\ doing.op = "act"
    BY <1>3, <1>5, RestingIsOne DEF Ended, WentOn, AsksAgain
  <2> DEFINE e == log[Len(log)]
  <2>2. /\ log # << >> /\ e.row \in Seq(Cmds) /\ OpensWithLoad(e.row) /\ UnderWay(e)
        /\ Cut(e.row) \in Nat /\ Cut(e.row) + 1 <= Len(e.row) /\ NextCall = e.row[Cut(e.row) + 1]
        /\ NextCall = "load" <=> Cut(e.row) = 0
        /\ NextCall # "load" => NextCall \notin (Waits \ {"guard"}) \cup BestEffort
    BY <2>1, NextOfAct
  <2>3. NextCall = "load" =>
          Len(e.ran) = 0 /\ \A i \in DOMAIN socket.sent : IsInput(socket.sent[i]) => socket.sent[i].act # Len(log)
    BY <2>2 DEF UnderWay
  <2>4. NextCall # "load" /\ says # "error" =>
          /\ Len(e.ran) = IF says = "yes" THEN Cut(e.row) ELSE Cut(e.row) - 1
          /\ \A i \in DOMAIN socket.sent : IsInput(socket.sent[i]) => socket.sent[i].act # Len(log)
    BY <2>1
  <2>5. /\ Len(doing.todo) <= Len(e.row) /\ Len(doing.todo) \in Nat /\ doing.todo \in Seq(Cmds)
        /\ \A i \in 1..Len(doing.todo) : doing.todo[i] = e.row[Cut(e.row) + i]
    BY <2>2 DEF UnderWay, TabInv, OneDoing
  <2>6. Cut(e.row) = Len(e.row) - Len(doing.todo) /\ Len(e.row) \in Nat
    BY <2>2 DEF Cut
  <2> HIDE DEF e
  <2>7. CASE WentOn /\ (says = "yes" \/ NextCall \in (Waits \ {"guard"}) \cup BestEffort)
    <3>1. doing'.id = 0 /\ Len(doing.todo) > 1 /\ doing'.todo = Tail(doing.todo)
      BY <2>7 DEF WentOn
    <3>2. /\ Len(doing'.todo) = Len(doing.todo) - 1
          /\ \A i \in 1..Len(doing.todo) - 1 : doing'.todo[i] = doing.todo[i + 1]
      BY <2>5, <3>1
    <3>0. /\ Cut(e.row) \in Nat /\ Len(e.row) \in Nat /\ Len(doing.todo) \in Nat /\ Len(doing'.todo) \in Nat
          /\ Cut(e.row) = Len(e.row) - Len(doing.todo) /\ Len(doing.todo) > 1
          /\ Len(doing'.todo) = Len(doing.todo) - 1
      BY <2>2, <2>5, <2>6, <3>1, <3>2
    <3>3. \A i \in 1..Len(doing'.todo) : doing'.todo[i] = e.row[Cut(e.row) + 1 + i]
      <4> SUFFICES ASSUME NEW i \in 1..Len(doing'.todo) PROVE doing'.todo[i] = e.row[Cut(e.row) + 1 + i]
        OBVIOUS
      <4>1. i \in 1..Len(doing.todo) - 1 /\ i + 1 \in 1..Len(doing.todo) /\ Cut(e.row) + (i + 1) = Cut(e.row) + 1 + i
        <5>1. \A c, j \in Nat : c + (j + 1) = c + 1 + j
          OBVIOUS
        <5>2. i \in Nat
          OBVIOUS
        <5>3. i \in 1..Len(doing.todo) - 1 /\ i + 1 \in 1..Len(doing.todo)
          BY <3>0, <5>2
        <5> QED BY <3>0, <5>1, <5>2, <5>3
      <4>2. doing'.todo[i] = doing.todo[i + 1] /\ doing.todo[i + 1] = e.row[Cut(e.row) + (i + 1)]
        BY <2>5, <3>2, <4>1
      <4> QED BY <4>1, <4>2
    <3>4. Len(e.row) - Len(doing'.todo) = Cut(e.row) + 1
      BY <2>5, <2>6, <3>2
    <3>5. Head(doing'.todo) # "load"
      <4>1. Head(doing'.todo) = doing'.todo[1] /\ 1 \in 1..Len(doing'.todo)
        BY <2>5, <3>1, <3>2
      <4>2. Head(doing'.todo) = e.row[Cut(e.row) + 2] /\ Cut(e.row) + 2 \in 2..Len(e.row)
        <5>1. \A c, n, m \in Nat : c = n - m /\ m > 1 => c + 1 + 1 = c + 2 /\ c + 2 \in 2..n
          OBVIOUS
        <5>2. Cut(e.row) + 1 + 1 = Cut(e.row) + 2 /\ Cut(e.row) + 2 \in 2..Len(e.row)
          BY <3>0, <5>1
        <5> QED BY <3>3, <4>1, <5>2
      <4>3. e.row # << >> /\ "load" \in Waits \ {"guard"}
        BY <2>2 DEF Waits
      <4> QED BY <2>2, <4>2, <4>3 DEF OpensWithLoad
    <3>6. /\ Len(e.ran) = Cut(e.row)
          /\ \A i \in DOMAIN socket.sent : IsInput(socket.sent[i]) => socket.sent[i].act # Len(log)
      BY <2>2, <2>3, <2>4, <2>7
    <3>7. /\ Len(doing'.todo) <= Len(e.row)
          /\ \A i \in 1..Len(doing'.todo) : doing'.todo[i] = e.row[Len(e.row) - Len(doing'.todo) + i]
          /\ Len(e.ran) = Len(e.row) - Len(doing'.todo) - 1
      <4>1. Len(doing'.todo) <= Len(e.row)
        BY <2>5, <2>6, <3>2
      <4>2. Len(e.ran) = Len(e.row) - Len(doing'.todo) - 1
        BY <3>0, <3>6
      <4> QED BY <3>3, <3>4, <4>1, <4>2
    <3> QED BY <2>2, <3>1, <3>5, <3>6, <3>7 DEF UnderWay, Cut, NextCall, IsInput, e
  <2>8. CASE AsksAgain /\ (NextCall \in Waits \ {"guard"} \/ (NextCall = "guard" /\ says = "no"))
    <3>1. doing'.id = 0 /\ doing'.todo = doing.todo
      BY <2>8 DEF AsksAgain
    <3>2. /\ Len(e.ran) = IF NextCall = "load" THEN 0 ELSE Cut(e.row) - 1
          /\ \A i \in DOMAIN socket.sent : IsInput(socket.sent[i]) => socket.sent[i].act # Len(log)
      BY <2>2, <2>3, <2>4, <2>8
    <3> QED BY <2>2, <2>5, <3>1, <3>2 DEF UnderWay, Cut, NextCall, IsInput, e
  <2> QED BY <1>3, <2>1, <2>7, <2>8
<1> QED BY <1>1, <1>2, <1>4, <1>5 DEF TabInv, ActInv

\* What is done beside the calls, and every operation but an action, keeps the page
\* and what is on its way to it, or takes all of it off the wire.
LEMMA ElsewhereKeeps ==
  ASSUME TabInv, UNCHANGED log, OneDoing(doing)', doing'.op # "act" \/ doing' = doing,
         \/ socket' = socket
         \/ OneSocket(socket)' /\ socket'.sent = << >> /\ socket'.back = << >>
  PROVE  TabInv'
<1>1. LogInv'
  BY DEF TabInv, LogInv
<1>2. CASE socket' = socket
  <2>1. OneSocket(socket)' /\ WireInv'
    BY <1>2 DEF TabInv, OneSocket, WireInv, IsInput, Awaits
  <2>2. ActInv'
    BY <1>2 DEF TabInv, ActInv, UnderWay, Cut, NextCall, IsInput
  <2> QED BY <1>1, <2>1, <2>2 DEF TabInv
<1>3. CASE OneSocket(socket)' /\ socket'.sent = << >> /\ socket'.back = << >>
  <2>1. WireInv'
    BY <1>3 DEF WireInv
  <2>2. ASSUME doing' = doing, doing.op = "act", doing.todo # << >> PROVE (log # << >> /\ UnderWay(log[Len(log)]))'
    <3>1. log # << >> /\ UnderWay(log[Len(log)])
      BY <2>2 DEF TabInv, ActInv
    <3>2. DOMAIN socket'.sent = {} /\ DOMAIN socket'.back = {}
      BY <1>3
    <3> QED BY <2>2, <3>1, <3>2 DEF UnderWay, Cut, NextCall
  <2> QED BY <1>1, <1>3, <2>1, <2>2 DEF TabInv, ActInv
<1> QED BY <1>2, <1>3

\* An action's calls begin with the wait for the page and have no other.
LEMMA CallsOpenWithLoad ==
  ASSUME NEW kind \in {"wait", "scroll", "select", "click", "fill"}, NEW text \in BOOLEAN
  PROVE  Calls(kind, text) \in Seq(Cmds) /\ OpensWithLoad(Calls(kind, text))
<1> DEFINE Good(row) == row \in Seq(Cmds) /\ (row # << >> => row[1] = "load")
                        /\ \A i \in 2..Len(row) : row[i] \notin (Waits \ {"guard"}) \cup BestEffort
<1>1. Good(<< >>) /\ Good(<<"load", "wheel">>) /\ Good(<<"load", "guard">>)
  BY DEF Cmds, Looks, Waits, BestEffort
<1>2. ASSUME NEW row \in Seq(Cmds), Good(row), row # << >>, NEW more \in Seq(Cmds),
             \A i \in 1..Len(more) : more[i] \notin (Waits \ {"guard"}) \cup BestEffort
      PROVE  Good(row \o more) /\ row \o more # << >> /\ row \o more \in Seq(Cmds)
  <2>1. row \o more \in Seq(Cmds) /\ Len(row \o more) = Len(row) + Len(more) /\ Len(row) \in Nat \ {0}
    BY <1>2
  <2>2. (row \o more)[1] = row[1]
    BY <1>2
  <2>3. ASSUME NEW i \in 2..Len(row \o more) PROVE (row \o more)[i] \notin (Waits \ {"guard"}) \cup BestEffort
    <3>1. CASE i <= Len(row)
      BY <1>2, <2>1, <3>1
    <3>2. CASE i > Len(row)
      <4>1. i - Len(row) \in 1..Len(more) /\ (row \o more)[i] = more[i - Len(row)]
        BY <1>2, <2>1, <3>2
      <4> QED BY <1>2, <4>1
    <3> QED BY <2>1, <3>1, <3>2
  <2> QED BY <1>2, <2>1, <2>2, <2>3
<1> HIDE DEF Good
<1> DEFINE Plain(more) == more \in Seq(Cmds) /\ \A i \in 1..Len(more) : more[i] \notin (Waits \ {"guard"}) \cup BestEffort
<1>3. Plain(Click) /\ Plain(<<"all_down", "all_up">>) /\ Plain(<<"insert">>) /\ Plain(Enter) /\ Plain(<< >>)
  BY DEF Cmds, Looks, Waits, BestEffort, Click, Enter
<1>4. <<"load", "guard">> # << >> /\ <<"load", "guard">> \in Seq(Cmds)
  BY DEF Cmds, Looks
<1>5. Good(<<"load", "guard">> \o Click) /\ <<"load", "guard">> \o Click # << >> /\ <<"load", "guard">> \o Click \in Seq(Cmds)
  BY <1>1, <1>2, <1>3, <1>4
<1> DEFINE filled == <<"load", "guard">> \o Click \o <<"all_down", "all_up">>
<1>6. Good(filled) /\ filled # << >> /\ filled \in Seq(Cmds)
  BY <1>2, <1>3, <1>5
<1> DEFINE rest == IF text THEN <<"insert">> \o Enter ELSE << >>
<1>7. Plain(rest)
  <2>1. Plain(<<"insert">> \o Enter)
    BY DEF Cmds, Looks, Waits, BestEffort, Enter
  <2> QED BY <1>3, <2>1
<1> HIDE DEF filled, rest
<1>8. Good(filled \o rest)
  BY <1>2, <1>6, <1>7
<1>9. Calls(kind, text) \in {<< >>, <<"load", "wheel">>, <<"load", "guard">>, <<"load", "guard">> \o Click, filled \o rest}
  BY DEF Calls, filled, rest
<1>10. Good(Calls(kind, text))
  BY <1>1, <1>5, <1>8, <1>9
<1> QED BY <1>10 DEF Good, OpensWithLoad

\* An action begins with nothing carried out and nothing of it on its way.
LEMMA ActKeeps == TabInv /\ Act => TabInv'
<1> SUFFICES ASSUME TabInv, Act PROVE TabInv'
  OBVIOUS
<1>1. PICK kind \in {"wait", "scroll", "select", "click", "fill"}, text \in BOOLEAN : Begin("act", Calls(kind, text))
  BY DEF Act
<1> DEFINE row == Calls(kind, text)
<1>2. row \in Seq(Cmds) /\ OpensWithLoad(row)
  BY CallsOpenWithLoad
<1>3. log' = Append(log, [row |-> row, ran |-> << >>]) /\ socket' = socket
  BY <1>1 DEF Begin
<1> HIDE DEF row
<1>4. doing'.op = "act" /\ doing'.todo = row /\ doing'.id = 0 /\ OneDoing(doing)'
  <2>1. doing' = [Resting EXCEPT !.op = "act", !.at = "calls", !.todo = row]
    BY <1>1 DEF Begin, row
  <2>2. doing' = [op |-> "act", at |-> "calls", link |-> Blank, todo |-> row, id |-> 0, calm |-> FALSE, polls |-> 0]
    BY <2>1 DEF Resting
  <2> QED BY <1>2, <2>2 DEF OneDoing
<1> DEFINE e == [row |-> row, ran |-> << >>]
<1>5. log \in Seq([row : Seq(Cmds), ran : Seq(Cmds)]) /\ e \in [row : Seq(Cmds), ran : Seq(Cmds)]
  BY <1>2 DEF TabInv, LogInv
<1>6. /\ log' \in Seq([row : Seq(Cmds), ran : Seq(Cmds)]) /\ Len(log') = Len(log) + 1
      /\ \A k \in DOMAIN log : log'[k] = log[k] /\ k \in DOMAIN log'
      /\ log'[Len(log')] = e
      /\ \A k \in DOMAIN log' : k \in DOMAIN log \/ log'[k] = e
  BY <1>3, <1>5
<1>7. Follows(e.ran, e.row) /\ e.row = row /\ Len(e.ran) = 0
  BY <1>2, InputsAre DEF Follows
<1>8. LogInv'
  <2>1. \A k \in DOMAIN log : OpensWithLoad(log[k].row) /\ Follows(log[k].ran, log[k].row)
    BY DEF TabInv, LogInv
  <2>2. \A k \in DOMAIN log' : OpensWithLoad(log'[k].row) /\ Follows(log'[k].ran, log'[k].row)
    BY <1>2, <1>6, <1>7, <2>1
  <2> QED BY <1>6, <2>2 DEF LogInv
<1> HIDE DEF e
<1>9. \A i \in DOMAIN socket.sent : socket.sent[i] \in SentFrames(socket.calls, Len(log))
  BY ElementIs DEF TabInv, OneSocket
<1>10. OneSocket(socket)'
  <2>1. \A i \in DOMAIN socket.sent : socket.sent[i] \in SentFrames(socket.calls, Len(log'))
    BY <1>5, <1>6, <1>9 DEF SentFrames
  <2>2. socket.sent \in Seq(SentFrames(socket.calls, Len(log')))
    BY <2>1, SequenceOver DEF TabInv, OneSocket
  <2>3. UNCHANGED socket /\ OneSocket(socket)
    BY <1>3 DEF TabInv
  <2> QED BY <2>2, <2>3 DEF OneSocket
<1>11. \A i \in DOMAIN socket.sent : IsInput(socket.sent[i]) => socket.sent[i].act \in DOMAIN log
  BY <1>5, <1>9 DEF IsInput, SentFrames
<1>12. WireInv'
  BY <1>3, <1>6, <1>11, ZenonT(60) DEF TabInv, WireInv, IsInput, Awaits
<1>13. ASSUME row # << >> PROVE (log # << >> /\ UnderWay(log[Len(log)]))'
  <2>1. NextCall' = "load"
    BY <1>2, <1>4, <1>13 DEF NextCall, OpensWithLoad
  <2>2. \A i \in DOMAIN socket.sent : IsInput(socket.sent[i]) => socket.sent[i].act # Len(log')
    BY <1>5, <1>6, <1>11
  <2>3. Len(row) \in Nat /\ \A i \in 1..Len(row) : row[i] = row[Len(row) - Len(row) + i]
    BY <1>2
  <2>4. log' # << >>
    BY <1>5, <1>6
  <2> QED BY <1>3, <1>4, <1>6, <1>7, <2>1, <2>2, <2>3, <2>4 DEF UnderWay, Cut, IsInput
<1> QED BY <1>4, <1>8, <1>10, <1>12, <1>13 DEF TabInv, ActInv

\* What is put on the wire is the next input, and the only one of its action.
LEMMA SendKeeps == TabInv /\ SendCall => TabInv'
<1> SUFFICES ASSUME TabInv, SendCall PROVE TabInv'
  OBVIOUS
<1> DEFINE d == socket.calls + 1
           n == Len(socket.sent)
<1>1. PICK f : f = [id |-> d, cmd |-> NextCall, act |-> IF doing.op = "act" THEN Len(log) ELSE 0]
  OBVIOUS
<1>2. /\ UNCHANGED log /\ doing.todo # << >> /\ doing.id = 0
      /\ socket' = [socket EXCEPT !.calls = d, !.sent = Append(socket.sent, f)]
      /\ doing' = [doing EXCEPT !.id = d]
  BY <1>1 DEF SendCall, Calling, CallOnly, Untouched
<1>3. socket.calls \in Nat /\ d \in Nat \ {0} /\ Len(log) \in Nat /\ n \in Nat
  BY DEF TabInv, OneSocket, LogInv
<1>4. /\ socket.sent \in Seq(SentFrames(socket.calls, Len(log)))
      /\ socket.back \in Seq(BackFrames(socket.calls))
  BY DEF TabInv, OneSocket
<1>5. socket' = [open |-> socket.open, tab |-> socket.tab, calls |-> d, sent |-> Append(socket.sent, f), back |-> socket.back]
  BY <1>2 DEF TabInv, OneSocket
<1>6. doing'.op = doing.op /\ doing'.todo = doing.todo /\ doing'.id = d /\ OneDoing(doing)'
  <2>1. doing' = [op |-> doing.op, at |-> doing.at, link |-> doing.link, todo |-> doing.todo, id |-> d,
                  calm |-> doing.calm, polls |-> doing.polls]
    BY <1>2 DEF TabInv, OneDoing
  <2> QED BY <1>3, <2>1 DEF TabInv, OneDoing
<1>7. NextCall \in Cmds /\ NextCall' = NextCall
  BY <1>2, <1>6 DEF TabInv, OneDoing, NextCall
<1>8. f \in SentFrames(d, Len(log)) /\ f.id = d /\ f.cmd = NextCall
      /\ f.act = IF doing.op = "act" THEN Len(log) ELSE 0
  BY <1>1, <1>3, <1>7 DEF SentFrames
<1> HIDE DEF d, n
<1>9. \A i \in DOMAIN socket.sent : socket.sent[i] \in SentFrames(socket.calls, Len(log))
  BY <1>4, ElementIs
<1>10. \A j \in DOMAIN socket.back : socket.back[j] \in BackFrames(socket.calls)
  BY <1>4, ElementIs
<1>11. d = socket.calls + 1
  BY DEF d
<1>12. /\ \A i \in DOMAIN socket.sent : socket.sent[i] \in SentFrames(d, Len(log)) /\ socket.sent[i].id # d
       /\ \A j \in DOMAIN socket.back : socket.back[j] \in BackFrames(d) /\ socket.back[j].id # d
  BY <1>3, <1>9, <1>10, <1>11 DEF SentFrames, BackFrames
<1>13. socket.sent \in Seq(SentFrames(d, Len(log)))
       /\ socket.back \in Seq(BackFrames(d))
  BY <1>4, <1>12, SequenceOver
<1>14. /\ socket'.sent \in Seq(SentFrames(d, Len(log)))
       /\ \A i \in DOMAIN socket.sent : i \in DOMAIN socket'.sent /\ socket'.sent[i] = socket.sent[i]
       /\ \A i \in DOMAIN socket'.sent : i \in DOMAIN socket.sent \/ (i = n + 1 /\ socket'.sent[i] = f)
       /\ n + 1 \notin DOMAIN socket.sent
  BY <1>5, <1>8, <1>13 DEF n
<1>15. OneSocket(socket)' /\ socket'.back = socket.back
  BY <1>2, <1>3, <1>5, <1>13, <1>14 DEF OneSocket
<1>16. LogInv'
  BY <1>2 DEF TabInv, LogInv
<1>17. ASSUME doing.op = "act"
       PROVE  LET e == log[Len(log)] IN
              /\ log # << >> /\ UnderWay(e) /\ e.row \in Seq(Cmds) /\ e.ran \in Seq(Cmds)
              /\ NextCall # "load" => Awaits(e, NextCall) /\ Len(e.ran) = Cut(e.row) - 1
              /\ \A i \in DOMAIN socket.sent : IsInput(socket.sent[i]) => socket.sent[i].act # Len(log)
  <2> DEFINE e == log[Len(log)]
  <2>1. /\ log # << >> /\ e.row \in Seq(Cmds) /\ e.ran \in Seq(Cmds) /\ UnderWay(e)
        /\ Cut(e.row) \in Nat /\ Cut(e.row) + 1 <= Len(e.row) /\ NextCall = e.row[Cut(e.row) + 1]
        /\ NextCall = "load" <=> Cut(e.row) = 0
    BY <1>2, <1>17, NextOfAct
  <2>2. /\ Len(e.ran) = IF NextCall = "load" THEN 0 ELSE Cut(e.row) - 1
        /\ \A i \in DOMAIN socket.sent : IsInput(socket.sent[i]) => socket.sent[i].act # Len(log)
    BY <1>2, <2>1 DEF UnderWay
  <2> HIDE DEF e
  <2>3. ASSUME NextCall # "load" PROVE Awaits(e, NextCall)
    <3>1. Cut(e.row) >= 1 /\ Len(e.ran) = Cut(e.row) - 1 /\ e.row # << >>
      BY <2>1, <2>2, <2>3
    <3>2. Len(Inputs(e.row)) = Len(e.row) - 1 /\ \A i \in 1..Len(e.row) - 1 : Inputs(e.row)[i] = e.row[i + 1]
      BY <2>1, <3>1, InputsAre
    <3>3. Len(e.row) \in Nat /\ Cut(e.row) \in 1..Len(e.row) - 1 /\ Len(e.ran) + 1 = Cut(e.row)
      BY <2>1, <3>1
    <3> QED BY <2>1, <3>2, <3>3 DEF Awaits
  <2> QED BY <2>1, <2>2, <2>3 DEF e
<1>18. WireInv'
  <2>1. ASSUME IsInput(f)
        PROVE  /\ Awaits(log[f.act], f.cmd)
               /\ \A i \in DOMAIN socket.sent : IsInput(socket.sent[i]) => socket.sent[i].act # f.act
    BY <1>8, <1>17, <2>1 DEF IsInput
  <2>a. /\ \A i, j \in DOMAIN socket.sent : socket.sent[i].id = socket.sent[j].id => i = j
        /\ \A i \in DOMAIN socket.sent, j \in DOMAIN socket.back : socket.sent[i].id # socket.back[j].id
        /\ \A i \in DOMAIN socket.sent : IsInput(socket.sent[i]) => Awaits(log[socket.sent[i].act], socket.sent[i].cmd)
        /\ \A i, j \in DOMAIN socket.sent :
             IsInput(socket.sent[i]) /\ IsInput(socket.sent[j]) /\ socket.sent[i].act = socket.sent[j].act => i = j
    BY DEF TabInv, WireInv
  <2>b. \A i \in DOMAIN socket'.sent :
          \/ i \in DOMAIN socket.sent /\ socket'.sent[i] = socket.sent[i] /\ socket'.sent[i].id # d
          \/ i = n + 1 /\ socket'.sent[i] = f
    BY <1>12, <1>14
  <2>2. \A i, j \in DOMAIN socket'.sent : socket'.sent[i].id = socket'.sent[j].id => i = j
    BY <1>8, <2>a, <2>b
  <2>3. \A i \in DOMAIN socket'.sent, j \in DOMAIN socket'.back : socket'.sent[i].id # socket'.back[j].id
    BY <1>8, <1>12, <1>15, <2>a, <2>b
  <2>4. \A i \in DOMAIN socket'.sent : IsInput(socket'.sent[i]) => Awaits(log[socket'.sent[i].act], socket'.sent[i].cmd)
    BY <2>1, <2>a, <2>b
  <2>5. \A i, j \in DOMAIN socket'.sent :
          IsInput(socket'.sent[i]) /\ IsInput(socket'.sent[j]) /\ socket'.sent[i].act = socket'.sent[j].act => i = j
    BY <2>1, <2>a, <2>b
  <2> QED BY <1>2, <2>2, <2>3, <2>4, <2>5 DEF WireInv, IsInput, Awaits
<1>19. ASSUME doing.op = "act" PROVE (log # << >> /\ UnderWay(log[Len(log)]))'
  <2> DEFINE e == log[Len(log)]
  <2>1. /\ log # << >> /\ UnderWay(e) /\ (NextCall # "load" => Len(e.ran) = Cut(e.row) - 1)
        /\ \A i \in DOMAIN socket.sent : IsInput(socket.sent[i]) => socket.sent[i].act # Len(log)
    BY <1>17, <1>19
  <2>2. Cut(e.row)' = Cut(e.row)
    BY <1>2, <1>6 DEF Cut
  <2>3. /\ Len(doing.todo) <= Len(e.row)
        /\ \A i \in 1..Len(doing.todo) : doing.todo[i] = e.row[Cut(e.row) + i]
        /\ NextCall = "load" => Len(e.ran) = 0
    BY <1>2, <2>1 DEF UnderWay
  <2>4. f.act = Len(log)
    BY <1>8, <1>19
  <2>5. NextCall = "load" => \A i \in DOMAIN socket'.sent : IsInput(socket'.sent[i]) => socket'.sent[i].act # Len(log)
    BY <1>8, <1>14, <2>1 DEF IsInput
  <2>6. NextCall # "load" => \A i \in DOMAIN socket'.sent :
            IF socket'.sent[i].id = d
            THEN socket'.sent[i].act = Len(log) /\ socket'.sent[i].cmd = NextCall /\ Len(e.ran) = Cut(e.row) - 1
            ELSE IsInput(socket'.sent[i]) => socket'.sent[i].act # Len(log)
    BY <1>8, <1>12, <1>14, <2>1, <2>4
  <2>7. \A j \in DOMAIN socket'.back : socket'.back[j].id # d
    BY <1>12, <1>15
  <2>8. d # 0
    BY <1>3
  <2> QED BY <1>2, <1>6, <1>7, <2>1, <2>2, <2>3, <2>5, <2>6, <2>7, <2>8, ZenonT(60) DEF UnderWay, IsInput, Cut
<1> QED BY <1>2, <1>6, <1>15, <1>16, <1>18, <1>19 DEF TabInv, ActInv

\* What the page does when it carries out an input of an action.
LEMMA OneStepOfThePage ==
  ASSUME LogInv, NEW k \in DOMAIN log, NEW cmd \in Cmds, Awaits(log[k], cmd), log' = [log EXCEPT ![k].ran = Append(@, cmd)]
  PROVE  /\ LogInv' /\ Len(log') = Len(log) /\ DOMAIN log' = DOMAIN log
         /\ \A m \in DOMAIN log : log'[m].row = log[m].row /\ (m # k => log'[m] = log[m])
         /\ Len(log'[k].ran) = Len(log[k].ran) + 1
<1> DEFINE e == log[k]
           more == Append(e.ran, cmd)
<1>1. log \in Seq([row : Seq(Cmds), ran : Seq(Cmds)]) /\ \A m \in DOMAIN log : OpensWithLoad(log[m].row) /\ Follows(log[m].ran, log[m].row)
  BY DEF LogInv
<1>2. e \in [row : Seq(Cmds), ran : Seq(Cmds)]
  BY <1>1, ElementIs
<1>3. e.row \in Seq(Cmds) /\ e.ran \in Seq(Cmds) /\ OpensWithLoad(e.row) /\ Follows(e.ran, e.row)
  BY <1>1, <1>2
<1>4. more \in Seq(Cmds) /\ Len(more) = Len(e.ran) + 1 /\ Follows(more, e.row)
  BY <1>3, OneMore DEF Awaits
<1>5. log' = [log EXCEPT ![k] = [e EXCEPT !.ran = more]]
  OBVIOUS
<1>6. [e EXCEPT !.ran = more] = [row |-> e.row, ran |-> more]
  <2>1. \A r \in [row : Seq(Cmds), ran : Seq(Cmds)] : \A y : [r EXCEPT !.ran = y] = [row |-> r.row, ran |-> y]
    OBVIOUS
  <2> QED BY <1>2, <2>1
<1>7. PICK x : x = [row |-> e.row, ran |-> more]
  OBVIOUS
<1>8. x \in [row : Seq(Cmds), ran : Seq(Cmds)] /\ x.row = e.row /\ x.ran = more
  BY <1>3, <1>4, <1>7
<1>9. log' = [log EXCEPT ![k] = x]
  BY <1>5, <1>6, <1>7
<1> HIDE DEF e, more
<1>10. /\ log' \in Seq([row : Seq(Cmds), ran : Seq(Cmds)]) /\ Len(log') = Len(log) /\ DOMAIN log' = DOMAIN log
       /\ log'[k] = x /\ \A m \in DOMAIN log : m # k => log'[m] = log[m]
  <2> DEFINE Entries == [row : Seq(Cmds), ran : Seq(Cmds)]
  <2>1. log \in Seq(Entries) /\ x \in Entries
    BY <1>1, <1>8
  <2> HIDE DEF Entries
  <2>2. /\ log' \in Seq(Entries) /\ Len(log') = Len(log) /\ DOMAIN log' = DOMAIN log
        /\ log'[k] = x /\ \A m \in DOMAIN log : m # k => log'[m] = log[m]
    <3>1. DOMAIN log = 1..Len(log) /\ Len(log) \in Nat /\ log = [m \in 1..Len(log) |-> log[m]]
      BY <2>1
    <3>2. DOMAIN log' = 1..Len(log) /\ log' = [m \in 1..Len(log) |-> log'[m]]
      BY <1>9, <3>1
    <3>3. log'[k] = x /\ \A m \in DOMAIN log : m # k => log'[m] = log[m]
      BY <1>9, <3>1
    <3>4. \A m \in 1..Len(log) : log'[m] \in Entries
      BY <2>1, <3>1, <3>3, ElementIs
    <3>5. log' \in Seq(Entries)
      <4>1. log' \in [1..Len(log) -> Entries]
        BY <3>2, <3>4
      <4> QED BY <3>1, <4>1, FunctionIsSequence
    <3>6. Len(log') = Len(log)
      BY <3>1, <3>2, <3>5
    <3> QED BY <3>1, <3>2, <3>3, <3>5, <3>6
  <2> QED BY <2>2 DEF Entries
<1>11. \A m \in DOMAIN log' : OpensWithLoad(log'[m].row) /\ Follows(log'[m].ran, log'[m].row)
  BY <1>1, <1>3, <1>4, <1>8, <1>10
<1>12. \A m \in DOMAIN log : log'[m].row = log[m].row
  BY <1>8, <1>10 DEF e
<1>13. Len(log'[k].ran) = Len(log[k].ran) + 1
  BY <1>4, <1>8, <1>10 DEF e
<1> QED BY <1>10, <1>11, <1>12, <1>13 DEF LogInv

\* The page carries out what it was sent first and says so.
LEMMA ExecuteKeeps == TabInv /\ Execute => TabInv'
<1> SUFFICES ASSUME TabInv, Execute PROVE TabInv'
  OBVIOUS
<1> DEFINE n == Len(socket.sent)
<1>1. PICK c : c = Head(socket.sent)
  OBVIOUS
<1>2. /\ socket.sent \in Seq(SentFrames(socket.calls, Len(log))) /\ socket.back \in Seq(BackFrames(socket.calls))
      /\ socket.calls \in Nat /\ Len(log) \in Nat
  BY DEF TabInv, OneSocket, LogInv
<1>3. 1 \in DOMAIN socket.sent /\ c = socket.sent[1] /\ n \in Nat \ {0}
  BY <1>1, <1>2 DEF Execute
<1>4. c \in SentFrames(socket.calls, Len(log))
  BY <1>2, <1>3, ElementIs
<1>5. PICK says \in {"yes", "no", "error"} :
        /\ socket' = [socket EXCEPT !.sent = Tail(socket.sent), !.back = Append(socket.back, [id |-> c.id, says |-> says])]
        /\ log' = IF c.act # 0 /\ c.cmd # "load" /\ says = "yes" THEN [log EXCEPT ![c.act].ran = Append(@, c.cmd)] ELSE log
  <2>1. \A cmd : Says(cmd) \subseteq {"yes", "no", "error"}
    BY DEF Says
  <2> QED BY <1>1, <2>1 DEF Execute
<1>6. PICK b : b = [id |-> c.id, says |-> says]
  OBVIOUS
<1>7. socket' = [open |-> socket.open, tab |-> socket.tab, calls |-> socket.calls, sent |-> Tail(socket.sent),
                 back |-> Append(socket.back, b)]
  BY <1>5, <1>6 DEF TabInv, OneSocket
<1>8. b \in BackFrames(socket.calls) /\ b.id = c.id /\ b.says = says
  BY <1>4, <1>5, <1>6 DEF SentFrames, BackFrames
<1>9. doing' = doing
  BY DEF Execute
<1>10. /\ socket'.calls = socket.calls /\ socket'.sent \in Seq(SentFrames(socket.calls, Len(log)))
       /\ \A i \in DOMAIN socket'.sent : i + 1 \in DOMAIN socket.sent /\ i + 1 # 1 /\ socket'.sent[i] = socket.sent[i + 1]
  <2>1. socket.sent # << >>
    BY <1>2, <1>3
  <2> QED BY <1>2, <1>7, <2>1, WithoutFirst
<1>11. /\ socket'.back \in Seq(BackFrames(socket.calls))
       /\ \A j \in DOMAIN socket'.back : (j \in DOMAIN socket.back /\ socket'.back[j] = socket.back[j]) \/ socket'.back[j] = b
  BY <1>2, <1>7, <1>8
<1> HIDE DEF n
<1>12. /\ \A i, j \in DOMAIN socket.sent : socket.sent[i].id = socket.sent[j].id => i = j
       /\ \A i \in DOMAIN socket.sent, j \in DOMAIN socket.back : socket.sent[i].id # socket.back[j].id
       /\ \A i \in DOMAIN socket.sent : IsInput(socket.sent[i]) => Awaits(log[socket.sent[i].act], socket.sent[i].cmd)
       /\ \A i, j \in DOMAIN socket.sent :
            IsInput(socket.sent[i]) /\ IsInput(socket.sent[j]) /\ socket.sent[i].act = socket.sent[j].act => i = j
  BY DEF TabInv, WireInv
<1>13. \A i \in DOMAIN socket.sent : IsInput(socket.sent[i]) => socket.sent[i].act \in DOMAIN log
  <2> SUFFICES ASSUME NEW i \in DOMAIN socket.sent, IsInput(socket.sent[i]) PROVE socket.sent[i].act \in DOMAIN log
    OBVIOUS
  <2>1. socket.sent[i] \in SentFrames(socket.calls, Len(log))
    BY <1>2, ElementIs
  <2>2. log \in Seq([row : Seq(Cmds), ran : Seq(Cmds)])
    BY DEF TabInv, LogInv
  <2> QED BY <2>1, <2>2 DEF SentFrames, IsInput
<1>14. /\ LogInv' /\ Len(log') = Len(log) /\ DOMAIN log' = DOMAIN log
       /\ \A m \in DOMAIN log : log'[m].row = log[m].row
       /\ \A m \in DOMAIN log : log'[m] = log[m] \/ (IsInput(c) /\ says = "yes" /\ m = c.act)
       /\ IsInput(c) /\ says = "yes" => Len(log'[c.act].ran) = Len(log[c.act].ran) + 1
  <2>1. CASE IsInput(c) /\ says = "yes"
    <3>1. c.act \in DOMAIN log /\ c.cmd \in Cmds /\ Awaits(log[c.act], c.cmd)
      BY <1>3, <1>4, <1>12, <1>13, <2>1 DEF SentFrames
    <3>2. log' = [log EXCEPT ![c.act].ran = Append(@, c.cmd)]
      BY <1>5, <2>1 DEF IsInput
    <3>3. LogInv
      BY DEF TabInv
    <3> QED BY <2>1, <3>1, <3>2, <3>3, OneStepOfThePage
  <2>2. CASE ~(IsInput(c) /\ says = "yes")
    <3>1. log' = log
      BY <1>5, <2>2 DEF IsInput
    <3> QED BY <2>2, <3>1 DEF TabInv, LogInv
  <2> QED BY <2>1, <2>2
<1>15. OneSocket(socket)'
  <2>1. socket'.sent \in Seq(SentFrames(socket'.calls, Len(log'))) /\ socket'.back \in Seq(BackFrames(socket'.calls))
    BY <1>10, <1>11, <1>14
  <2>2. socket'.calls \in Nat
    BY <1>2, <1>10
  <2>3. socket' = [open |-> socket'.open, tab |-> socket'.tab, calls |-> socket'.calls, sent |-> socket'.sent, back |-> socket'.back]
    BY <1>7
  <2> QED BY <2>1, <2>2, <2>3 DEF OneSocket
<1>16. ASSUME NEW i \in DOMAIN socket'.sent
       PROVE  /\ socket'.sent[i].id # c.id /\ (IsInput(c) /\ IsInput(socket'.sent[i]) => socket'.sent[i].act # c.act)
              /\ i + 1 \in DOMAIN socket.sent /\ socket'.sent[i] = socket.sent[i + 1]
  BY <1>3, <1>10, <1>12
<1>17. WireInv'
  <2>1. \A i, j \in DOMAIN socket'.sent : socket'.sent[i].id = socket'.sent[j].id => i = j
    <3> SUFFICES ASSUME NEW i \in DOMAIN socket'.sent, NEW j \in DOMAIN socket'.sent, socket'.sent[i].id = socket'.sent[j].id PROVE i = j
      OBVIOUS
    <3>1. i + 1 = j + 1
      BY <1>12, <1>16
    <3> QED BY <1>10, <3>1
  <2>2. \A i \in DOMAIN socket'.sent, j \in DOMAIN socket'.back : socket'.sent[i].id # socket'.back[j].id
    BY <1>8, <1>11, <1>12, <1>16
  <2>3. \A i \in DOMAIN socket'.sent : IsInput(socket'.sent[i]) => Awaits(log'[socket'.sent[i].act], socket'.sent[i].cmd)
    BY <1>12, <1>13, <1>14, <1>16
  <2>4. \A i, j \in DOMAIN socket'.sent :
          IsInput(socket'.sent[i]) /\ IsInput(socket'.sent[j]) /\ socket'.sent[i].act = socket'.sent[j].act => i = j
    <3> SUFFICES ASSUME NEW i \in DOMAIN socket'.sent, NEW j \in DOMAIN socket'.sent, IsInput(socket'.sent[i]),
                        IsInput(socket'.sent[j]), socket'.sent[i].act = socket'.sent[j].act PROVE i = j
      OBVIOUS
    <3>1. i + 1 = j + 1
      BY <1>12, <1>16
    <3> QED BY <1>10, <3>1
  <2> QED BY <2>1, <2>2, <2>3, <2>4 DEF WireInv, IsInput, Awaits
<1>18. ASSUME doing.op = "act", doing.todo # << >> PROVE (log # << >> /\ UnderWay(log[Len(log)]))'
  <2> DEFINE m == Len(log)
             e == log[m]
             f == log'[m]
  <2>1. log # << >> /\ m \in DOMAIN log /\ UnderWay(e) /\ e.row \in Seq(Cmds) /\ e.ran \in Seq(Cmds) /\ m # 0
    BY <1>2, <1>18, NextOfAct
  <2>2. f.row = e.row /\ Len(log') = m /\ log' # << >> /\ (f = e \/ (IsInput(c) /\ says = "yes" /\ m = c.act))
    BY <1>14, <2>1
  <2>3. IsInput(c) /\ says = "yes" /\ m = c.act => Len(f.ran) = Len(e.ran) + 1
    BY <1>14
  <2>4. /\ Len(doing.todo) <= Len(e.row)
        /\ \A i \in 1..Len(doing.todo) : doing.todo[i] = e.row[Cut(e.row) + i]
    BY <2>1 DEF UnderWay
  <2>5. doing.id = 0 \/ NextCall = "load" =>
          /\ Len(e.ran) = IF NextCall = "load" THEN 0 ELSE Cut(e.row) - 1
          /\ \A i \in DOMAIN socket.sent : IsInput(socket.sent[i]) => socket.sent[i].act # m
    BY <2>1 DEF UnderWay
  <2>6. doing.id # 0 /\ NextCall # "load" =>
          /\ \A i \in DOMAIN socket.sent :
               IF socket.sent[i].id = doing.id
               THEN socket.sent[i].act = m /\ socket.sent[i].cmd = NextCall /\ Len(e.ran) = Cut(e.row) - 1
               ELSE IsInput(socket.sent[i]) => socket.sent[i].act # m
          /\ \A j \in DOMAIN socket.back : socket.back[j].id = doing.id =>
               Len(e.ran) = IF socket.back[j].says = "yes" THEN Cut(e.row) ELSE Cut(e.row) - 1
    BY <2>1 DEF UnderWay
  <2>7. Cut(e.row) \in Int
    BY <2>1 DEF Cut, TabInv, OneDoing
  <2> HIDE DEF m, e, f
  <2>8. doing.id = 0 \/ NextCall = "load" =>
          /\ Len(f.ran) = IF NextCall = "load" THEN 0 ELSE Cut(e.row) - 1
          /\ \A i \in DOMAIN socket'.sent : IsInput(socket'.sent[i]) => socket'.sent[i].act # m
    BY <1>3, <1>16, <2>2, <2>5
  <2>9. ASSUME doing.id # 0, NextCall # "load"
        PROVE  /\ \A i \in DOMAIN socket'.sent :
                    IF socket'.sent[i].id = doing.id
                    THEN socket'.sent[i].act = m /\ socket'.sent[i].cmd = NextCall /\ Len(f.ran) = Cut(e.row) - 1
                    ELSE IsInput(socket'.sent[i]) => socket'.sent[i].act # m
               /\ \A j \in DOMAIN socket'.back : socket'.back[j].id = doing.id =>
                    Len(f.ran) = IF socket'.back[j].says = "yes" THEN Cut(e.row) ELSE Cut(e.row) - 1
    <3>1. CASE c.id = doing.id
      <4>1. c.act = m /\ IsInput(c) /\ Len(e.ran) = Cut(e.row) - 1
        BY <1>3, <2>1, <2>6, <2>9, <3>1 DEF IsInput
      <4>2. Len(f.ran) = IF says = "yes" THEN Cut(e.row) ELSE Cut(e.row) - 1
        BY <2>2, <2>3, <2>7, <4>1
      <4>3. \A i \in DOMAIN socket'.sent : socket'.sent[i].id # doing.id /\ (IsInput(socket'.sent[i]) => socket'.sent[i].act # m)
        BY <1>16, <3>1, <4>1
      <4>4. \A j \in DOMAIN socket'.back : socket'.back[j].id = doing.id => socket'.back[j] = b
        BY <1>3, <1>11, <1>12, <3>1
      <4> QED BY <1>8, <4>2, <4>3, <4>4
    <3>2. CASE c.id # doing.id
      <4>1. f = e
        BY <1>3, <2>2, <2>6, <2>9, <3>2
      <4> QED BY <1>8, <1>11, <1>16, <2>6, <2>9, <3>2, <4>1
    <3> QED BY <3>1, <3>2
  <2>10. f = log'[Len(log')]
    BY <2>2 DEF f
  <2> QED BY <1>9, <2>2, <2>4, <2>8, <2>9, <2>10 DEF UnderWay, Cut, NextCall, IsInput
<1> QED BY <1>9, <1>14, <1>15, <1>17, <1>18 DEF TabInv, ActInv, OneDoing

\* An answer is heard when it is to the call that is out, and let go otherwise.
LEMMA AnswerKeeps == TabInv /\ Answer => TabInv'
<1> SUFFICES ASSUME TabInv, Answer PROVE TabInv'
  OBVIOUS
<1>1. PICK b : b = Head(socket.back)
  OBVIOUS
<1>2. /\ socket.back # << >> /\ doing.id # 0 /\ doing.todo # << >> /\ UNCHANGED log
      /\ socket' = [socket EXCEPT !.back = Tail(socket.back)]
  BY DEF Answer, Calling, CallOnly, Untouched
<1>3. /\ socket.sent \in Seq(SentFrames(socket.calls, Len(log))) /\ socket.back \in Seq(BackFrames(socket.calls))
      /\ socket.calls \in Nat
  BY DEF TabInv, OneSocket
<1>4. b = socket.back[1] /\ 1 \in DOMAIN socket.back
  BY <1>1, <1>2, <1>3
<1>5. /\ socket' = [open |-> socket.open, tab |-> socket.tab, calls |-> socket.calls, sent |-> socket.sent,
                    back |-> Tail(socket.back)]
  BY <1>2 DEF TabInv, OneSocket
<1>6. /\ Tail(socket.back) \in Seq(BackFrames(socket.calls))
      /\ \A j \in DOMAIN Tail(socket.back) : \E i \in DOMAIN socket.back : Tail(socket.back)[j] = socket.back[i]
  BY <1>2, <1>3, WithoutFirst
<1>7. OneSocket(socket)' /\ socket'.sent = socket.sent
      /\ \A j \in DOMAIN socket'.back : \E i \in DOMAIN socket.back : socket'.back[j] = socket.back[i]
  BY <1>2, <1>3, <1>5, <1>6 DEF OneSocket
<1>8. CASE b.id = doing.id
  <2>1. Hears(b.says)
    BY <1>1, <1>8 DEF Answer, AnswersCall
  <2>2. ASSUME doing.op = "act", NextCall # "load"
        PROVE  LET e == log[Len(log)] IN
               /\ Len(e.ran) = IF b.says = "yes" THEN Cut(e.row) ELSE Cut(e.row) - 1
               /\ \A i \in DOMAIN socket.sent : IsInput(socket.sent[i]) => socket.sent[i].act # Len(log)
    <3> DEFINE e == log[Len(log)]
    <3>1. UnderWay(e)
      BY <1>2, <2>2, NextOfAct
    <3>2. Len(e.ran) = IF b.says = "yes" THEN Cut(e.row) ELSE Cut(e.row) - 1
      BY <1>2, <1>4, <1>8, <2>2, <3>1 DEF UnderWay
    <3>3. \A i \in DOMAIN socket.sent : socket.sent[i].id # doing.id
      BY <1>4, <1>8 DEF TabInv, WireInv
    <3>4. \A i \in DOMAIN socket.sent : IsInput(socket.sent[i]) => socket.sent[i].act # Len(log)
      BY <1>2, <2>2, <3>1, <3>3 DEF UnderWay
    <3> QED BY <3>2, <3>4
  <2> QED BY <1>2, <1>7, <2>1, <2>2, HearingKeeps
<1>9. CASE b.id # doing.id
  <2>1. doing' = doing
    BY <1>1, <1>9 DEF Answer, AnswersCall
  <2>2. WireInv'
    BY <1>2, <1>7, LessOnTheWire DEF TabInv
  <2>3. LogInv' /\ OneDoing(doing)'
    BY <1>2, <2>1 DEF TabInv, LogInv, OneDoing
  <2>4. ASSUME doing.op = "act" PROVE (log # << >> /\ UnderWay(log[Len(log)]))'
    <3>1. log # << >> /\ UnderWay(log[Len(log)])
      BY <1>2, <2>4, NextOfAct
    <3>2. ASSUME NEW j \in DOMAIN socket'.back, socket'.back[j].id = doing.id, doing.id # 0, NextCall # "load"
          PROVE  Len(log[Len(log)].ran) =
                   IF socket'.back[j].says = "yes" THEN Cut(log[Len(log)].row) ELSE Cut(log[Len(log)].row) - 1
      <4>1. PICK i \in DOMAIN socket.back : socket'.back[j] = socket.back[i]
        BY <1>7
      <4>2. socket.back[i].id = doing.id
        BY <3>2, <4>1
      <4>3. Len(log[Len(log)].ran) =
              IF socket.back[i].says = "yes" THEN Cut(log[Len(log)].row) ELSE Cut(log[Len(log)].row) - 1
        BY <3>1, <3>2, <4>2 DEF UnderWay
      <4> QED BY <4>1, <4>3
    <3> QED BY <1>2, <1>7, <2>1, <3>1, <3>2, ZenonT(60) DEF UnderWay, Cut, NextCall, IsInput
  <2> QED BY <1>7, <2>1, <2>2, <2>3, <2>4 DEF TabInv, ActInv
<1> QED BY <1>8, <1>9

\* A call that is given up, or could not be sent, is heard of as an error.
LEMMA GivingUpKeeps == TabInv /\ (CallUnsent \/ NoAnswer \/ LeavesFrames) => TabInv'
<1> SUFFICES ASSUME TabInv, CallUnsent \/ NoAnswer \/ LeavesFrames PROVE TabInv'
  OBVIOUS
<1>1. socket' = socket /\ UNCHANGED log /\ doing.todo # << >>
  BY DEF CallUnsent, NoAnswer, LeavesFrames, CallOnly, Untouched, Calling
<1>2. Hears("error")
  <2>1. LeavesFrames => Hears("error")
    BY DEF LeavesFrames, Hears, Waits, BestEffort
  <2> QED BY <2>1 DEF CallUnsent, NoAnswer
<1>3. OneSocket(socket)'
  BY <1>1 DEF TabInv, OneSocket
<1> QED BY <1>1, <1>2, <1>3, HearingKeeps

\* Every other operation leaves the page alone.
LEMMA OperationsKeep ==
  ASSUME TabInv, \/ PressEnter \/ ObservePage \/ SettlePage \/ SeekOptions \/ IdleNetwork \/ Connect
                 \/ Probe \/ WritePref \/ Launch \/ Poll \/ TakeTab \/ OpenTab \/ TabFails \/ OpenSocket \/ Close
                 \/ NothingToSend \/ Breaks \/ UNCHANGED tabVars
  PROVE  TabInv'
<1>0. OneDoing(doing) /\ OneSocket(socket)
  BY DEF TabInv
<1>1. ASSUME NEW op \in {"enter", "observe", "settle", "suggestions", "idle"}, NEW cmds \in Seq(Cmds), Begin(op, cmds)
      PROVE  TabInv'
  <2>1. doing' = [op |-> op, at |-> "calls", link |-> Blank, todo |-> cmds, id |-> 0, calm |-> FALSE, polls |-> 0]
    BY <1>1 DEF Begin, Resting
  <2>2. UNCHANGED log /\ socket' = socket
    BY <1>1 DEF Begin
  <2>3. OneDoing(doing)' /\ doing'.op # "act"
    BY <1>1, <2>1 DEF OneDoing
  <2> QED BY <2>2, <2>3, ElsewhereKeeps
<1>2. CASE PressEnter \/ ObservePage \/ SettlePage \/ SeekOptions \/ IdleNetwork
  <2>1. Enter \in Seq(Cmds) /\ <<"snapshot">> \in Seq(Cmds) /\ <<"ready", "frames">> \in Seq(Cmds)
        /\ <<"options">> \in Seq(Cmds) /\ <<"idle">> \in Seq(Cmds)
    BY DEF Enter, Cmds, Looks, BestEffort
  <2> QED BY <1>1, <1>2, <2>1 DEF PressEnter, ObservePage, SettlePage, SeekOptions, IdleNetwork
<1>3. ASSUME doing' = Resting, UNCHANGED log, socket' = socket PROVE TabInv'
  BY <1>3, RestingIsOne, ElsewhereKeeps DEF OneDoing
<1>4. CASE NothingToSend \/ TabFails
  BY <1>3, <1>4 DEF NothingToSend, TabFails, Finished, CallOnly, Untouched, ConnectOnly
<1>5. ASSUME NEW phase, doing.op = "connect", Goes(phase), UNCHANGED log, socket' = socket PROVE TabInv'
  <2>1. doing' = [op |-> doing.op, at |-> phase, link |-> doing.link, todo |-> doing.todo, id |-> doing.id,
                  calm |-> doing.calm, polls |-> doing.polls]
    BY <1>0, <1>5 DEF Goes, OneDoing
  <2>2. OneDoing(doing)' /\ doing'.op # "act"
    BY <1>0, <1>5, <2>1 DEF OneDoing
  <2> QED BY <1>5, <2>2, ElsewhereKeeps
<1>6. CASE Connect
  <2>1. PICK link : doing' = [Resting EXCEPT !.op = "connect", !.at = "probe", !.link = link]
    BY <1>6 DEF Connect
  <2>2. doing' = [op |-> "connect", at |-> "probe", link |-> link, todo |-> << >>, id |-> 0, calm |-> FALSE, polls |-> 0]
    BY <2>1 DEF Resting
  <2>3. << >> \in Seq(Cmds)
    OBVIOUS
  <2>4. OneDoing(doing)' /\ doing'.op # "act"
    BY <2>2, <2>3 DEF OneDoing
  <2> QED BY <1>6, <2>4, ElsewhereKeeps DEF Connect
<1>7. CASE Probe \/ WritePref \/ Launch
  <2>1. doing.op = "connect" /\ UNCHANGED log /\ socket' = socket /\ \E phase : Goes(phase)
    BY <1>7 DEF Probe, WritePref, Launch, Connects, ConnectOnly
  <2> QED BY <1>5, <2>1
<1>8. CASE Poll \/ TakeTab \/ OpenTab
  <2>1. doing.op = "connect" /\ UNCHANGED log /\ socket' = socket /\ (doing' = Resting \/ \E phase : Goes(phase))
    BY <1>8 DEF Poll, TakeTab, OpenTab, Connects, ConnectOnly
  <2> QED BY <1>3, <1>5, <2>1
<1>9. ASSUME NEW calls, calls = socket.calls PROVE << >> \in Seq(SentFrames(calls, Len(log))) /\ << >> \in Seq(BackFrames(calls))
  OBVIOUS
<1>10. CASE OpenSocket
  <2>1. CASE doing' = Resting /\ UNCHANGED socket
    BY <1>3, <1>10, <2>1 DEF OpenSocket
  <2>2. CASE /\ socket' = [NoSocket EXCEPT !.open = TRUE, !.tab = target, !.calls = socket.calls]
             /\ doing' = [doing EXCEPT !.at = "calls",
                                  !.todo = (IF doing.link = Blank THEN << >> ELSE <<"navigate">>)
                                             \o <<"metrics", "focus", "load">>]
    <3>1. socket' = [open |-> TRUE, tab |-> target, calls |-> socket.calls, sent |-> << >>, back |-> << >>]
      BY <2>2 DEF NoSocket
    <3>2. OneSocket(socket)' /\ socket'.sent = << >> /\ socket'.back = << >>
      BY <1>0, <1>9, <3>1 DEF OneSocket
    <3>3. PICK cmds : cmds = (IF doing.link = Blank THEN << >> ELSE <<"navigate">>) \o <<"metrics", "focus", "load">>
      OBVIOUS
    <3>4. cmds \in Seq(Cmds)
      <4>1. <<"metrics", "focus", "load">> \in Seq(Cmds) /\ <<"navigate">> \in Seq(Cmds) /\ << >> \in Seq(Cmds)
        BY DEF Cmds, Looks, BestEffort
      <4>2. (IF doing.link = Blank THEN << >> ELSE <<"navigate">>) \in Seq(Cmds)
        BY <4>1
      <4> QED BY <3>3, <4>1, <4>2
    <3>5. doing' = [op |-> doing.op, at |-> "calls", link |-> doing.link, todo |-> cmds, id |-> doing.id,
                    calm |-> doing.calm, polls |-> doing.polls]
      BY <1>0, <2>2, <3>3 DEF OneDoing
    <3>6. OneDoing(doing)' /\ doing'.op # "act"
      BY <1>0, <1>10, <3>4, <3>5 DEF OneDoing, OpenSocket, Connects
    <3> QED BY <1>10, <3>2, <3>6, ElsewhereKeeps DEF OpenSocket
  <2> QED BY <1>10, <2>1, <2>2 DEF OpenSocket
<1>11. CASE Close
  <2>1. doing' = doing /\ UNCHANGED log /\ socket' = [NoSocket EXCEPT !.calls = socket.calls]
    BY <1>11 DEF Close
  <2>2. socket' = [open |-> FALSE, tab |-> 0, calls |-> socket.calls, sent |-> << >>, back |-> << >>]
    BY <2>1 DEF NoSocket
  <2>3. OneSocket(socket)' /\ socket'.sent = << >> /\ socket'.back = << >>
    BY <1>0, <1>9, <2>2 DEF OneSocket
  <2> QED BY <1>0, <2>1, <2>3, ElsewhereKeeps DEF OneDoing
<1>12. CASE Breaks
  <2>1. doing' = doing /\ UNCHANGED log /\ socket' = [socket EXCEPT !.open = FALSE, !.sent = << >>, !.back = << >>]
    BY <1>12 DEF Breaks
  <2>2. socket' = [open |-> FALSE, tab |-> socket.tab, calls |-> socket.calls, sent |-> << >>, back |-> << >>]
    BY <1>0, <2>1 DEF OneSocket
  <2>3. OneSocket(socket)' /\ socket'.sent = << >> /\ socket'.back = << >>
    BY <1>0, <1>9, <2>2 DEF OneSocket
  <2> QED BY <1>0, <2>1, <2>3, ElsewhereKeeps DEF OneDoing
<1>13. CASE UNCHANGED tabVars
  <2>1. doing' = doing /\ UNCHANGED log /\ socket' = socket
    BY <1>13 DEF tabVars
  <2> QED BY <1>0, <2>1, ElsewhereKeeps DEF OneDoing
<1> QED BY <1>2, <1>4, <1>6, <1>7, <1>8, <1>10, <1>11, <1>12, <1>13

\* What a page carries out of an action (browser_cdp.rs, hyprfast_browser.rs: one call
\* at a time over one socket, matched by its number) is what the action sends, from its
\* first input on and without a gap, whatever was given up, answered late or lost.
THEOREM EachStepOnTheLastHolds == TabSpec => []EachStepOnTheLast
<1>1. TabInit => TabInv
  <2> SUFFICES ASSUME TabInit PROVE TabInv
    OBVIOUS
  <2>1. log = << >> /\ doing = Resting /\ socket = NoSocket
    BY DEF TabInit
  <2>2. socket.calls = 0 /\ socket.sent = << >> /\ socket.back = << >>
    BY <2>1 DEF NoSocket
  <2>3. OneSocket(socket)
    <3>1. \A S : << >> \in Seq(S)
      OBVIOUS
    <3> QED BY <2>1, <2>2, <3>1 DEF OneSocket, NoSocket
  <2>4. LogInv
    BY <2>1 DEF LogInv
  <2>5. WireInv
    BY <2>2 DEF WireInv
  <2> QED BY <2>1, <2>3, <2>4, <2>5, RestingIsOne DEF TabInv, ActInv
<1>2. TabInv /\ [TabNext]_tabVars => TabInv'
  BY ActKeeps, SendKeeps, ExecuteKeeps, AnswerKeeps, GivingUpKeeps, OperationsKeep DEF TabNext
<1>3. TabInv => EachStepOnTheLast
  <2> SUFFICES ASSUME TabInv, NEW k \in DOMAIN log PROVE IsPrefix(log[k].ran, Inputs(log[k].row))
    BY DEF EachStepOnTheLast
  <2>1. log \in Seq([row : Seq(Cmds), ran : Seq(Cmds)]) /\ Follows(log[k].ran, log[k].row)
    BY DEF TabInv, LogInv
  <2>2. log[k] \in [row : Seq(Cmds), ran : Seq(Cmds)]
    BY <2>1, ElementIs
  <2> QED BY <2>1, <2>2, FollowsIsPrefix
<1> QED BY <1>1, <1>2, <1>3, PTL DEF TabSpec

-----------------------------------------------------------------------------
\* Page watches: a report accounts for both pages and is as short as it can be.

(* Tables: functions whose value at a place rests on places of less measure *)

\* A set of numbers that is not empty has a least one.
LEMMA LeastOne ==
  ASSUME NEW S \in SUBSET Nat, S # {}
  PROVE  \E x \in S : \A n \in S : x <= n
<1>1. PICK x \in S : \A y \in S : <<y, x>> \notin OpToRel(<, Nat)
  BY NatLessThanWellFounded, WFMin, Zenon
<1>2. ASSUME NEW y \in S PROVE x <= y
  <2>1. <<y, x>> \in Nat \X Nat /\ <<y, x>>[1] = y /\ <<y, x>>[2] = x
    OBVIOUS
  <2>2. ~(<<y, x>>[1] < <<y, x>>[2])
    BY <1>1, <2>1, Zenon DEF OpToRel
  <2> QED BY <2>1, <2>2
<1> QED BY <1>2

\* What holds at a place when it holds at all places of less measure holds everywhere.
Inherited(S, m, T) == \A p \in S : (\A q \in S : m[q] < m[p] => q \in T) => p \in T

\* By the order of the naturals, with a set for the property to prove.
LEMMA MeasureInduction ==
  ASSUME NEW S, NEW m \in [S -> Nat], NEW T \in SUBSET S, Inherited(S, m, T)
  PROVE  T = S
<1> SUFFICES ASSUME T # S PROVE FALSE
  OBVIOUS
<1> DEFINE left == {m[p] : p \in S \ T}
<1>1. left \in SUBSET Nat /\ left # {}
  OBVIOUS
<1>2. PICK x \in left : \A n \in left : x <= n
  BY <1>1, LeastOne
<1>3. PICK p \in S \ T : m[p] = x
  BY <1>2
<1>4. ASSUME NEW q \in S, m[q] < m[p] PROVE q \in T
  <2>1. SUFFICES ASSUME q \notin T PROVE FALSE
    OBVIOUS
  <2>2. m[q] \in left /\ m[q] \in Nat /\ m[p] \in Nat
    BY <2>1
  <2> QED BY <1>2, <1>3, <1>4, <2>2
<1> QED BY <1>3, <1>4 DEF Inherited

\* A step on tables that looks only at places of less measure has a table it leaves alone.
Measured(S, m, bound) == m \in [S -> Nat] /\ bound \in Nat /\ \A p \in S : m[p] <= bound
LooksBack(S, V, m, D) ==
  /\ D \in [[S -> V] -> [S -> V]]
  /\ \A f, g \in [S -> V], p \in S : (\A q \in S : m[q] < m[p] => f[q] = g[q]) => D[f][p] = D[g][p]
HasTable(S, V, D) == \E f \in [S -> V] : f = D[f]

\* Built level by level: a table that is right up to one measure is made right up to the next.
LEMMA TableExists ==
  ASSUME NEW S, NEW V, NEW m, NEW bound, Measured(S, m, bound),
         NEW D, LooksBack(S, V, m, D), NEW blank \in [S -> V]
  PROVE  HasTable(S, V, D)
<1>0. /\ m \in [S -> Nat] /\ bound \in Nat /\ \A p \in S : m[p] <= bound
      /\ D \in [[S -> V] -> [S -> V]]
      /\ \A f, g \in [S -> V], p \in S : (\A q \in S : m[q] < m[p] => f[q] = g[q]) => D[f][p] = D[g][p]
  BY DEF Measured, LooksBack
<1> DEFINE Done(n) == \E f \in [S -> V] : \A p \in S : m[p] < n => f[p] = D[f][p]
<1>1. Done(0)
  <2>1. \A p \in S : ~(m[p] < 0)
    BY <1>0
  <2> QED BY <2>1
<1>2. ASSUME NEW n \in Nat, Done(n) PROVE Done(n + 1)
  <2>1. PICK f \in [S -> V] : \A p \in S : m[p] < n => f[p] = D[f][p]
    BY <1>2
  <2> DEFINE g == D[f]
  <2>2. g \in [S -> V]
    BY <1>0
  <2>3. ASSUME NEW p \in S, m[p] < n + 1 PROVE g[p] = D[g][p]
    <3>1. ASSUME NEW q \in S, m[q] < m[p] PROVE f[q] = g[q]
      <4>1. m[q] < n
        <5>1. m[q] \in Nat /\ m[p] \in Nat
          BY <1>0
        <5> QED BY <2>3, <3>1, <5>1
      <4> QED BY <2>1, <4>1
    <3> HIDE DEF g
    <3>2. D[f][p] = D[g][p]
      BY <1>0, <2>2, <3>1
    <3> QED BY <3>2 DEF g
  <2> QED BY <2>2, <2>3
<1> HIDE DEF Done
<1>3. Done(bound + 1)
  <2>0. bound + 1 \in Nat
    BY <1>0
  <2>1. SUFFICES ASSUME ~Done(bound + 1) PROVE FALSE
    OBVIOUS
  <2> DEFINE failing == {n \in Nat : ~Done(n)}
  <2>2. failing \in SUBSET Nat /\ failing # {}
    BY <2>0, <2>1
  <2>3. PICK x \in failing : \A n \in failing : x <= n
    BY <2>2, LeastOne
  <2>4. x \in Nat /\ ~Done(x) /\ x # 0
    BY <1>1, <2>3
  <2>5. x - 1 \in Nat /\ x - 1 + 1 = x /\ ~(x <= x - 1)
    BY <2>4
  <2>6. Done(x - 1)
    BY <2>3, <2>5
  <2> QED BY <1>2, <2>4, <2>5, <2>6
<1>4. PICK f \in [S -> V] : \A p \in S : m[p] < bound + 1 => f[p] = D[f][p]
  BY <1>3 DEF Done
<1>5. \A p \in S : m[p] < bound + 1
  BY <1>0
<1>6. \A p \in S : f[p] = D[f][p]
  BY <1>4, <1>5
<1>7. D[f] \in [S -> V]
  BY <1>0
<1>8. f = D[f]
  BY <1>6, <1>7
<1> QED BY <1>7, <1>8 DEF HasTable

-----------------------------------------------------------------------------
(* Lines: what is left of a page, and how often a line is in it *)

Rest(s, i) == SubSeq(s, i, Len(s))
Cnt(s, x) == Cardinality({i \in DOMAIN s : s[i] = x})

\* The rest of a page is its next line and the rest from there.
LEMMA RestIs ==
  ASSUME NEW E, NEW s \in Seq(E), NEW i \in 1..Len(s) + 1
  PROVE  /\ Rest(s, i) \in Seq(E) /\ Len(Rest(s, i)) = Len(s) + 1 - i
         /\ i <= Len(s) => s[i] \in E /\ Rest(s, i) = <<s[i]>> \o Rest(s, i + 1)
         /\ Rest(s, 1) = s
<1>1. Rest(s, i) \in Seq(E) /\ Len(Rest(s, i)) = IF i <= Len(s) THEN Len(s) - i + 1 ELSE 0
  <2>1. i \in Int /\ Len(s) \in Int /\ \A k \in i..Len(s) : s[k] \in E
    OBVIOUS
  <2> QED BY <2>1, SubSeqProperties DEF Rest
<1>2. i <= Len(s) => s[i] \in E /\ Rest(s, i) = <<s[i]>> \o Rest(s, i + 1)
  <2>1. ASSUME i <= Len(s) PROVE Rest(s, i) = <<s[i]>> \o Rest(s, i + 1)
    <3>1. i \in 1..Len(s) /\ Len(s) \in i..Len(s)
      BY <2>1
    <3> QED BY <3>1, SubSeqRecursiveFirst DEF Rest
  <2> QED BY <2>1
<1>3. Rest(s, 1) = s
  BY SubSeqFull DEF Rest
<1> QED BY <1>1, <1>2, <1>3

\* Behind its last line a page has no rest.
LEMMA RestIsNone ==
  ASSUME NEW E, NEW s \in Seq(E), NEW i \in 1..Len(s) + 1, i > Len(s)
  PROVE  Rest(s, i) = << >>
BY SubSeqEmpty DEF Rest

\* A line is counted as often as it stands somewhere.
LEMMA CntType ==
  ASSUME NEW E, NEW s \in Seq(E), NEW x
  PROVE  /\ Cnt(s, x) \in Nat /\ IsFiniteSet({i \in DOMAIN s : s[i] = x})
         /\ x \in ToSet(s) <=> Cnt(s, x) > 0
<1> DEFINE standing == {i \in DOMAIN s : s[i] = x}
<1>1. IsFiniteSet(DOMAIN s)
  <2>1. DOMAIN s = 1..Len(s) /\ Len(s) \in Int
    OBVIOUS
  <2> QED BY <2>1, FS_Interval
<1>2. IsFiniteSet(standing)
  BY <1>1, FS_Subset
<1>3. Cardinality(standing) \in Nat /\ (Cardinality(standing) = 0 <=> standing = {})
  BY <1>2, FS_CardinalityType, FS_EmptySet
<1>4. x \in ToSet(s) <=> standing # {}
  BY DEF ToSet
<1> QED BY <1>2, <1>3, <1>4 DEF Cnt

\* A line is in two pieces as often as in the one and in the other.
LEMMA CntJoined ==
  ASSUME NEW E, NEW s \in Seq(E), NEW t \in Seq(E), NEW x
  PROVE  Cnt(s \o t, x) = Cnt(s, x) + Cnt(t, x)
<1> DEFINE A == {i \in DOMAIN s : s[i] = x}
           T == {i \in DOMAIN t : t[i] = x}
           B == {i \in Len(s) + 1 .. Len(s) + Len(t) : t[i - Len(s)] = x}
           f == [i \in T |-> i + Len(s)]
<1>1. IsFiniteSet(A) /\ IsFiniteSet(T)
  BY CntType
<1>2. f \in Bijection(T, B)
  <2>1. f \in [T -> B]
    OBVIOUS
  <2>2. \A i, j \in T : f[i] = f[j] => i = j
    OBVIOUS
  <2>3. ASSUME NEW k \in B PROVE \E i \in T : f[i] = k
    <3>1. k - Len(s) \in T /\ k - Len(s) + Len(s) = k
      OBVIOUS
    <3> QED BY <3>1
  <2> QED BY <2>1, <2>2, <2>3 DEF Bijection, Injection, Surjection, IsInjective
<1>3. IsFiniteSet(B) /\ Cardinality(B) = Cardinality(T)
  <2>1. ExistsBijection(T, B)
    BY <1>2 DEF ExistsBijection
  <2> QED BY <1>1, <2>1, FS_Bijection
<1>4. A \cap B = {} /\ {i \in DOMAIN (s \o t) : (s \o t)[i] = x} = A \cup B
  <2>1. DOMAIN (s \o t) = 1..Len(s) + Len(t) /\ Len(s) \in Nat /\ Len(t) \in Nat
    OBVIOUS
  <2>2. \A i \in 1..Len(s) : (s \o t)[i] = s[i]
    OBVIOUS
  <2>3. \A i \in Len(s) + 1 .. Len(s) + Len(t) : (s \o t)[i] = t[i - Len(s)]
    OBVIOUS
  <2> QED BY <2>1, <2>2, <2>3
<1> HIDE DEF A, B, T
<1>5. Cardinality(A \cup B) = Cardinality(A) + Cardinality(B)
  <2>1. Cardinality(A \cup B) = Cardinality(A) + Cardinality(B) - Cardinality({})
    BY <1>1, <1>3, <1>4, FS_Union
  <2>2. Cardinality({}) = 0 /\ Cardinality(A) \in Nat /\ Cardinality(B) \in Nat
    BY <1>1, <1>3, FS_EmptySet, FS_CardinalityType
  <2> QED BY <2>1, <2>2
<1> QED BY <1>3, <1>4, <1>5 DEF Cnt, A, T

\* One line more.
LEMMA CntMore ==
  ASSUME NEW E, NEW s \in Seq(E), NEW y \in E, NEW x
  PROVE  Cnt(<<y>> \o s, x) = Cnt(s, x) + IF y = x THEN 1 ELSE 0
<1>1. <<y>> \in Seq(E)
  OBVIOUS
<1>2. Cnt(<<y>>, x) = IF y = x THEN 1 ELSE 0
  <2>1. CASE y = x
    <3>1. {i \in DOMAIN <<y>> : <<y>>[i] = x} = {1}
      BY <2>1
    <3> QED BY <2>1, <3>1, FS_Singleton DEF Cnt
  <2>2. CASE y # x
    <3>1. {i \in DOMAIN <<y>> : <<y>>[i] = x} = {}
      BY <2>2
    <3> QED BY <2>2, <3>1, FS_EmptySet DEF Cnt
  <2> QED BY <2>1, <2>2
<1>3. Cnt(<<y>> \o s, x) = Cnt(<<y>>, x) + Cnt(s, x)
  BY <1>1, CntJoined
<1>4. Cnt(s, x) \in Nat
  BY CntType
<1> QED BY <1>2, <1>3, <1>4

-----------------------------------------------------------------------------
(* Places in two pages, and how much is left of both from there *)

Places(r, a) == (1..Len(r) + 1) \X (1..Len(a) + 1)
Left(r, a) == [p \in Places(r, a) |-> (Len(r) + 1 - p[1]) + (Len(a) + 1 - p[2])]

\* Less is left further on in either page.
LEMMA LessLeft ==
  ASSUME NEW E, NEW r \in Seq(E), NEW a \in Seq(E)
  PROVE  /\ Left(r, a) \in [Places(r, a) -> Nat]
         /\ \A p \in Places(r, a) : Left(r, a)[p] <= Len(r) + Len(a)
         /\ \A p \in Places(r, a) : /\ p = <<p[1], p[2]>> /\ p[1] \in 1..Len(r) + 1 /\ p[2] \in 1..Len(a) + 1
         /\ \A p \in Places(r, a) : p[1] <= Len(r) =>
              <<p[1] + 1, p[2]>> \in Places(r, a) /\ Left(r, a)[<<p[1] + 1, p[2]>>] < Left(r, a)[p]
         /\ \A p \in Places(r, a) : p[2] <= Len(a) =>
              <<p[1], p[2] + 1>> \in Places(r, a) /\ Left(r, a)[<<p[1], p[2] + 1>>] < Left(r, a)[p]
         /\ \A p \in Places(r, a) : p[1] <= Len(r) /\ p[2] <= Len(a) =>
              <<p[1] + 1, p[2] + 1>> \in Places(r, a) /\ Left(r, a)[<<p[1] + 1, p[2] + 1>>] < Left(r, a)[p]
         /\ <<1, 1>> \in Places(r, a)
<1>1. Len(r) \in Nat /\ Len(a) \in Nat
  OBVIOUS
<1>2. ASSUME NEW i \in 1..Len(r) + 1, NEW j \in 1..Len(a) + 1
      PROVE  <<i, j>> \in Places(r, a) /\ Left(r, a)[<<i, j>>] = (Len(r) + 1 - i) + (Len(a) + 1 - j)
  BY DEF Places, Left
<1>3. \A p \in Places(r, a) : p = <<p[1], p[2]>> /\ p[1] \in 1..Len(r) + 1 /\ p[2] \in 1..Len(a) + 1
  BY DEF Places
<1>4. ASSUME NEW p \in Places(r, a)
      PROVE  /\ Left(r, a)[p] = (Len(r) + 1 - p[1]) + (Len(a) + 1 - p[2])
             /\ Left(r, a)[p] \in Nat /\ Left(r, a)[p] <= Len(r) + Len(a)
  <2>1. Left(r, a)[p] = (Len(r) + 1 - p[1]) + (Len(a) + 1 - p[2])
    BY DEF Left
  <2> QED BY <1>1, <1>3, <2>1
<1>5. Left(r, a) \in [Places(r, a) -> Nat]
  <2>1. Left(r, a) = [p \in Places(r, a) |-> Left(r, a)[p]]
    BY DEF Left
  <2> QED BY <1>4, <2>1
<1>6. ASSUME NEW p \in Places(r, a), p[1] <= Len(r)
      PROVE  <<p[1] + 1, p[2]>> \in Places(r, a) /\ Left(r, a)[<<p[1] + 1, p[2]>>] < Left(r, a)[p]
  <2>1. p[1] + 1 \in 1..Len(r) + 1
    BY <1>1, <1>3, <1>6
  <2>2. <<p[1] + 1, p[2]>> \in Places(r, a)
        /\ Left(r, a)[<<p[1] + 1, p[2]>>] = (Len(r) + 1 - (p[1] + 1)) + (Len(a) + 1 - p[2])
    BY <1>2, <1>3, <2>1, Zenon
  <2>3. (Len(r) + 1 - (p[1] + 1)) + (Len(a) + 1 - p[2]) < (Len(r) + 1 - p[1]) + (Len(a) + 1 - p[2])
    BY <1>1, <1>3
  <2>4. Left(r, a)[p] = (Len(r) + 1 - p[1]) + (Len(a) + 1 - p[2])
    BY <1>4, Zenon
  <2> QED BY <2>2, <2>3, <2>4, Zenon
<1>7. ASSUME NEW p \in Places(r, a), p[2] <= Len(a)
      PROVE  <<p[1], p[2] + 1>> \in Places(r, a) /\ Left(r, a)[<<p[1], p[2] + 1>>] < Left(r, a)[p]
  <2>1. p[2] + 1 \in 1..Len(a) + 1
    BY <1>1, <1>3, <1>7
  <2>2. <<p[1], p[2] + 1>> \in Places(r, a)
        /\ Left(r, a)[<<p[1], p[2] + 1>>] = (Len(r) + 1 - p[1]) + (Len(a) + 1 - (p[2] + 1))
    BY <1>2, <1>3, <2>1, Zenon
  <2>3. (Len(r) + 1 - p[1]) + (Len(a) + 1 - (p[2] + 1)) < (Len(r) + 1 - p[1]) + (Len(a) + 1 - p[2])
    BY <1>1, <1>3
  <2>4. Left(r, a)[p] = (Len(r) + 1 - p[1]) + (Len(a) + 1 - p[2])
    BY <1>4, Zenon
  <2> QED BY <2>2, <2>3, <2>4, Zenon
<1>8. ASSUME NEW p \in Places(r, a), p[1] <= Len(r), p[2] <= Len(a)
      PROVE  <<p[1] + 1, p[2] + 1>> \in Places(r, a) /\ Left(r, a)[<<p[1] + 1, p[2] + 1>>] < Left(r, a)[p]
  <2>1. p[1] + 1 \in 1..Len(r) + 1 /\ p[2] + 1 \in 1..Len(a) + 1
    BY <1>1, <1>3, <1>8
  <2>2. <<p[1] + 1, p[2] + 1>> \in Places(r, a)
        /\ Left(r, a)[<<p[1] + 1, p[2] + 1>>] = (Len(r) + 1 - (p[1] + 1)) + (Len(a) + 1 - (p[2] + 1))
    BY <1>2, <1>3, <2>1, Zenon
  <2>3. (Len(r) + 1 - (p[1] + 1)) + (Len(a) + 1 - (p[2] + 1)) < (Len(r) + 1 - p[1]) + (Len(a) + 1 - p[2])
    <3>1. PICK i \in Int, j \in Int, k \in Int, l \in Int : i = p[1] /\ j = p[2] /\ k = Len(r) /\ l = Len(a)
      BY <1>1, <1>3
    <3>2. (k + 1 - (i + 1)) + (l + 1 - (j + 1)) < (k + 1 - i) + (l + 1 - j)
      OBVIOUS
    <3> QED BY <3>1, <3>2, Zenon
  <2>4. Left(r, a)[p] = (Len(r) + 1 - p[1]) + (Len(a) + 1 - p[2])
    BY <1>4, Zenon
  <2> QED BY <2>2, <2>3, <2>4, Zenon
<1>9. <<1, 1>> \in Places(r, a)
  BY <1>1 DEF Places
<1> QED BY <1>3, <1>4, <1>5, <1>6, <1>7, <1>8, <1>9

-----------------------------------------------------------------------------
(* The table of what is common satisfies its equation *)

LcsAt(old, new, t, p) ==
  IF p[1] > Len(old) \/ p[2] > Len(new) THEN 0
  ELSE IF old[p[1]] = new[p[2]] THEN t[<<p[1] + 1, p[2] + 1>>] + 1
  ELSE Max({t[<<p[1] + 1, p[2]>>], t[<<p[1], p[2] + 1>>]})

\* The larger of two numbers.
LEMMA MaxOfTwo ==
  ASSUME NEW x \in Nat, NEW y \in Nat
  PROVE  Max({x, y}) = IF x >= y THEN x ELSE y
<1>1. \E z \in {x, y} : \A w \in {x, y} : z >= w
  OBVIOUS
<1>2. Max({x, y}) \in {x, y} /\ \A w \in {x, y} : Max({x, y}) >= w
  BY <1>1 DEF Max
<1> QED BY <1>2

\* An entry is a number when those it looks at are.
LEMMA LcsAtTyped ==
  ASSUME NEW E, NEW old \in Seq(E), NEW new \in Seq(E), NEW t, NEW p \in Places(old, new),
         \A q \in Places(old, new) : Left(old, new)[q] < Left(old, new)[p] => t[q] \in Nat
  PROVE  LcsAt(old, new, t, p) \in Nat
<1>1. CASE p[1] > Len(old) \/ p[2] > Len(new)
  BY <1>1 DEF LcsAt
<1>2. CASE p[1] <= Len(old) /\ p[2] <= Len(new)
  <2>1. t[<<p[1] + 1, p[2] + 1>>] \in Nat /\ t[<<p[1] + 1, p[2]>>] \in Nat /\ t[<<p[1], p[2] + 1>>] \in Nat
    BY <1>2, LessLeft
  <2>2. Max({t[<<p[1] + 1, p[2]>>], t[<<p[1], p[2] + 1>>]}) \in Nat
    BY <2>1, MaxOfTwo
  <2> QED BY <2>1, <2>2 DEF LcsAt
<1>3. p[1] \in Int /\ p[2] \in Int /\ Len(old) \in Int /\ Len(new) \in Int
  BY LessLeft
<1> QED BY <1>1, <1>2, <1>3

\* An entry looks only further on.
LEMMA LcsAtLocal ==
  ASSUME NEW E, NEW old \in Seq(E), NEW new \in Seq(E), NEW f, NEW g, NEW p \in Places(old, new),
         \A q \in Places(old, new) : Left(old, new)[q] < Left(old, new)[p] => f[q] = g[q]
  PROVE  LcsAt(old, new, f, p) = LcsAt(old, new, g, p)
<1>1. CASE p[1] > Len(old) \/ p[2] > Len(new)
  BY <1>1 DEF LcsAt
<1>2. CASE p[1] <= Len(old) /\ p[2] <= Len(new)
  <2>1. /\ f[<<p[1] + 1, p[2] + 1>>] = g[<<p[1] + 1, p[2] + 1>>]
        /\ f[<<p[1] + 1, p[2]>>] = g[<<p[1] + 1, p[2]>>] /\ f[<<p[1], p[2] + 1>>] = g[<<p[1], p[2] + 1>>]
    BY <1>2, LessLeft
  <2> QED BY <2>1 DEF LcsAt
<1>3. p[1] \in Int /\ p[2] \in Int /\ Len(old) \in Int /\ Len(new) \in Int
  BY LessLeft
<1> QED BY <1>1, <1>2, <1>3

\* The table of common rests (compute_diff fills it from the back) is what its definition says.
LEMMA LcsIs ==
  ASSUME NEW E, NEW old \in Seq(E), NEW new \in Seq(E)
  PROVE  /\ LcsTable(old, new) \in [Places(old, new) -> Nat]
         /\ \A p \in Places(old, new) : LcsTable(old, new)[p] = LcsAt(old, new, LcsTable(old, new), p)
<1> DEFINE S == Places(old, new)
           D == [f \in [S -> Nat] |-> [p \in S |-> LcsAt(old, new, f, p)]]
           t == LcsTable(old, new)
<1>1. D \in [[S -> Nat] -> [S -> Nat]]
  <2>1. ASSUME NEW f \in [S -> Nat], NEW p \in S PROVE LcsAt(old, new, f, p) \in Nat
    BY LcsAtTyped
  <2> QED BY <2>1
<1>2. ASSUME NEW f \in [S -> Nat], NEW g \in [S -> Nat], NEW p \in S,
             \A q \in S : Left(old, new)[q] < Left(old, new)[p] => f[q] = g[q]
      PROVE  D[f][p] = D[g][p]
  BY <1>2, LcsAtLocal
<1>3. [p \in S |-> 0] \in [S -> Nat] /\ Len(old) + Len(new) \in Nat
  OBVIOUS
<1>4. Left(old, new) \in [S -> Nat] /\ \A p \in S : Left(old, new)[p] <= Len(old) + Len(new)
  BY LessLeft
<1>5. HasTable(S, Nat, D)
  <2>1. Measured(S, Left(old, new), Len(old) + Len(new))
    BY <1>3, <1>4 DEF Measured
  <2>2. LooksBack(S, Nat, Left(old, new), D)
    <3> HIDE DEF D, S
    <3> QED BY <1>1, <1>2 DEF LooksBack
  <2> DEFINE blank == [p \in S |-> 0]
  <2>3. blank \in [S -> Nat]
    BY <1>3
  <2> HIDE DEF D, S, blank
  <2> QED BY <2>1, <2>2, <2>3, TableExists
<1>6. \E f : f = [p \in S |-> LcsAt(old, new, f, p)]
  BY <1>5 DEF HasTable
<1>7. t = CHOOSE f : f = [p \in S |-> LcsAt(old, new, f, p)]
  BY DEF LcsTable, LcsAt, Places
<1>8. t = [p \in S |-> LcsAt(old, new, t, p)]
  <2> HIDE DEF t, S
  <2> QED BY <1>6, <1>7
<1>9. {p \in S : t[p] \in Nat} = S
  <2> DEFINE T == {p \in S : t[p] \in Nat}
  <2>1. ASSUME NEW p \in S, \A q \in S : Left(old, new)[q] < Left(old, new)[p] => q \in T PROVE p \in T
    <3>1. LcsAt(old, new, t, p) \in Nat
      BY <2>1, LcsAtTyped
    <3> QED BY <1>8, <3>1
  <2>2. T \in SUBSET S
    OBVIOUS
  <2>3. Inherited(S, Left(old, new), T)
    BY <2>1 DEF Inherited
  <2> HIDE DEF T, S, t
  <2>4. T = S
    BY <1>4, <2>2, <2>3, MeasureInduction
  <2> QED BY <2>4 DEF T
<1> QED
  <2> HIDE DEF t, S
  <2>1. t \in [S -> Nat]
    BY <1>8, <1>9
  <2> QED BY <1>8, <2>1 DEF t, S

-----------------------------------------------------------------------------
(* The walk's table satisfies its equation *)

Walks(E) == [removed : Seq(E), added : Seq(E)]
WalkAt(old, new, w, p) ==
  IF p[1] > Len(old) \/ p[2] > Len(new) THEN [removed |-> Rest(old, p[1]), added |-> Rest(new, p[2])]
  ELSE IF old[p[1]] = new[p[2]] THEN w[<<p[1] + 1, p[2] + 1>>]
  ELSE IF DropsOld(LcsTable(old, new), p[1], p[2])
       THEN [w[<<p[1] + 1, p[2]>>] EXCEPT !.removed = <<old[p[1]]>> \o @]
       ELSE [w[<<p[1], p[2] + 1>>] EXCEPT !.added = <<new[p[2]]>> \o @]

\* One line more is told as gone, or as come.
LEMMA WalkMore ==
  ASSUME NEW E, NEW x \in Walks(E), NEW y \in E
  PROVE  /\ [x EXCEPT !.removed = <<y>> \o @] \in Walks(E)
         /\ [x EXCEPT !.removed = <<y>> \o @].removed = <<y>> \o x.removed
         /\ [x EXCEPT !.removed = <<y>> \o @].added = x.added
         /\ [x EXCEPT !.added = <<y>> \o @] \in Walks(E)
         /\ [x EXCEPT !.added = <<y>> \o @].added = <<y>> \o x.added
         /\ [x EXCEPT !.added = <<y>> \o @].removed = x.removed
<1>1. x.removed \in Seq(E) /\ x.added \in Seq(E)
  BY DEF Walks
<1>2. <<y>> \o x.removed \in Seq(E) /\ <<y>> \o x.added \in Seq(E)
  BY <1>1
<1> QED BY <1>1, <1>2 DEF Walks

\* What is told at a place is a pair of pages when what is told further on is.
LEMMA WalkAtTyped ==
  ASSUME NEW E, NEW old \in Seq(E), NEW new \in Seq(E), NEW w, NEW p \in Places(old, new),
         \A q \in Places(old, new) : Left(old, new)[q] < Left(old, new)[p] => w[q] \in Walks(E)
  PROVE  WalkAt(old, new, w, p) \in Walks(E)
<1>0. p[1] \in 1..Len(old) + 1 /\ p[2] \in 1..Len(new) + 1 /\ Len(old) \in Int /\ Len(new) \in Int
  BY LessLeft
<1>1. CASE p[1] > Len(old) \/ p[2] > Len(new)
  <2>1. Rest(old, p[1]) \in Seq(E) /\ Rest(new, p[2]) \in Seq(E)
    BY <1>0, RestIs
  <2> QED BY <1>1, <2>1 DEF WalkAt, Walks
<1>2. CASE p[1] <= Len(old) /\ p[2] <= Len(new)
  <2>1. /\ w[<<p[1] + 1, p[2] + 1>>] \in Walks(E)
        /\ w[<<p[1] + 1, p[2]>>] \in Walks(E) /\ w[<<p[1], p[2] + 1>>] \in Walks(E)
    BY <1>2, LessLeft
  <2>2. old[p[1]] \in E /\ new[p[2]] \in E
    BY <1>0, <1>2
  <2>3. /\ [w[<<p[1] + 1, p[2]>>] EXCEPT !.removed = <<old[p[1]]>> \o @] \in Walks(E)
        /\ [w[<<p[1], p[2] + 1>>] EXCEPT !.added = <<new[p[2]]>> \o @] \in Walks(E)
    BY <2>1, <2>2, WalkMore
  <2>4. ~(p[1] > Len(old) \/ p[2] > Len(new))
    BY <1>0, <1>2
  <2> QED BY <2>1, <2>3, <2>4, Zenon DEF WalkAt
<1> QED BY <1>0, <1>1, <1>2

\* What is told at a place rests only on what is told further on.
LEMMA WalkAtLocal ==
  ASSUME NEW E, NEW old \in Seq(E), NEW new \in Seq(E), NEW f, NEW g, NEW p \in Places(old, new),
         \A q \in Places(old, new) : Left(old, new)[q] < Left(old, new)[p] => f[q] = g[q]
  PROVE  WalkAt(old, new, f, p) = WalkAt(old, new, g, p)
<1>1. CASE p[1] > Len(old) \/ p[2] > Len(new)
  BY <1>1 DEF WalkAt
<1>2. CASE p[1] <= Len(old) /\ p[2] <= Len(new)
  <2>1. /\ f[<<p[1] + 1, p[2] + 1>>] = g[<<p[1] + 1, p[2] + 1>>]
        /\ f[<<p[1] + 1, p[2]>>] = g[<<p[1] + 1, p[2]>>] /\ f[<<p[1], p[2] + 1>>] = g[<<p[1], p[2] + 1>>]
    BY <1>2, LessLeft
  <2> QED BY <2>1, Zenon DEF WalkAt
<1>3. p[1] \in Int /\ p[2] \in Int /\ Len(old) \in Int /\ Len(new) \in Int
  BY LessLeft
<1> QED BY <1>1, <1>2, <1>3

WalkTable(E, old, new, w) ==
  /\ \A p \in Places(old, new) : w[p] \in Walks(E) /\ w[p] = WalkAt(old, new, w, p)
  /\ Walk(old, new) = w[<<1, 1>>]

\* The walk over the table is what its definition says.
LEMMA WalkIs ==
  ASSUME NEW E, NEW old \in Seq(E), NEW new \in Seq(E)
  PROVE  \E w : WalkTable(E, old, new, w)
<1> DEFINE S == Places(old, new)
           V == Walks(E)
           D == [f \in [S -> V] |-> [p \in S |-> WalkAt(old, new, f, p)]]
           blank == [p \in S |-> [removed |-> << >>, added |-> << >>]]
           w == CHOOSE f : f = [p \in S |-> WalkAt(old, new, f, p)]
<1>1. D \in [[S -> V] -> [S -> V]]
  <2>1. ASSUME NEW f \in [S -> V], NEW p \in S PROVE WalkAt(old, new, f, p) \in V
    <3>1. \A q \in S : f[q] \in V
      OBVIOUS
    <3> QED BY <3>1, WalkAtTyped
  <2> HIDE DEF S, V
  <2> QED BY <2>1
<1>2. ASSUME NEW f \in [S -> V], NEW g \in [S -> V], NEW p \in S,
             \A q \in S : Left(old, new)[q] < Left(old, new)[p] => f[q] = g[q]
      PROVE  D[f][p] = D[g][p]
  <2>1. WalkAt(old, new, f, p) = WalkAt(old, new, g, p)
    BY <1>2, WalkAtLocal
  <2> HIDE DEF S, V
  <2> QED BY <2>1
<1>3. blank \in [S -> V] /\ Len(old) + Len(new) \in Nat
  <2>1. [removed |-> << >>, added |-> << >>] \in V
    BY DEF Walks
  <2> HIDE DEF S, V
  <2> QED BY <2>1
<1>4. Left(old, new) \in [S -> Nat] /\ \A p \in S : Left(old, new)[p] <= Len(old) + Len(new)
  BY LessLeft
<1>5. HasTable(S, V, D)
  <2>1. Measured(S, Left(old, new), Len(old) + Len(new))
    BY <1>3, <1>4 DEF Measured
  <2> HIDE DEF D, S, V, blank
  <2>2. LooksBack(S, V, Left(old, new), D)
    BY <1>1, <1>2 DEF LooksBack
  <2> QED BY <1>3, <2>1, <2>2, TableExists
<1>6. \E f : f = [p \in S |-> WalkAt(old, new, f, p)]
  <2> HIDE DEF S, V
  <2> QED BY <1>5 DEF HasTable
<1>7. w = [p \in S |-> WalkAt(old, new, w, p)]
  <2> HIDE DEF S
  <2> QED BY <1>6
<1>8. Walk(old, new) = w[<<1, 1>>]
  BY DEF Walk, WalkAt, Places, Rest
<1> HIDE DEF w, S, V
<1>9. {p \in S : w[p] \in V} = S
  <2> DEFINE T == {p \in S : w[p] \in V}
  <2>1. ASSUME NEW p \in S, \A q \in S : Left(old, new)[q] < Left(old, new)[p] => q \in T PROVE p \in T
    <3>1. \A q \in S : Left(old, new)[q] < Left(old, new)[p] => w[q] \in V
      BY <2>1
    <3>2. WalkAt(old, new, w, p) \in V
      BY <3>1, WalkAtTyped DEF S, V
    <3> QED BY <1>7, <3>2
  <2>2. T \in SUBSET S
    OBVIOUS
  <2>3. Inherited(S, Left(old, new), T)
    BY <2>1 DEF Inherited
  <2> HIDE DEF T
  <2>4. T = S
    BY <1>4, <2>2, <2>3, MeasureInduction
  <2> QED BY <2>4 DEF T
<1>10. \A p \in S : w[p] \in V /\ w[p] = WalkAt(old, new, w, p)
  BY <1>7, <1>9
<1> QED BY <1>8, <1>10 DEF S, V, WalkTable

-----------------------------------------------------------------------------
(* The table of pairs satisfies its equation *)

Pairings(E) == [removed : Seq(E), added : Seq(E), modified : Seq(E \X E)]
PairAt(r, a, w, p) ==
  IF p[1] > Len(r) \/ p[2] > Len(a)
  THEN [removed |-> Rest(r, p[1]), added |-> Rest(a, p[2]), modified |-> << >>]
  ELSE IF <<r[p[1]], a[p[2]]>> \in Alike
  THEN [w[<<p[1] + 1, p[2] + 1>>] EXCEPT !.modified = <<<<r[p[1]], a[p[2]]>>>> \o @]
  ELSE IF Length[a[p[2]]] > Length[r[p[1]]]
  THEN [w[<<p[1], p[2] + 1>>] EXCEPT !.added = <<a[p[2]]>> \o @]
  ELSE [w[<<p[1] + 1, p[2]>>] EXCEPT !.removed = <<r[p[1]]>> \o @]

\* One line more is told as gone, as come, or as changed.
LEMMA PairMore ==
  ASSUME NEW E, NEW x \in Pairings(E), NEW y \in E, NEW z \in E \X E
  PROVE  /\ [x EXCEPT !.removed = <<y>> \o @] \in Pairings(E)
         /\ [x EXCEPT !.removed = <<y>> \o @].removed = <<y>> \o x.removed
         /\ [x EXCEPT !.removed = <<y>> \o @].added = x.added
         /\ [x EXCEPT !.removed = <<y>> \o @].modified = x.modified
         /\ [x EXCEPT !.added = <<y>> \o @] \in Pairings(E)
         /\ [x EXCEPT !.added = <<y>> \o @].added = <<y>> \o x.added
         /\ [x EXCEPT !.added = <<y>> \o @].removed = x.removed
         /\ [x EXCEPT !.added = <<y>> \o @].modified = x.modified
         /\ [x EXCEPT !.modified = <<z>> \o @] \in Pairings(E)
         /\ [x EXCEPT !.modified = <<z>> \o @].modified = <<z>> \o x.modified
         /\ [x EXCEPT !.modified = <<z>> \o @].removed = x.removed
         /\ [x EXCEPT !.modified = <<z>> \o @].added = x.added
<1>1. x.removed \in Seq(E) /\ x.added \in Seq(E) /\ x.modified \in Seq(E \X E)
  BY DEF Pairings
<1>2. <<y>> \o x.removed \in Seq(E) /\ <<y>> \o x.added \in Seq(E) /\ <<z>> \o x.modified \in Seq(E \X E)
  BY <1>1
<1>3. [x EXCEPT !.removed = <<y>> \o @] \in Pairings(E)
  BY <1>1, <1>2 DEF Pairings
<1>4. [x EXCEPT !.added = <<y>> \o @] \in Pairings(E)
  BY <1>1, <1>2 DEF Pairings
<1>5. [x EXCEPT !.modified = <<z>> \o @] \in Pairings(E)
  BY <1>1, <1>2 DEF Pairings
<1>6. DOMAIN x = {"removed", "added", "modified"}
  BY DEF Pairings
<1> QED BY <1>3, <1>4, <1>5, <1>6

\* What is paired from a place on is a report when what is paired further on is.
LEMMA PairAtTyped ==
  ASSUME NEW E, NEW r \in Seq(E), NEW a \in Seq(E), NEW w, NEW p \in Places(r, a),
         \A q \in Places(r, a) : Left(r, a)[q] < Left(r, a)[p] => w[q] \in Pairings(E)
  PROVE  PairAt(r, a, w, p) \in Pairings(E)
<1>0. p[1] \in 1..Len(r) + 1 /\ p[2] \in 1..Len(a) + 1 /\ Len(r) \in Int /\ Len(a) \in Int
  BY LessLeft
<1>1. CASE p[1] > Len(r) \/ p[2] > Len(a)
  <2>1. Rest(r, p[1]) \in Seq(E) /\ Rest(a, p[2]) \in Seq(E)
    BY <1>0, RestIs
  <2>2. << >> \in Seq(E \X E)
    OBVIOUS
  <2> QED BY <1>1, <2>1, <2>2 DEF PairAt, Pairings
<1>2. CASE p[1] <= Len(r) /\ p[2] <= Len(a)
  <2>1. /\ w[<<p[1] + 1, p[2] + 1>>] \in Pairings(E)
        /\ w[<<p[1] + 1, p[2]>>] \in Pairings(E) /\ w[<<p[1], p[2] + 1>>] \in Pairings(E)
    BY <1>2, LessLeft
  <2>2. r[p[1]] \in E /\ a[p[2]] \in E /\ <<r[p[1]], a[p[2]]>> \in E \X E
    BY <1>0, <1>2
  <2>3. /\ [w[<<p[1] + 1, p[2] + 1>>] EXCEPT !.modified = <<<<r[p[1]], a[p[2]]>>>> \o @] \in Pairings(E)
        /\ [w[<<p[1], p[2] + 1>>] EXCEPT !.added = <<a[p[2]]>> \o @] \in Pairings(E)
        /\ [w[<<p[1] + 1, p[2]>>] EXCEPT !.removed = <<r[p[1]]>> \o @] \in Pairings(E)
    BY <2>1, <2>2, PairMore
  <2>4. ~(p[1] > Len(r) \/ p[2] > Len(a))
    BY <1>0, <1>2
  <2> QED BY <2>3, <2>4, Zenon DEF PairAt
<1> QED BY <1>0, <1>1, <1>2

\* What is paired from a place on rests only on what is paired further on.
LEMMA PairAtLocal ==
  ASSUME NEW E, NEW r \in Seq(E), NEW a \in Seq(E), NEW f, NEW g, NEW p \in Places(r, a),
         \A q \in Places(r, a) : Left(r, a)[q] < Left(r, a)[p] => f[q] = g[q]
  PROVE  PairAt(r, a, f, p) = PairAt(r, a, g, p)
<1>1. CASE p[1] > Len(r) \/ p[2] > Len(a)
  BY <1>1 DEF PairAt
<1>2. CASE p[1] <= Len(r) /\ p[2] <= Len(a)
  <2>1. /\ f[<<p[1] + 1, p[2] + 1>>] = g[<<p[1] + 1, p[2] + 1>>]
        /\ f[<<p[1] + 1, p[2]>>] = g[<<p[1] + 1, p[2]>>] /\ f[<<p[1], p[2] + 1>>] = g[<<p[1], p[2] + 1>>]
    BY <1>2, LessLeft
  <2> QED BY <2>1, Zenon DEF PairAt
<1>3. p[1] \in Int /\ p[2] \in Int /\ Len(r) \in Int /\ Len(a) \in Int
  BY LessLeft
<1> QED BY <1>1, <1>2, <1>3

PairTable(E, walk, w) ==
  /\ \A p \in Places(walk.removed, walk.added) :
       w[p] \in Pairings(E) /\ w[p] = PairAt(walk.removed, walk.added, w, p)
  /\ Pair(walk) = w[<<1, 1>>]

\* The walk that sets lines side by side (pair_changes) is what its definition says.
LEMMA PairIs ==
  ASSUME NEW E, NEW walk \in Walks(E)
  PROVE  \E w : PairTable(E, walk, w)
<1> DEFINE r == walk.removed
           a == walk.added
           S == Places(r, a)
           V == Pairings(E)
           D == [f \in [S -> V] |-> [p \in S |-> PairAt(r, a, f, p)]]
           blank == [p \in S |-> [removed |-> << >>, added |-> << >>, modified |-> << >>]]
           w == CHOOSE f : f = [p \in S |-> PairAt(r, a, f, p)]
<1>1. r \in Seq(E) /\ a \in Seq(E)
  BY DEF Walks
<1>2. Pair(walk) = w[<<1, 1>>]
  BY DEF Pair, PairAt, Places, Rest
<1> HIDE DEF r, a
<1>3. D \in [[S -> V] -> [S -> V]]
  <2>1. ASSUME NEW f \in [S -> V], NEW p \in S PROVE PairAt(r, a, f, p) \in V
    <3>1. \A q \in S : f[q] \in V
      OBVIOUS
    <3> QED BY <1>1, <3>1, PairAtTyped
  <2> HIDE DEF S, V
  <2> QED BY <2>1
<1>4. ASSUME NEW f \in [S -> V], NEW g \in [S -> V], NEW p \in S,
             \A q \in S : Left(r, a)[q] < Left(r, a)[p] => f[q] = g[q]
      PROVE  D[f][p] = D[g][p]
  <2>1. PairAt(r, a, f, p) = PairAt(r, a, g, p)
    BY <1>1, <1>4, PairAtLocal
  <2> HIDE DEF S, V
  <2> QED BY <2>1
<1>5. blank \in [S -> V] /\ Len(r) + Len(a) \in Nat
  <2>1. [removed |-> << >>, added |-> << >>, modified |-> << >>] \in V
    BY DEF Pairings
  <2> HIDE DEF S, V
  <2> QED BY <1>1, <2>1
<1>6. Left(r, a) \in [S -> Nat] /\ \A p \in S : Left(r, a)[p] <= Len(r) + Len(a)
  BY <1>1, LessLeft
<1>7. HasTable(S, V, D)
  <2>1. Measured(S, Left(r, a), Len(r) + Len(a))
    BY <1>5, <1>6 DEF Measured
  <2> HIDE DEF D, S, V, blank
  <2>2. LooksBack(S, V, Left(r, a), D)
    BY <1>3, <1>4 DEF LooksBack
  <2> QED BY <1>5, <2>1, <2>2, TableExists
<1>8. \E f : f = [p \in S |-> PairAt(r, a, f, p)]
  <2> HIDE DEF S, V
  <2> QED BY <1>7 DEF HasTable
<1>9. w = [p \in S |-> PairAt(r, a, w, p)]
  <2> HIDE DEF S
  <2> QED BY <1>8
<1> HIDE DEF w, S, V
<1>10. {p \in S : w[p] \in V} = S
  <2> DEFINE T == {p \in S : w[p] \in V}
  <2>1. ASSUME NEW p \in S, \A q \in S : Left(r, a)[q] < Left(r, a)[p] => q \in T PROVE p \in T
    <3>1. \A q \in S : Left(r, a)[q] < Left(r, a)[p] => w[q] \in V
      BY <2>1
    <3>2. PairAt(r, a, w, p) \in V
      BY <1>1, <3>1, PairAtTyped DEF S, V
    <3> QED BY <1>9, <3>2
  <2>2. T \in SUBSET S
    OBVIOUS
  <2>3. Inherited(S, Left(r, a), T)
    BY <2>1 DEF Inherited
  <2> HIDE DEF T
  <2>4. T = S
    BY <1>6, <2>2, <2>3, MeasureInduction
  <2> QED BY <2>4 DEF T
<1>11. \A p \in S : w[p] \in V /\ w[p] = PairAt(r, a, w, p)
  BY <1>9, <1>10
<1> QED BY <1>2, <1>11 DEF S, V, r, a, PairTable

-----------------------------------------------------------------------------
(* The table counts the most that two rests can keep of each other *)

KeptOf(old, new, i, j) == {m \in Matchings(old, new) : \A p \in m : p[1] >= i /\ p[2] >= j}

\* What a matching of two rests is made of.
LEMMA KeptIs ==
  ASSUME NEW E, NEW old \in Seq(E), NEW new \in Seq(E), NEW i \in Int, NEW j \in Int,
         NEW m \in KeptOf(old, new, i, j)
  PROVE  /\ \A q \in m : /\ q = <<q[1], q[2]>> /\ q[1] \in 1..Len(old) /\ q[2] \in 1..Len(new)
                         /\ q[1] \in Int /\ q[2] \in Int
                         /\ old[q[1]] = new[q[2]] /\ q[1] >= i /\ q[2] >= j
         /\ \A p, q \in m : p[1] < q[1] <=> p[2] < q[2]
<1>1. m \in SUBSET {p \in (DOMAIN old) \X (DOMAIN new) : old[p[1]] = new[p[2]]}
  BY DEF KeptOf, Matchings
<1>2. \A p, q \in m : p[1] < q[1] <=> p[2] < q[2]
  BY DEF KeptOf, Matchings
<1>3. ASSUME NEW q \in m
      PROVE  /\ q = <<q[1], q[2]>> /\ q[1] \in 1..Len(old) /\ q[2] \in 1..Len(new)
             /\ q[1] \in Int /\ q[2] \in Int
             /\ old[q[1]] = new[q[2]] /\ q[1] >= i /\ q[2] >= j
  <2>1. q \in (DOMAIN old) \X (DOMAIN new) /\ old[q[1]] = new[q[2]]
    BY <1>1
  <2>2. q = <<q[1], q[2]>> /\ q[1] \in 1..Len(old) /\ q[2] \in 1..Len(new)
    BY <2>1
  <2>3. q[1] >= i /\ q[2] >= j
    BY DEF KeptOf
  <2> QED BY <2>1, <2>2, <2>3
<1> QED BY <1>2, <1>3

\* A part of a matching that lies further on is a matching of what lies there.
LEMMA KeptPart ==
  ASSUME NEW E, NEW old \in Seq(E), NEW new \in Seq(E), NEW i \in Int, NEW j \in Int,
         NEW m \in KeptOf(old, new, i, j), NEW n \in SUBSET m, NEW k \in Int, NEW l \in Int,
         \A q \in n : q[1] >= k /\ q[2] >= l
  PROVE  n \in KeptOf(old, new, k, l)
<1>1. n \in SUBSET {p \in (DOMAIN old) \X (DOMAIN new) : old[p[1]] = new[p[2]]}
  BY DEF KeptOf, Matchings
<1>2. \A p, q \in n : p[1] < q[1] <=> p[2] < q[2]
  BY DEF KeptOf, Matchings
<1> QED BY <1>1, <1>2, Zenon DEF KeptOf, Matchings

\* A matching of two rests is one of any longer rests.
LEMMA KeptBehind ==
  ASSUME NEW E, NEW old \in Seq(E), NEW new \in Seq(E), NEW i \in Int, NEW j \in Int,
         NEW k \in Int, NEW l \in Int, i <= k, j <= l, NEW m \in KeptOf(old, new, k, l)
  PROVE  m \in KeptOf(old, new, i, j)
<1>1. \A q \in m : q[1] \in Int /\ q[2] \in Int /\ q[1] >= k /\ q[2] >= l
  BY KeptIs
<1>2. \A q \in m : q[1] >= i /\ q[2] >= j
  BY <1>1
<1> QED BY <1>2, Zenon DEF KeptOf

AtMostOneMore(m, n) == m = n \/ \E q : m = n \cup {q}

\* Of equal heads a matching uses at most one pair, and the rest lies behind both.
LEMMA EqualHeads ==
  ASSUME NEW E, NEW old \in Seq(E), NEW new \in Seq(E), NEW i \in Int, NEW j \in Int,
         NEW m \in KeptOf(old, new, i, j)
  PROVE  \E n \in KeptOf(old, new, i + 1, j + 1) : AtMostOneMore(m, n)
<1> DEFINE hits == {q \in m : q[1] = i \/ q[2] = j}
           n == m \ hits
<1>1. /\ \A q \in m : /\ q = <<q[1], q[2]>> /\ q[1] \in Int /\ q[2] \in Int /\ q[1] >= i /\ q[2] >= j
      /\ \A p, q \in m : p[1] < q[1] <=> p[2] < q[2]
  BY KeptIs
<1>2. n \in KeptOf(old, new, i + 1, j + 1)
  <2>1. n \in SUBSET m /\ i + 1 \in Int /\ j + 1 \in Int
    OBVIOUS
  <2>2. \A q \in n : q[1] >= i + 1 /\ q[2] >= j + 1
    BY <1>1
  <2> HIDE DEF n
  <2> QED BY <2>1, <2>2, KeptPart
<1>3. ASSUME NEW p \in hits, NEW q \in hits PROVE p = q
  <2>1. p[1] = q[1] /\ p[2] = q[2]
    BY <1>1
  <2> QED BY <1>1, <2>1, Zenon
<1>4. m = n \/ \E q : m = n \cup {q}
  <2>1. CASE hits = {}
    BY <2>1
  <2>2. ASSUME NEW q \in hits PROVE m = n \cup {q}
    BY <1>3
  <2> QED BY <2>1, <2>2
<1> QED BY <1>2, <1>4 DEF AtMostOneMore

\* Of heads that differ a matching leaves one of the two alone.
LEMMA OtherHeads ==
  ASSUME NEW E, NEW old \in Seq(E), NEW new \in Seq(E), NEW i \in Int, NEW j \in Int,
         old[i] # new[j], NEW m \in KeptOf(old, new, i, j)
  PROVE  m \in KeptOf(old, new, i + 1, j) \/ m \in KeptOf(old, new, i, j + 1)
<1>1. /\ \A q \in m : /\ q[1] \in Int /\ q[2] \in Int /\ q[1] >= i /\ q[2] >= j /\ old[q[1]] = new[q[2]]
      /\ \A p, q \in m : p[1] < q[1] <=> p[2] < q[2]
  BY KeptIs
<1>2. \A q \in m : ~(q[1] = i /\ q[2] = j)
  BY <1>1
<1>3. m \in SUBSET m /\ i + 1 \in Int /\ j + 1 \in Int
  OBVIOUS
<1>4. CASE \A q \in m : q[1] # i
  <2>1. \A q \in m : q[1] >= i + 1 /\ q[2] >= j
    BY <1>1, <1>4
  <2> QED BY <1>3, <2>1, KeptPart
<1>5. ASSUME NEW p \in m, p[1] = i PROVE m \in KeptOf(old, new, i, j + 1)
  <2>1. ASSUME NEW q \in m PROVE q[1] >= i /\ q[2] >= j + 1
    <3>1. p[2] > j
      BY <1>1, <1>2, <1>5
    <3>2. q[2] # j
      BY <1>1, <1>2, <1>5, <3>1
    <3> QED BY <1>1, <3>2
  <2> QED BY <1>3, <2>1, KeptPart
<1> QED BY <1>4, <1>5

\* What the table says at a place, by what it says further on.
LcsStep(old, new, t, i, j) ==
  /\ t[<<i, j>>] \in Nat
  /\ i > Len(old) \/ j > Len(new) => t[<<i, j>>] = 0
  /\ i <= Len(old) /\ j <= Len(new) =>
       /\ i \in 1..Len(old) /\ j \in 1..Len(new)
       /\ i + 1 \in 1..Len(old) + 1 /\ j + 1 \in 1..Len(new) + 1
       /\ t[<<i + 1, j + 1>>] \in Nat /\ t[<<i + 1, j>>] \in Nat /\ t[<<i, j + 1>>] \in Nat
       /\ old[i] = new[j] => t[<<i, j>>] = t[<<i + 1, j + 1>>] + 1
       /\ old[i] # new[j] /\ DropsOld(t, i, j) => t[<<i, j>>] = t[<<i + 1, j>>]
       /\ old[i] # new[j] /\ ~DropsOld(t, i, j) => t[<<i, j>>] = t[<<i, j + 1>>]
       /\ old[i] # new[j] => t[<<i, j>>] >= t[<<i + 1, j>>] /\ t[<<i, j>>] >= t[<<i, j + 1>>]

\* The table has these entries.
LEMMA LcsSteps ==
  ASSUME NEW E, NEW old \in Seq(E), NEW new \in Seq(E),
         NEW i \in 1..Len(old) + 1, NEW j \in 1..Len(new) + 1
  PROVE  LcsStep(old, new, LcsTable(old, new), i, j)
<1> DEFINE t == LcsTable(old, new)
           p == <<i, j>>
<1>1. p \in Places(old, new) /\ p[1] = i /\ p[2] = j /\ Len(old) \in Int /\ Len(new) \in Int
  BY DEF Places
<1>2. t \in [Places(old, new) -> Nat] /\ t[p] = LcsAt(old, new, t, p)
  BY <1>1, LcsIs
<1> HIDE DEF t
<1>3. t[p] \in Nat
  BY <1>1, <1>2
<1>4. ASSUME i > Len(old) \/ j > Len(new) PROVE t[p] = 0
  BY <1>2, <1>4 DEF LcsAt
<1>5. ASSUME i <= Len(old), j <= Len(new)
      PROVE  /\ i \in 1..Len(old) /\ j \in 1..Len(new)
             /\ i + 1 \in 1..Len(old) + 1 /\ j + 1 \in 1..Len(new) + 1
             /\ t[<<i + 1, j + 1>>] \in Nat /\ t[<<i + 1, j>>] \in Nat /\ t[<<i, j + 1>>] \in Nat
             /\ old[i] = new[j] => t[p] = t[<<i + 1, j + 1>>] + 1
             /\ old[i] # new[j] /\ DropsOld(t, i, j) => t[p] = t[<<i + 1, j>>]
             /\ old[i] # new[j] /\ ~DropsOld(t, i, j) => t[p] = t[<<i, j + 1>>]
             /\ old[i] # new[j] => t[p] >= t[<<i + 1, j>>] /\ t[p] >= t[<<i, j + 1>>]
  <2>1. i \in 1..Len(old) /\ j \in 1..Len(new) /\ i + 1 \in 1..Len(old) + 1 /\ j + 1 \in 1..Len(new) + 1
    BY <1>1, <1>5
  <2>2. /\ <<i + 1, j + 1>> \in Places(old, new)
        /\ <<i + 1, j>> \in Places(old, new) /\ <<i, j + 1>> \in Places(old, new)
    BY <2>1 DEF Places
  <2>3. t[<<i + 1, j + 1>>] \in Nat /\ t[<<i + 1, j>>] \in Nat /\ t[<<i, j + 1>>] \in Nat
    BY <1>2, <2>2
  <2>4. ~(i > Len(old) \/ j > Len(new))
    BY <1>1, <1>5
  <2>5. t[p] = IF old[i] = new[j] THEN t[<<i + 1, j + 1>>] + 1 ELSE Max({t[<<i + 1, j>>], t[<<i, j + 1>>]})
    BY <1>1, <1>2, <2>4 DEF LcsAt
  <2>6. Max({t[<<i + 1, j>>], t[<<i, j + 1>>]}) =
          IF t[<<i + 1, j>>] >= t[<<i, j + 1>>] THEN t[<<i + 1, j>>] ELSE t[<<i, j + 1>>]
    BY <2>3, MaxOfTwo
  <2> QED BY <2>1, <2>3, <2>5, <2>6 DEF DropsOld
<1> QED BY <1>3, <1>4, <1>5 DEF t, LcsStep

\* No matching of two rests is larger than the table says.
LEMMA NoMoreKept ==
  ASSUME NEW E, NEW old \in Seq(E), NEW new \in Seq(E), NEW z \in Places(old, new),
         NEW k \in KeptOf(old, new, z[1], z[2])
  PROVE  IsFiniteSet(k) /\ Cardinality(k) <= LcsTable(old, new)[z]
<1> DEFINE S == Places(old, new)
           t == LcsTable(old, new)
           Bounded(p) == \A m \in KeptOf(old, new, p[1], p[2]) : IsFiniteSet(m) /\ Cardinality(m) <= t[p]
           T == {p \in S : Bounded(p)}
<1>1. ASSUME NEW p \in S, \A q \in S : Left(old, new)[q] < Left(old, new)[p] => q \in T PROVE Bounded(p)
  <2> SUFFICES ASSUME NEW m \in KeptOf(old, new, p[1], p[2]) PROVE IsFiniteSet(m) /\ Cardinality(m) <= t[p]
    OBVIOUS
  <2>1. PICK i \in Int, j \in Int : p = <<i, j>> /\ i \in 1..Len(old) + 1 /\ j \in 1..Len(new) + 1
    BY DEF Places
  <2>2. i \in Int /\ j \in Int /\ m \in KeptOf(old, new, i, j) /\ Len(old) \in Int /\ Len(new) \in Int
    BY <2>1
  <2>3. LcsStep(old, new, t, i, j)
    BY <2>1, LcsSteps
  <2>4. CASE i > Len(old) \/ j > Len(new)
    <3>1. \A q \in m : q[1] \in 1..Len(old) /\ q[2] \in 1..Len(new) /\ q[1] >= i /\ q[2] >= j
      BY <2>2, KeptIs
    <3>2. m = {}
      BY <2>2, <2>4, <3>1
    <3>3. t[p] = 0
      BY <2>1, <2>4, <2>3 DEF LcsStep
    <3> QED BY <3>2, <3>3, FS_EmptySet
  <2>5. CASE i <= Len(old) /\ j <= Len(new)
    <3>1. Bounded(<<i + 1, j + 1>>) /\ Bounded(<<i + 1, j>>) /\ Bounded(<<i, j + 1>>)
      <4>1. <<i + 1, j + 1>> \in T /\ <<i + 1, j>> \in T /\ <<i, j + 1>> \in T
        <5> HIDE DEF T
        <5>1. p[1] = i /\ p[2] = j
          BY <2>1
        <5> QED BY <1>1, <2>5, <5>1, LessLeft
      <4> QED BY <4>1
    <3>2. t[<<i + 1, j + 1>>] \in Nat /\ t[<<i + 1, j>>] \in Nat /\ t[<<i, j + 1>>] \in Nat /\ t[p] \in Nat
      BY <2>1, <2>5, <2>3 DEF LcsStep
    <3>3. CASE old[i] = new[j]
      <4>1. PICK n \in KeptOf(old, new, i + 1, j + 1) : AtMostOneMore(m, n)
        BY <2>2, EqualHeads
      <4>2. IsFiniteSet(n) /\ Cardinality(n) <= t[<<i + 1, j + 1>>] /\ Cardinality(n) \in Nat
        BY <3>1, FS_CardinalityType
      <4>3. t[p] = t[<<i + 1, j + 1>>] + 1
        BY <2>1, <2>5, <3>3, <2>3 DEF LcsStep
      <4> HIDE DEF t
      <4>4. CASE m = n
        BY <3>2, <4>2, <4>3, <4>4
      <4>5. ASSUME NEW q, m = n \cup {q} PROVE IsFiniteSet(m) /\ Cardinality(m) <= t[p]
        <5>1. IsFiniteSet(m) /\ (Cardinality(m) = Cardinality(n) \/ Cardinality(m) = Cardinality(n) + 1)
          BY <4>2, <4>5, FS_AddElement
        <5> QED BY <3>2, <4>2, <4>3, <5>1
      <4> QED BY <4>1, <4>4, <4>5 DEF AtMostOneMore
    <3>4. CASE old[i] # new[j]
      <4>1. m \in KeptOf(old, new, i + 1, j) \/ m \in KeptOf(old, new, i, j + 1)
        BY <2>2, <3>4, OtherHeads
      <4>2. t[p] >= t[<<i + 1, j>>] /\ t[p] >= t[<<i, j + 1>>]
        BY <2>1, <2>5, <3>4, <2>3 DEF LcsStep
      <4>3. IsFiniteSet(m) /\ (Cardinality(m) <= t[<<i + 1, j>>] \/ Cardinality(m) <= t[<<i, j + 1>>])
        BY <3>1, <4>1
      <4>4. Cardinality(m) \in Nat
        BY <4>3, FS_CardinalityType
      <4> HIDE DEF t
      <4> QED BY <3>2, <4>2, <4>3, <4>4
    <3> QED BY <3>3, <3>4
  <2> QED BY <2>2, <2>4, <2>5
<1>2. T = S
  <2>1. T \in SUBSET S /\ Left(old, new) \in [S -> Nat]
    BY LessLeft
  <2>2. Inherited(S, Left(old, new), T)
    BY <1>1 DEF Inherited
  <2> HIDE DEF T, S
  <2> QED BY <2>1, <2>2, MeasureInduction
<1>3. Bounded(z)
  BY <1>2
<1> QED BY <1>3

\* And one is as large.
LEMMA AsManyKept ==
  ASSUME NEW E, NEW old \in Seq(E), NEW new \in Seq(E), NEW z \in Places(old, new)
  PROVE  \E k \in KeptOf(old, new, z[1], z[2]) : IsFiniteSet(k) /\ Cardinality(k) = LcsTable(old, new)[z]
<1> DEFINE S == Places(old, new)
           t == LcsTable(old, new)
           Reached(p) == \E m \in KeptOf(old, new, p[1], p[2]) : IsFiniteSet(m) /\ Cardinality(m) = t[p]
           T == {p \in S : Reached(p)}
<1>1. ASSUME NEW p \in S, \A q \in S : Left(old, new)[q] < Left(old, new)[p] => q \in T PROVE Reached(p)
  <2>1. PICK i \in Int, j \in Int : p = <<i, j>> /\ i \in 1..Len(old) + 1 /\ j \in 1..Len(new) + 1
    BY DEF Places
  <2>2. i \in Int /\ j \in Int /\ Len(old) \in Int /\ Len(new) \in Int /\ p[1] = i /\ p[2] = j
    BY <2>1
  <2>3. LcsStep(old, new, t, i, j)
    BY <2>1, LcsSteps
  <2>4. CASE i > Len(old) \/ j > Len(new)
    <3>1. {} \in KeptOf(old, new, i, j)
      BY DEF KeptOf, Matchings
    <3>2. t[p] = 0
      BY <2>1, <2>4, <2>3 DEF LcsStep
    <3> QED BY <2>2, <3>1, <3>2, FS_EmptySet
  <2>5. CASE i <= Len(old) /\ j <= Len(new)
    <3>1. Reached(<<i + 1, j + 1>>) /\ Reached(<<i + 1, j>>) /\ Reached(<<i, j + 1>>)
      <4>1. <<i + 1, j + 1>> \in T /\ <<i + 1, j>> \in T /\ <<i, j + 1>> \in T
        <5> HIDE DEF T
        <5> QED BY <1>1, <2>2, <2>5, LessLeft
      <4> QED BY <4>1
    <3>3. CASE old[i] = new[j]
      <4>1. PICK n \in KeptOf(old, new, i + 1, j + 1) : IsFiniteSet(n) /\ Cardinality(n) = t[<<i + 1, j + 1>>]
        BY <3>1
      <4> DEFINE m == n \cup {<<i, j>>}
      <4>2. /\ \A q \in n : /\ q[1] \in Int /\ q[2] \in Int /\ q[1] >= i + 1 /\ q[2] >= j + 1
            /\ \A q, s \in n : q[1] < s[1] <=> q[2] < s[2]
            /\ n \in SUBSET {q \in (DOMAIN old) \X (DOMAIN new) : old[q[1]] = new[q[2]]}
        <5>1. i + 1 \in Int /\ j + 1 \in Int
          BY <2>2
        <5>2. n \in SUBSET {q \in (DOMAIN old) \X (DOMAIN new) : old[q[1]] = new[q[2]]}
          BY DEF KeptOf, Matchings
        <5>3. /\ \A q \in n : /\ q[1] \in Int /\ q[2] \in Int /\ q[1] >= i + 1 /\ q[2] >= j + 1
              /\ \A q, s \in n : q[1] < s[1] <=> q[2] < s[2]
          BY <5>1, KeptIs, SMTT(30)
        <5> QED BY <5>2, <5>3
      <4>3. m \in KeptOf(old, new, i, j)
        <5>1. m \in SUBSET {q \in (DOMAIN old) \X (DOMAIN new) : old[q[1]] = new[q[2]]}
          <6>1. i \in DOMAIN old /\ j \in DOMAIN new
            <7>1. i \in 1..Len(old) /\ j \in 1..Len(new)
              BY <2>1, <2>2, <2>5
            <7> QED BY <7>1
          <6>2. <<i, j>> \in {q \in (DOMAIN old) \X (DOMAIN new) : old[q[1]] = new[q[2]]}
            BY <3>3, <6>1
          <6> QED BY <4>2, <6>2, Zenon
        <5>2. ASSUME NEW q \in m, NEW s \in m PROVE q[1] < s[1] <=> q[2] < s[2]
          <6>1. CASE q \in n /\ s \in n
            BY <4>2, <6>1
          <6>2. CASE q \in n /\ s = <<i, j>>
            BY <2>2, <4>2, <6>2
          <6>3. CASE q = <<i, j>> /\ s \in n
            BY <2>2, <4>2, <6>3
          <6>4. CASE q = <<i, j>> /\ s = <<i, j>>
            BY <2>2, <6>4
          <6> QED BY <6>1, <6>2, <6>3, <6>4
        <5>3. \A q \in m : q[1] >= i /\ q[2] >= j
          BY <2>2, <4>2
        <5> HIDE DEF m
        <5> QED BY <5>1, <5>2, <5>3, Zenon DEF KeptOf, Matchings
      <4>4. <<i, j>> \notin n
        BY <2>2, <4>2
      <4>5. IsFiniteSet(m) /\ Cardinality(m) = Cardinality(n) + 1
        BY <4>1, <4>4, FS_AddElement
      <4>6. t[p] = t[<<i + 1, j + 1>>] + 1
        BY <2>1, <2>5, <3>3, <2>3 DEF LcsStep
      <4> HIDE DEF m, t
      <4> QED BY <2>2, <4>1, <4>3, <4>5, <4>6
    <3>4. CASE old[i] # new[j]
      <4>1. \A m : m \in KeptOf(old, new, i + 1, j) \/ m \in KeptOf(old, new, i, j + 1) => m \in KeptOf(old, new, i, j)
        <5>1. i + 1 \in Int /\ j + 1 \in Int /\ i <= i + 1 /\ j <= j + 1 /\ i <= i /\ j <= j
          BY <2>2
        <5> QED BY <2>2, <5>1, KeptBehind
      <4>2. t[p] = t[<<i + 1, j>>] \/ t[p] = t[<<i, j + 1>>]
        BY <2>1, <2>5, <3>4, <2>3 DEF LcsStep
      <4>3. (\E m \in KeptOf(old, new, i + 1, j) : IsFiniteSet(m) /\ Cardinality(m) = t[<<i + 1, j>>])
            /\ (\E m \in KeptOf(old, new, i, j + 1) : IsFiniteSet(m) /\ Cardinality(m) = t[<<i, j + 1>>])
        BY <3>1
      <4> HIDE DEF t
      <4> QED BY <2>2, <4>1, <4>2, <4>3
    <3> QED BY <3>3, <3>4
  <2> QED BY <2>2, <2>4, <2>5
<1>2. T = S
  <2>1. T \in SUBSET S /\ Left(old, new) \in [S -> Nat]
    BY LessLeft
  <2>2. Inherited(S, Left(old, new), T)
    BY <1>1 DEF Inherited
  <2> HIDE DEF T, S
  <2> QED BY <2>1, <2>2, MeasureInduction
<1>3. Reached(z)
  BY <1>2
<1> QED BY <1>3

-----------------------------------------------------------------------------
(* The walk accounts for both pages *)

\* What is not removed of the one page and what is not added of the other are as
\* many as the table says, and each line is among them equally often.
Accounts(r, a, k, old, new, x) ==
  /\ Len(r) = Len(old) - k /\ Len(a) = Len(new) - k
  /\ Cnt(old, x) - Cnt(r, x) = Cnt(new, x) - Cnt(a, x)
  /\ Cnt(r, x) <= Cnt(old, x) /\ Cnt(a, x) <= Cnt(new, x)

\* A line at the head of both pages is kept; one at the head of either is told.
LEMMA AccountsMore ==
  ASSUME NEW E, NEW r \in Seq(E), NEW a \in Seq(E), NEW k \in Nat, NEW old \in Seq(E), NEW new \in Seq(E),
         NEW x, NEW y \in E, Accounts(r, a, k, old, new, x)
  PROVE  /\ Accounts(r, a, k + 1, <<y>> \o old, <<y>> \o new, x)
         /\ Accounts(<<y>> \o r, a, k, <<y>> \o old, new, x)
         /\ Accounts(r, <<y>> \o a, k, old, <<y>> \o new, x)
<1> DEFINE oldY == <<y>> \o old
           newY == <<y>> \o new
           rY == <<y>> \o r
           aY == <<y>> \o a
<1>1. /\ Len(oldY) = Len(old) + 1 /\ Len(newY) = Len(new) + 1
      /\ Len(rY) = Len(r) + 1 /\ Len(aY) = Len(a) + 1
      /\ Len(old) \in Nat /\ Len(new) \in Nat /\ Len(r) \in Nat /\ Len(a) \in Nat
  OBVIOUS
<1>2. PICK c \in Nat : /\ Cnt(oldY, x) = Cnt(old, x) + c /\ Cnt(newY, x) = Cnt(new, x) + c
                     /\ Cnt(rY, x) = Cnt(r, x) + c /\ Cnt(aY, x) = Cnt(a, x) + c
  <2>1. /\ Cnt(oldY, x) = Cnt(old, x) + IF y = x THEN 1 ELSE 0
        /\ Cnt(newY, x) = Cnt(new, x) + IF y = x THEN 1 ELSE 0
        /\ Cnt(rY, x) = Cnt(r, x) + IF y = x THEN 1 ELSE 0
        /\ Cnt(aY, x) = Cnt(a, x) + IF y = x THEN 1 ELSE 0
    BY CntMore
  <2> QED BY <2>1
<1>3. Cnt(old, x) \in Nat /\ Cnt(new, x) \in Nat /\ Cnt(r, x) \in Nat /\ Cnt(a, x) \in Nat
  BY CntType
<1>4. /\ Len(r) = Len(old) - k /\ Len(a) = Len(new) - k
      /\ Cnt(old, x) - Cnt(r, x) = Cnt(new, x) - Cnt(a, x)
      /\ Cnt(r, x) <= Cnt(old, x) /\ Cnt(a, x) <= Cnt(new, x)
  BY DEF Accounts
<1> HIDE DEF oldY, newY, rY, aY
<1>5. PICK f \in Nat, g \in Nat, d \in Nat, e \in Nat :
        f = Cnt(old, x) /\ g = Cnt(new, x) /\ d = Cnt(r, x) /\ e = Cnt(a, x)
  BY <1>3
<1>6. f - d = g - e /\ d <= f /\ e <= g
  BY <1>4, <1>5
<1>7. Accounts(r, a, k + 1, oldY, newY, x)
  <2>1. (f + c) - d = (g + c) - e /\ d <= f + c /\ e <= g + c
    BY <1>6
  <2>2. Len(r) = Len(oldY) - (k + 1) /\ Len(a) = Len(newY) - (k + 1)
    BY <1>1, <1>4
  <2> QED BY <1>2, <1>5, <2>1, <2>2 DEF Accounts
<1>8. Accounts(rY, a, k, oldY, new, x)
  <2>1. (f + c) - (d + c) = g - e /\ d + c <= f + c /\ e <= g
    BY <1>6
  <2>2. Len(rY) = Len(oldY) - k /\ Len(a) = Len(new) - k
    BY <1>1, <1>4
  <2> QED BY <1>2, <1>5, <2>1, <2>2 DEF Accounts
<1>9. Accounts(r, aY, k, old, newY, x)
  <2>1. f - d = (g + c) - (e + c) /\ d <= f /\ e + c <= g + c
    BY <1>6
  <2>2. Len(r) = Len(old) - k /\ Len(aY) = Len(newY) - k
    BY <1>1, <1>4
  <2> QED BY <1>2, <1>5, <2>1, <2>2 DEF Accounts
<1> QED BY <1>7, <1>8, <1>9 DEF oldY, newY, rY, aY

\* The walk tells of both pages exactly what it does not keep.
LEMMA WalkAccounts ==
  ASSUME NEW E, NEW old \in Seq(E), NEW new \in Seq(E), NEW x
  PROVE  /\ Walk(old, new) \in Walks(E)
         /\ Accounts(Walk(old, new).removed, Walk(old, new).added, LcsTable(old, new)[<<1, 1>>], old, new, x)
<1> DEFINE S == Places(old, new)
           t == LcsTable(old, new)
<1>0. PICK w : WalkTable(E, old, new, w)
  BY WalkIs
<1>1. /\ \A p \in S : w[p] \in Walks(E) /\ w[p] = WalkAt(old, new, w, p)
      /\ Walk(old, new) = w[<<1, 1>>]
  BY <1>0 DEF WalkTable
<1> DEFINE Good(p) == Accounts(w[p].removed, w[p].added, t[p], Rest(old, p[1]), Rest(new, p[2]), x)
           T == {p \in S : Good(p)}
<1>2. ASSUME NEW p \in S, \A q \in S : Left(old, new)[q] < Left(old, new)[p] => q \in T PROVE Good(p)
  <2>1. PICK i \in Int, j \in Int : p = <<i, j>> /\ i \in 1..Len(old) + 1 /\ j \in 1..Len(new) + 1
    BY DEF Places
  <2>2. Len(old) \in Int /\ Len(new) \in Int /\ p[1] = i /\ p[2] = j
    BY <2>1
  <2>3. LcsStep(old, new, t, i, j)
    BY <2>1, LcsSteps
  <2>4. w[p] = WalkAt(old, new, w, <<i, j>>)
    BY <1>1, <2>1
  <2>5. CASE i > Len(old) \/ j > Len(new)
    <3>1. w[p].removed = Rest(old, i) /\ w[p].added = Rest(new, j)
      BY <2>4, <2>5 DEF WalkAt
    <3>2. t[p] = 0
      BY <2>1, <2>3, <2>5 DEF LcsStep
    <3>3. Rest(old, i) \in Seq(E) /\ Rest(new, j) \in Seq(E)
      BY <2>1, RestIs
    <3>4. Cnt(Rest(old, i), x) \in Nat /\ Cnt(Rest(new, j), x) \in Nat
      BY <3>3, CntType
    <3>5. Len(Rest(old, i)) \in Nat /\ Len(Rest(new, j)) \in Nat
      BY <3>3
    <3>6. ASSUME NEW r, NEW a, Cnt(r, x) \in Nat, Cnt(a, x) \in Nat, Len(r) \in Nat, Len(a) \in Nat,
                 r = << >> \/ a = << >>
          PROVE  Accounts(r, a, 0, r, a, x)
      <4>1. Cnt(r, x) - Cnt(r, x) = Cnt(a, x) - Cnt(a, x)
        BY <3>6
      <4> QED BY <3>6, <4>1 DEF Accounts
    <3>7. Rest(old, i) = << >> \/ Rest(new, j) = << >>
      <4>1. i > Len(old) => Rest(old, i) = << >>
        BY <2>1, RestIsNone
      <4>2. j > Len(new) => Rest(new, j) = << >>
        BY <2>1, RestIsNone
      <4> QED BY <2>5, <4>1, <4>2
    <3>8. Accounts(Rest(old, i), Rest(new, j), 0, Rest(old, i), Rest(new, j), x)
      BY <3>4, <3>5, <3>6, <3>7
    <3> QED BY <2>2, <3>1, <3>2, <3>8
  <2>6. CASE i <= Len(old) /\ j <= Len(new)
    <3>1. ~(i > Len(old) \/ j > Len(new))
      BY <2>2, <2>6
    <3>2. /\ <<i + 1, j + 1>> \in T /\ <<i + 1, j>> \in T /\ <<i, j + 1>> \in T
      <4> HIDE DEF T
      <4> QED BY <1>2, <2>2, <2>6, LessLeft
    <3>3. /\ Good(<<i + 1, j + 1>>) /\ Good(<<i + 1, j>>) /\ Good(<<i, j + 1>>)
          /\ w[<<i + 1, j + 1>>] \in Walks(E) /\ w[<<i + 1, j>>] \in Walks(E) /\ w[<<i, j + 1>>] \in Walks(E)
      BY <1>1, <3>2
    <3>4. /\ old[i] \in E /\ Rest(old, i) = <<old[i]>> \o Rest(old, i + 1) /\ Rest(old, i) \in Seq(E)
          /\ new[j] \in E /\ Rest(new, j) = <<new[j]>> \o Rest(new, j + 1) /\ Rest(new, j) \in Seq(E)
      <4>1. old[i] \in E /\ Rest(old, i) = <<old[i]>> \o Rest(old, i + 1) /\ Rest(old, i) \in Seq(E)
        BY <2>1, <2>6, RestIs
      <4>2. new[j] \in E /\ Rest(new, j) = <<new[j]>> \o Rest(new, j + 1) /\ Rest(new, j) \in Seq(E)
        BY <2>1, <2>6, RestIs
      <4> QED BY <4>1, <4>2
    <3>5. Rest(old, i + 1) \in Seq(E) /\ Rest(new, j + 1) \in Seq(E)
      <4>1. i + 1 \in 1..Len(old) + 1 /\ j + 1 \in 1..Len(new) + 1
        BY <2>3, <2>6 DEF LcsStep
      <4> QED BY <4>1, RestIs
    <3>6. t[<<i + 1, j + 1>>] \in Nat /\ t[<<i + 1, j>>] \in Nat /\ t[<<i, j + 1>>] \in Nat
      BY <2>3, <2>6 DEF LcsStep
    <3>7. CASE old[i] = new[j]
      <4>1. w[p] = w[<<i + 1, j + 1>>]
        BY <2>4, <3>1, <3>7 DEF WalkAt
      <4>2. t[p] = t[<<i + 1, j + 1>>] + 1
        BY <2>1, <2>3, <2>6, <3>7 DEF LcsStep
      <4>3. PICK v \in Walks(E), k \in Nat : v = w[<<i + 1, j + 1>>] /\ k = t[<<i + 1, j + 1>>]
        BY <3>3, <3>6
      <4>4. v.removed \in Seq(E) /\ v.added \in Seq(E)
        BY DEF Walks
      <4>5. Accounts(v.removed, v.added, k, Rest(old, i + 1), Rest(new, j + 1), x)
        BY <3>3, <4>3
      <4>6. Accounts(v.removed, v.added, k + 1, <<old[i]>> \o Rest(old, i + 1), <<old[i]>> \o Rest(new, j + 1), x)
        BY <3>4, <3>5, <4>4, <4>5, AccountsMore
      <4> QED BY <2>2, <3>4, <3>7, <4>1, <4>2, <4>3, <4>6
    <3>8. CASE old[i] # new[j] /\ DropsOld(t, i, j)
      <4>1. w[p] = [w[<<i + 1, j>>] EXCEPT !.removed = <<old[i]>> \o @]
        BY <2>4, <3>1, <3>8 DEF WalkAt
      <4>2. t[p] = t[<<i + 1, j>>]
        BY <2>1, <2>3, <2>6, <3>8 DEF LcsStep
      <4>3. PICK v \in Walks(E), k \in Nat : v = w[<<i + 1, j>>] /\ k = t[<<i + 1, j>>]
        BY <3>3, <3>6
      <4>4. v.removed \in Seq(E) /\ v.added \in Seq(E)
        BY DEF Walks
      <4>5. Accounts(v.removed, v.added, k, Rest(old, i + 1), Rest(new, j), x)
        BY <3>3, <4>3
      <4>6. Accounts(<<old[i]>> \o v.removed, v.added, k, <<old[i]>> \o Rest(old, i + 1), Rest(new, j), x)
        BY <3>4, <3>5, <4>4, <4>5, AccountsMore
      <4>7. w[p].removed = <<old[i]>> \o v.removed /\ w[p].added = v.added
        <5>1. w[p] = [v EXCEPT !.removed = <<old[i]>> \o @]
          BY <4>1, <4>3, Zenon
        <5> QED BY <5>1 DEF Walks
      <4> QED BY <2>2, <3>4, <4>2, <4>3, <4>6, <4>7
    <3>9. CASE old[i] # new[j] /\ ~DropsOld(t, i, j)
      <4>1. w[p] = [w[<<i, j + 1>>] EXCEPT !.added = <<new[j]>> \o @]
        BY <2>4, <3>1, <3>9 DEF WalkAt
      <4>2. t[p] = t[<<i, j + 1>>]
        BY <2>1, <2>3, <2>6, <3>9 DEF LcsStep
      <4>3. PICK v \in Walks(E), k \in Nat : v = w[<<i, j + 1>>] /\ k = t[<<i, j + 1>>]
        BY <3>3, <3>6
      <4>4. v.removed \in Seq(E) /\ v.added \in Seq(E)
        BY DEF Walks
      <4>5. Accounts(v.removed, v.added, k, Rest(old, i), Rest(new, j + 1), x)
        BY <3>3, <4>3
      <4>6. Accounts(v.removed, <<new[j]>> \o v.added, k, Rest(old, i), <<new[j]>> \o Rest(new, j + 1), x)
        BY <3>4, <3>5, <4>4, <4>5, AccountsMore
      <4>7. w[p].added = <<new[j]>> \o v.added /\ w[p].removed = v.removed
        <5>1. w[p] = [v EXCEPT !.added = <<new[j]>> \o @]
          BY <4>1, <4>3, Zenon
        <5> QED BY <5>1 DEF Walks
      <4> QED BY <2>2, <3>4, <4>2, <4>3, <4>6, <4>7
    <3> QED BY <3>7, <3>8, <3>9
  <2> QED BY <2>2, <2>5, <2>6
<1>3. T = S
  <2>1. T \in SUBSET S /\ Left(old, new) \in [S -> Nat]
    BY LessLeft
  <2>2. Inherited(S, Left(old, new), T)
    BY <1>2 DEF Inherited
  <2> HIDE DEF T, S
  <2> QED BY <2>1, <2>2, MeasureInduction
<1>4. <<1, 1>> \in S /\ <<1, 1>>[1] = 1 /\ <<1, 1>>[2] = 1
  BY LessLeft
<1>5. Good(<<1, 1>>)
  BY <1>3, <1>4
<1>6. Rest(old, 1) = old /\ Rest(new, 1) = new
  <2>1. 1 \in 1..Len(old) + 1 /\ 1 \in 1..Len(new) + 1
    BY <1>4 DEF Places
  <2> QED BY <2>1, RestIs
<1> QED BY <1>1, <1>4, <1>5, <1>6

-----------------------------------------------------------------------------
(* The pairs hold everything the walk found *)

IsSide(E, f, m, k) == f \in Seq(E) /\ Len(f) = Len(m) /\ \A i \in 1..Len(m) : f[i] = m[i][k]

\* The lines that changed, as they were and as they are.
LEMMA SidesOf ==
  ASSUME NEW E, NEW m \in Seq(E \X E)
  PROVE  IsSide(E, Firsts(m), m, 1) /\ IsSide(E, Seconds(m), m, 2)
<1>1. Len(m) \in Nat /\ DOMAIN m = 1..Len(m) /\ \A i \in 1..Len(m) : m[i][1] \in E /\ m[i][2] \in E
  OBVIOUS
<1>2. IsSide(E, Firsts(m), m, 1)
  <2>1. Firsts(m) = [i \in 1..Len(m) |-> m[i][1]]
    BY <1>1 DEF Firsts
  <2>2. Firsts(m) \in Seq(E) /\ Len(Firsts(m)) = Len(m)
    BY <1>1, <2>1
  <2> QED BY <2>1, <2>2 DEF IsSide
<1>3. IsSide(E, Seconds(m), m, 2)
  <2>1. Seconds(m) = [i \in 1..Len(m) |-> m[i][2]]
    BY <1>1 DEF Seconds
  <2>2. Seconds(m) \in Seq(E) /\ Len(Seconds(m)) = Len(m)
    BY <1>1, <2>1
  <2> QED BY <2>1, <2>2 DEF IsSide
<1> QED BY <1>2, <1>3

Then(y, z, m) == <<<<y, z>>>> \o m
FirstsThen(m, y, z) == Firsts(Then(y, z, m)) = <<y>> \o Firsts(m)
SecondsThen(m, y, z) == Seconds(Then(y, z, m)) = <<z>> \o Seconds(m)

\* One changed line more is one more on either side.
LEMMA SidesMore ==
  ASSUME NEW E, NEW m \in Seq(E \X E), NEW y \in E, NEW z \in E
  PROVE  /\ Firsts(m) \in Seq(E) /\ Seconds(m) \in Seq(E)
         /\ FirstsThen(m, y, z) /\ SecondsThen(m, y, z)
<1>1. Firsts(m) \in Seq(E) /\ Len(Firsts(m)) = Len(m) /\ \A i \in 1..Len(m) : Firsts(m)[i] = m[i][1]
  BY SidesOf DEF IsSide
<1>2. Seconds(m) \in Seq(E) /\ Len(Seconds(m)) = Len(m) /\ \A i \in 1..Len(m) : Seconds(m)[i] = m[i][2]
  BY SidesOf DEF IsSide
<1> DEFINE n == <<<<y, z>>>> \o m
<1>3. /\ n \in Seq(E \X E) /\ Len(n) = Len(m) + 1 /\ n[1] = <<y, z>>
      /\ \A i \in 1..Len(m) + 1 : i # 1 => n[i] = m[i - 1]
  OBVIOUS
<1> HIDE DEF n
<1>4. Firsts(n) \in Seq(E) /\ Len(Firsts(n)) = Len(m) + 1 /\ \A i \in 1..Len(m) + 1 : Firsts(n)[i] = n[i][1]
  <2>1. Firsts(n) \in Seq(E) /\ Len(Firsts(n)) = Len(n) /\ \A i \in 1..Len(n) : Firsts(n)[i] = n[i][1]
    BY <1>3, SidesOf DEF IsSide
  <2> QED BY <1>3, <2>1
<1>5. Seconds(n) \in Seq(E) /\ Len(Seconds(n)) = Len(m) + 1 /\ \A i \in 1..Len(m) + 1 : Seconds(n)[i] = n[i][2]
  <2>1. Seconds(n) \in Seq(E) /\ Len(Seconds(n)) = Len(n) /\ \A i \in 1..Len(n) : Seconds(n)[i] = n[i][2]
    BY <1>3, SidesOf DEF IsSide
  <2> QED BY <1>3, <2>1
<1>6. Firsts(n) = <<y>> \o Firsts(m)
  <2> DEFINE f == <<y>> \o Firsts(m)
  <2>1. /\ f \in Seq(E) /\ Len(f) = Len(m) + 1 /\ f[1] = y
        /\ \A i \in 1..Len(m) + 1 : i # 1 => f[i] = Firsts(m)[i - 1]
    BY <1>1
  <2> HIDE DEF f
  <2>2. \A i \in 1..Len(m) + 1 : Firsts(n)[i] = f[i]
    <3>1. ASSUME NEW i \in 1..Len(m) + 1, i # 1 PROVE Firsts(n)[i] = f[i]
      <4>1. i - 1 \in 1..Len(m)
        BY <3>1
      <4> QED BY <1>1, <1>3, <1>4, <2>1, <3>1, <4>1
    <3>2. Firsts(n)[1] = f[1]
      BY <1>3, <1>4, <2>1
    <3> QED BY <3>1, <3>2
  <2>3. Firsts(n) = f
    BY <1>4, <2>1, <2>2, SeqEqual
  <2> QED BY <2>3 DEF f
<1>7. Seconds(n) = <<z>> \o Seconds(m)
  <2> DEFINE f == <<z>> \o Seconds(m)
  <2>1. /\ f \in Seq(E) /\ Len(f) = Len(m) + 1 /\ f[1] = z
        /\ \A i \in 1..Len(m) + 1 : i # 1 => f[i] = Seconds(m)[i - 1]
    BY <1>2
  <2> HIDE DEF f
  <2>2. \A i \in 1..Len(m) + 1 : Seconds(n)[i] = f[i]
    <3>1. ASSUME NEW i \in 1..Len(m) + 1, i # 1 PROVE Seconds(n)[i] = f[i]
      <4>1. i - 1 \in 1..Len(m)
        BY <3>1
      <4> QED BY <1>2, <1>3, <1>5, <2>1, <3>1, <4>1
    <3>2. Seconds(n)[1] = f[1]
      BY <1>3, <1>5, <2>1
    <3> QED BY <3>1, <3>2
  <2>3. Seconds(n) = f
    BY <1>5, <2>1, <2>2, SeqEqual
  <2> QED BY <2>3 DEF f
<1> QED BY <1>1, <1>2, <1>6, <1>7 DEF n, Then, FirstsThen, SecondsThen

\* What is removed or modified of one page is what was found gone, and of the
\* other what was found come.
Holds(r, a, m, gone, come, x) ==
  /\ Len(r) + Len(m) = Len(gone) /\ Len(a) + Len(m) = Len(come)
  /\ Cnt(r, x) + Cnt(Firsts(m), x) = Cnt(gone, x)
  /\ Cnt(a, x) + Cnt(Seconds(m), x) = Cnt(come, x)

\* One line more is counted on the one side or on the other.
LEMMA OneSideMore ==
  ASSUME NEW E, NEW r \in Seq(E), NEW f \in Seq(E), NEW gone \in Seq(E), NEW y \in E, NEW x,
         Cnt(r, x) + Cnt(f, x) = Cnt(gone, x)
  PROVE  /\ Cnt(<<y>> \o r, x) + Cnt(f, x) = Cnt(<<y>> \o gone, x)
         /\ Cnt(r, x) + Cnt(<<y>> \o f, x) = Cnt(<<y>> \o gone, x)
<1>1. PICK c \in Nat : /\ Cnt(<<y>> \o r, x) = Cnt(r, x) + c /\ Cnt(<<y>> \o f, x) = Cnt(f, x) + c
                     /\ Cnt(<<y>> \o gone, x) = Cnt(gone, x) + c
  <2>1. /\ Cnt(<<y>> \o r, x) = Cnt(r, x) + IF y = x THEN 1 ELSE 0
        /\ Cnt(<<y>> \o f, x) = Cnt(f, x) + IF y = x THEN 1 ELSE 0
        /\ Cnt(<<y>> \o gone, x) = Cnt(gone, x) + IF y = x THEN 1 ELSE 0
    BY CntMore
  <2> QED BY <2>1
<1>2. Cnt(r, x) \in Nat /\ Cnt(f, x) \in Nat /\ Cnt(gone, x) \in Nat
  BY CntType
<1>3. PICK i \in Nat, j \in Nat, k \in Nat : i = Cnt(r, x) /\ j = Cnt(f, x) /\ k = Cnt(gone, x)
  BY <1>2
<1>4. i + j = k
  BY <1>3
<1>5. (i + c) + j = k + c /\ i + (j + c) = k + c
  BY <1>4
<1> QED BY <1>1, <1>3, <1>5

\* One line more is one line longer.
LEMMA LenMore ==
  ASSUME NEW E, NEW s \in Seq(E), NEW y
  PROVE  Len(<<y>> \o s) = Len(s) + 1 /\ Len(s) \in Nat
OBVIOUS

\* A line that is told as gone, as come or as changed is one more of those found.
LEMMA HoldsMore ==
  ASSUME NEW E, NEW r \in Seq(E), NEW a \in Seq(E), NEW m \in Seq(E \X E),
         NEW gone \in Seq(E), NEW come \in Seq(E), NEW y \in E, NEW z \in E, NEW x,
         Holds(r, a, m, gone, come, x)
  PROVE  /\ Holds(<<y>> \o r, a, m, <<y>> \o gone, come, x)
         /\ Holds(r, <<z>> \o a, m, gone, <<z>> \o come, x)
         /\ Holds(r, a, <<<<y, z>>>> \o m, <<y>> \o gone, <<z>> \o come, x)
<1>1. /\ Firsts(m) \in Seq(E) /\ Seconds(m) \in Seq(E)
      /\ Firsts(<<<<y, z>>>> \o m) = <<y>> \o Firsts(m) /\ Seconds(<<<<y, z>>>> \o m) = <<z>> \o Seconds(m)
  <2>1. Firsts(m) \in Seq(E) /\ Seconds(m) \in Seq(E)
    BY SidesMore
  <2>2. FirstsThen(m, y, z) /\ SecondsThen(m, y, z)
    BY SidesMore
  <2> QED BY <2>1, <2>2 DEF Then, FirstsThen, SecondsThen
<1>2. /\ Len(r) + Len(m) = Len(gone) /\ Len(a) + Len(m) = Len(come)
      /\ Cnt(r, x) + Cnt(Firsts(m), x) = Cnt(gone, x)
      /\ Cnt(a, x) + Cnt(Seconds(m), x) = Cnt(come, x)
  BY DEF Holds
<1>3. /\ Cnt(<<y>> \o r, x) + Cnt(Firsts(m), x) = Cnt(<<y>> \o gone, x)
      /\ Cnt(r, x) + Cnt(<<y>> \o Firsts(m), x) = Cnt(<<y>> \o gone, x)
  BY <1>1, <1>2, OneSideMore
<1>4. /\ Cnt(<<z>> \o a, x) + Cnt(Seconds(m), x) = Cnt(<<z>> \o come, x)
      /\ Cnt(a, x) + Cnt(<<z>> \o Seconds(m), x) = Cnt(<<z>> \o come, x)
  BY <1>1, <1>2, OneSideMore
<1>5. PICK i \in Nat, j \in Nat, k \in Nat, g \in Nat, h \in Nat :
        /\ i = Len(r) /\ j = Len(a) /\ k = Len(m) /\ g = Len(gone) /\ h = Len(come)
        /\ Len(<<y>> \o r) = i + 1 /\ Len(<<z>> \o a) = j + 1 /\ Len(<<<<y, z>>>> \o m) = k + 1
        /\ Len(<<y>> \o gone) = g + 1 /\ Len(<<z>> \o come) = h + 1
  BY LenMore
<1>6. i + k = g /\ j + k = h
  BY <1>2, <1>5
<1>7. /\ (i + 1) + k = g + 1 /\ (j + 1) + k = h + 1
      /\ i + (k + 1) = g + 1 /\ j + (k + 1) = h + 1
  BY <1>6
<1>8. Holds(<<y>> \o r, a, m, <<y>> \o gone, come, x)
  BY <1>2, <1>3, <1>5, <1>7 DEF Holds
<1>9. Holds(r, <<z>> \o a, m, gone, <<z>> \o come, x)
  BY <1>2, <1>4, <1>5, <1>7 DEF Holds
<1>10. Holds(r, a, <<<<y, z>>>> \o m, <<y>> \o gone, <<z>> \o come, x)
  BY <1>1, <1>3, <1>4, <1>5, <1>7 DEF Holds
<1> QED BY <1>8, <1>9, <1>10

\* Setting lines side by side loses none and makes none up.
LEMMA PairHolds ==
  ASSUME NEW E, NEW walk \in Walks(E), NEW x
  PROVE  /\ Pair(walk) \in Pairings(E)
         /\ Holds(Pair(walk).removed, Pair(walk).added, Pair(walk).modified, walk.removed, walk.added, x)
<1> DEFINE r == walk.removed
           a == walk.added
           S == Places(r, a)
<1>0. PICK w : PairTable(E, walk, w)
  BY PairIs
<1>1. /\ \A p \in S : w[p] \in Pairings(E) /\ w[p] = PairAt(r, a, w, p)
      /\ Pair(walk) = w[<<1, 1>>]
  BY <1>0 DEF PairTable
<1>2. r \in Seq(E) /\ a \in Seq(E)
  BY DEF Walks
<1> HIDE DEF r, a
<1> DEFINE Good(p) == Holds(w[p].removed, w[p].added, w[p].modified, Rest(r, p[1]), Rest(a, p[2]), x)
           T == {p \in S : Good(p)}
<1>3. ASSUME NEW p \in S, \A q \in S : Left(r, a)[q] < Left(r, a)[p] => q \in T PROVE Good(p)
  <2>1. PICK i \in Int, j \in Int : p = <<i, j>> /\ i \in 1..Len(r) + 1 /\ j \in 1..Len(a) + 1
    BY DEF Places
  <2>2. Len(r) \in Int /\ Len(a) \in Int /\ p[1] = i /\ p[2] = j
    BY <1>2, <2>1
  <2>3. w[p] = PairAt(r, a, w, <<i, j>>)
    BY <1>1, <2>1
  <2>4. CASE i > Len(r) \/ j > Len(a)
    <3>1. w[p].removed = Rest(r, i) /\ w[p].added = Rest(a, j) /\ w[p].modified = << >>
      BY <2>3, <2>4 DEF PairAt
    <3>2. Rest(r, i) \in Seq(E) /\ Rest(a, j) \in Seq(E)
      BY <1>2, <2>1, RestIs
    <3>3. Cnt(Rest(r, i), x) \in Nat /\ Cnt(Rest(a, j), x) \in Nat /\ Len(Rest(r, i)) \in Nat /\ Len(Rest(a, j)) \in Nat
      <4>1. Len(Rest(r, i)) \in Nat /\ Len(Rest(a, j)) \in Nat
        BY <3>2
      <4>2. Cnt(Rest(r, i), x) \in Nat
        BY <3>2, CntType
      <4>3. Cnt(Rest(a, j), x) \in Nat
        BY <3>2, CntType
      <4> QED BY <4>1, <4>2, <4>3
    <3>4. Cnt(Firsts(<< >>), x) = 0 /\ Cnt(Seconds(<< >>), x) = 0 /\ Len(<< >>) = 0
      <4>1. {k \in DOMAIN Firsts(<< >>) : Firsts(<< >>)[k] = x} = {}
        BY DEF Firsts
      <4>2. {k \in DOMAIN Seconds(<< >>) : Seconds(<< >>)[k] = x} = {}
        BY DEF Seconds
      <4> QED BY <4>1, <4>2, FS_EmptySet DEF Cnt
    <3>5. ASSUME NEW k \in Nat PROVE k + 0 = k
      OBVIOUS
    <3>6. Holds(Rest(r, i), Rest(a, j), << >>, Rest(r, i), Rest(a, j), x)
      BY <3>3, <3>4, <3>5 DEF Holds
    <3> QED BY <2>2, <3>1, <3>6
  <2>5. CASE i <= Len(r) /\ j <= Len(a)
    <3>1. ~(i > Len(r) \/ j > Len(a))
      BY <2>2, <2>5
    <3>2. /\ <<i + 1, j + 1>> \in T /\ <<i + 1, j>> \in T /\ <<i, j + 1>> \in T
      <4> HIDE DEF T
      <4> QED BY <1>2, <1>3, <2>2, <2>5, LessLeft
    <3>3. /\ Good(<<i + 1, j + 1>>) /\ Good(<<i + 1, j>>) /\ Good(<<i, j + 1>>)
          /\ w[<<i + 1, j + 1>>] \in Pairings(E) /\ w[<<i + 1, j>>] \in Pairings(E)
          /\ w[<<i, j + 1>>] \in Pairings(E)
      BY <1>1, <3>2
    <3>4. /\ r[i] \in E /\ Rest(r, i) = <<r[i]>> \o Rest(r, i + 1) /\ Rest(r, i) \in Seq(E)
          /\ a[j] \in E /\ Rest(a, j) = <<a[j]>> \o Rest(a, j + 1) /\ Rest(a, j) \in Seq(E)
      <4>1. r[i] \in E /\ Rest(r, i) = <<r[i]>> \o Rest(r, i + 1) /\ Rest(r, i) \in Seq(E)
        BY <1>2, <2>1, <2>5, RestIs
      <4>2. a[j] \in E /\ Rest(a, j) = <<a[j]>> \o Rest(a, j + 1) /\ Rest(a, j) \in Seq(E)
        BY <1>2, <2>1, <2>5, RestIs
      <4> QED BY <4>1, <4>2
    <3>5. Rest(r, i + 1) \in Seq(E) /\ Rest(a, j + 1) \in Seq(E)
      <4>1. i + 1 \in 1..Len(r) + 1 /\ j + 1 \in 1..Len(a) + 1
        BY <2>1, <2>2, <2>5
      <4> QED BY <1>2, <4>1, RestIs
    <3>6. CASE <<r[i], a[j]>> \in Alike
      <4>1. w[p] = [w[<<i + 1, j + 1>>] EXCEPT !.modified = <<<<r[i], a[j]>>>> \o @]
        BY <2>3, <3>1, <3>6 DEF PairAt
      <4>2. PICK v \in Pairings(E) : v = w[<<i + 1, j + 1>>]
        BY <3>3
      <4>3. v.removed \in Seq(E) /\ v.added \in Seq(E) /\ v.modified \in Seq(E \X E)
        BY DEF Pairings
      <4>4. Holds(v.removed, v.added, v.modified, Rest(r, i + 1), Rest(a, j + 1), x)
        BY <3>3, <4>2
      <4>5. Holds(v.removed, v.added, <<<<r[i], a[j]>>>> \o v.modified,
                  <<r[i]>> \o Rest(r, i + 1), <<a[j]>> \o Rest(a, j + 1), x)
        BY <3>4, <3>5, <4>3, <4>4, HoldsMore
      <4>6. w[p] = [v EXCEPT !.modified = <<<<r[i], a[j]>>>> \o @]
        BY <4>1, <4>2, Zenon
      <4>7. /\ w[p].modified = <<<<r[i], a[j]>>>> \o v.modified
            /\ w[p].removed = v.removed /\ w[p].added = v.added
        BY <4>6 DEF Pairings
      <4> QED BY <2>2, <3>4, <4>5, <4>7
    <3>7. CASE <<r[i], a[j]>> \notin Alike /\ Length[a[j]] > Length[r[i]]
      <4>1. w[p] = [w[<<i, j + 1>>] EXCEPT !.added = <<a[j]>> \o @]
        BY <2>3, <3>1, <3>7 DEF PairAt
      <4>2. PICK v \in Pairings(E) : v = w[<<i, j + 1>>]
        BY <3>3
      <4>3. v.removed \in Seq(E) /\ v.added \in Seq(E) /\ v.modified \in Seq(E \X E)
        BY DEF Pairings
      <4>4. Holds(v.removed, v.added, v.modified, Rest(r, i), Rest(a, j + 1), x)
        BY <3>3, <4>2
      <4>5. Holds(v.removed, <<a[j]>> \o v.added, v.modified, Rest(r, i), <<a[j]>> \o Rest(a, j + 1), x)
        BY <3>4, <3>5, <4>3, <4>4, HoldsMore
      <4>6. w[p] = [v EXCEPT !.added = <<a[j]>> \o @]
        BY <4>1, <4>2, Zenon
      <4>7. w[p].added = <<a[j]>> \o v.added /\ w[p].removed = v.removed /\ w[p].modified = v.modified
        BY <4>6 DEF Pairings
      <4> QED BY <2>2, <3>4, <4>5, <4>7
    <3>8. CASE <<r[i], a[j]>> \notin Alike /\ ~(Length[a[j]] > Length[r[i]])
      <4>1. w[p] = [w[<<i + 1, j>>] EXCEPT !.removed = <<r[i]>> \o @]
        BY <2>3, <3>1, <3>8 DEF PairAt
      <4>2. PICK v \in Pairings(E) : v = w[<<i + 1, j>>]
        BY <3>3
      <4>3. v.removed \in Seq(E) /\ v.added \in Seq(E) /\ v.modified \in Seq(E \X E)
        BY DEF Pairings
      <4>4. Holds(v.removed, v.added, v.modified, Rest(r, i + 1), Rest(a, j), x)
        BY <3>3, <4>2
      <4>5. Holds(<<r[i]>> \o v.removed, v.added, v.modified, <<r[i]>> \o Rest(r, i + 1), Rest(a, j), x)
        BY <3>4, <3>5, <4>3, <4>4, HoldsMore
      <4>6. w[p] = [v EXCEPT !.removed = <<r[i]>> \o @]
        BY <4>1, <4>2, Zenon
      <4>7. w[p].removed = <<r[i]>> \o v.removed /\ w[p].added = v.added /\ w[p].modified = v.modified
        BY <4>6 DEF Pairings
      <4> QED BY <2>2, <3>4, <4>5, <4>7
    <3> QED BY <3>6, <3>7, <3>8
  <2> QED BY <2>2, <2>4, <2>5
<1>4. T = S
  <2>1. T \in SUBSET S /\ Left(r, a) \in [S -> Nat]
    BY <1>2, LessLeft
  <2>2. Inherited(S, Left(r, a), T)
    BY <1>3 DEF Inherited
  <2> HIDE DEF T, S
  <2> QED BY <2>1, <2>2, MeasureInduction
<1>5. <<1, 1>> \in S /\ <<1, 1>>[1] = 1 /\ <<1, 1>>[2] = 1
  BY <1>2, LessLeft
<1>6. Good(<<1, 1>>)
  BY <1>4, <1>5
<1>7. Rest(r, 1) = r /\ Rest(a, 1) = a
  <2>1. 1 \in 1..Len(r) + 1 /\ 1 \in 1..Len(a) + 1
    BY <1>5 DEF Places
  <2> QED BY <1>2, <2>1, RestIs
<1> QED BY <1>1, <1>5, <1>6, <1>7 DEF r, a

-----------------------------------------------------------------------------
(* A difference is exact *)

\* The bag of the lines of a page.
LEMMA CountOfIs ==
  ASSUME NEW E, NEW s \in Seq(E)
  PROVE  CountOf(s) = [x \in ToSet(s) |-> Cnt(s, x)] /\ ToSet(s) = {x \in E : Cnt(s, x) > 0}
<1>1. CountOf(s) = [x \in ToSet(s) |-> Cnt(s, x)]
  BY DEF CountOf, Cnt
<1>2. ASSUME NEW x \in ToSet(s) PROVE x \in E /\ Cnt(s, x) > 0
  <2>1. x \in E
    BY DEF ToSet
  <2> QED BY <2>1, CntType
<1>3. ASSUME NEW x \in E, Cnt(s, x) > 0 PROVE x \in ToSet(s)
  BY <1>3, CntType
<1> QED BY <1>1, <1>2, <1>3

Excess(E, s, t) == [x \in {y \in E : Cnt(s, y) - Cnt(t, y) > 0} |-> Cnt(s, x) - Cnt(t, x)]

\* What is left of a bag of lines when another is taken from it.
LEMMA BagLess ==
  ASSUME NEW E, NEW s \in Seq(E), NEW t \in Seq(E)
  PROVE  CountOf(s) (-) CountOf(t) = Excess(E, s, t)
<1>1. \A x : Cnt(s, x) \in Nat /\ Cnt(t, x) \in Nat
  BY CntType
<1> DEFINE B == [x \in DOMAIN CountOf(s) |-> IF x \in DOMAIN CountOf(t) THEN CountOf(s)[x] - CountOf(t)[x]
                                             ELSE CountOf(s)[x]]
<1>2. CountOf(s) (-) CountOf(t) = [x \in {y \in DOMAIN B : B[y] > 0} |-> B[x]]
  BY DEF (-)
<1>3. DOMAIN B = {x \in E : Cnt(s, x) > 0} /\ \A x \in DOMAIN B : B[x] = Cnt(s, x) - Cnt(t, x)
  <2>1. CountOf(s) = [x \in ToSet(s) |-> Cnt(s, x)] /\ ToSet(s) = {x \in E : Cnt(s, x) > 0}
    BY CountOfIs
  <2>2. CountOf(t) = [x \in ToSet(t) |-> Cnt(t, x)] /\ ToSet(t) = {x \in E : Cnt(t, x) > 0}
    BY CountOfIs
  <2>3. DOMAIN B = {x \in E : Cnt(s, x) > 0}
    BY <2>1
  <2>4. ASSUME NEW x \in DOMAIN B PROVE B[x] = Cnt(s, x) - Cnt(t, x)
    <3>1. x \in E /\ x \in ToSet(s) /\ CountOf(s)[x] = Cnt(s, x)
      BY <2>1
    <3>2. CASE x \in ToSet(t)
      BY <2>2, <3>1, <3>2
    <3>3. CASE x \notin ToSet(t)
      <4>1. Cnt(t, x) = 0
        BY <1>1, <2>2, <3>1, <3>3
      <4>2. B[x] = Cnt(s, x)
        BY <2>2, <3>1, <3>3
      <4> QED BY <1>1, <4>1, <4>2
    <3> QED BY <3>2, <3>3
  <2> QED BY <2>3, <2>4
<1> HIDE DEF B
<1>4. {y \in DOMAIN B : B[y] > 0} = {y \in E : Cnt(s, y) - Cnt(t, y) > 0}
  <2>1. ASSUME NEW y, Cnt(s, y) - Cnt(t, y) > 0 PROVE Cnt(s, y) > 0
    BY <1>1, <2>1
  <2> QED BY <1>3, <2>1
<1>5. \A x \in {y \in DOMAIN B : B[y] > 0} : B[x] = Cnt(s, x) - Cnt(t, x)
  BY <1>3
<1> QED BY <1>2, <1>4, <1>5 DEF Excess

\* A page that has no line more often than another has a smaller bag.
LEMMA BagWithin ==
  ASSUME NEW E, NEW s \in Seq(E), NEW t \in Seq(E), \A x : Cnt(s, x) <= Cnt(t, x)
  PROVE  CountOf(s) \sqsubseteq CountOf(t)
<1>1. \A x : Cnt(s, x) \in Nat /\ Cnt(t, x) \in Nat
  BY CntType
<1>2. CountOf(s) = [x \in ToSet(s) |-> Cnt(s, x)] /\ ToSet(s) = {x \in E : Cnt(s, x) > 0}
  BY CountOfIs
<1>3. CountOf(t) = [x \in ToSet(t) |-> Cnt(t, x)] /\ ToSet(t) = {x \in E : Cnt(t, x) > 0}
  BY CountOfIs
<1>4. ToSet(s) \subseteq ToSet(t)
  <2>1. ASSUME NEW x, Cnt(s, x) > 0 PROVE Cnt(t, x) > 0
    BY <1>1, <2>1
  <2> QED BY <1>2, <1>3, <2>1
<1>5. DOMAIN CountOf(s) \subseteq DOMAIN CountOf(t)
  BY <1>2, <1>3, <1>4
<1>6. \A x \in DOMAIN CountOf(s) : CountOf(s)[x] <= CountOf(t)[x]
  BY <1>2, <1>3, <1>4
<1> QED BY <1>5, <1>6 DEF \sqsubseteq

\* The largest matching has as many pairs as the table says of the whole pages.
LEMMA LargestMatching ==
  ASSUME NEW E, NEW old \in Seq(E), NEW new \in Seq(E)
  PROVE  Max({Cardinality(m) : m \in Matchings(old, new)}) = LcsTable(old, new)[<<1, 1>>]
<1> DEFINE z == <<1, 1>>
           t == LcsTable(old, new)[z]
           M == {Cardinality(m) : m \in Matchings(old, new)}
<1>1. z \in Places(old, new) /\ z[1] = 1 /\ z[2] = 1
  BY LessLeft
<1>2. t \in Nat
  BY <1>1, LcsIs
<1>3. KeptOf(old, new, z[1], z[2]) = Matchings(old, new)
  <2>1. ASSUME NEW m \in Matchings(old, new) PROVE \A p \in m : p[1] >= 1 /\ p[2] >= 1
    BY DEF Matchings
  <2> QED BY <1>1, <2>1 DEF KeptOf
<1>4. ASSUME NEW m \in Matchings(old, new) PROVE Cardinality(m) \in Nat /\ Cardinality(m) <= t
  <2>1. IsFiniteSet(m) /\ Cardinality(m) <= LcsTable(old, new)[z]
    <3> HIDE DEF z
    <3> QED BY <1>1, <1>3, NoMoreKept
  <2> QED BY <2>1, FS_CardinalityType
<1>5. t \in M
  <2>1. \E m \in Matchings(old, new) : Cardinality(m) = LcsTable(old, new)[z]
    <3> HIDE DEF z
    <3> QED BY <1>1, <1>3, AsManyKept
  <2> QED BY <2>1
<1>6. \A n \in M : n \in Nat /\ n <= t
  BY <1>4
<1> HIDE DEF M, t
<1>7. \E x \in M : \A y \in M : x >= y
  BY <1>2, <1>5, <1>6
<1>8. Max(M) \in M /\ \A y \in M : Max(M) >= y
  BY <1>7 DEF Max
<1>9. PICK n : n = Max(M)
  OBVIOUS
<1>10. n \in Nat /\ n <= t /\ n >= t
  BY <1>5, <1>6, <1>8, <1>9
<1>11. n = t
  BY <1>2, <1>10
<1> QED BY <1>9, <1>11 DEF M, t

Exact(old, new, d) ==
  LET gone == CountOf(d.removed \o Firsts(d.modified))
      come == CountOf(d.added \o Seconds(d.modified))
  IN  /\ CountOf(old) (-) gone = CountOf(new) (-) come
      /\ gone \sqsubseteq CountOf(old) /\ come \sqsubseteq CountOf(new)
      /\ Len(old) - Len(d.removed) - Len(d.modified) = Max({Cardinality(m) : m \in Matchings(old, new)})

\* The difference of any two pages accounts for both and is as short as it can be.
LEMMA DiffOfTwo ==
  ASSUME NEW E, NEW old \in Seq(E), NEW new \in Seq(E)
  PROVE  Diff(old, new) \in Pairings(E) /\ Exact(old, new, Diff(old, new))
<1> DEFINE walk == Walk(old, new)
           d == Pair(walk)
           k == LcsTable(old, new)[<<1, 1>>]
           gone == d.removed \o Firsts(d.modified)
           come == d.added \o Seconds(d.modified)
<1>1. walk \in Walks(E) /\ \A x : Accounts(walk.removed, walk.added, k, old, new, x)
  BY WalkAccounts
<1> HIDE DEF walk
<1>2. d \in Pairings(E) /\ \A x : Holds(d.removed, d.added, d.modified, walk.removed, walk.added, x)
  BY <1>1, PairHolds
<1> HIDE DEF d
<1>3. /\ d.removed \in Seq(E) /\ d.added \in Seq(E)
      /\ Firsts(d.modified) \in Seq(E) /\ Seconds(d.modified) \in Seq(E)
  <2>1. d.removed \in Seq(E) /\ d.added \in Seq(E) /\ d.modified \in Seq(E \X E)
    BY <1>2 DEF Pairings
  <2> QED BY <2>1, SidesOf DEF IsSide
<1>4. gone \in Seq(E) /\ come \in Seq(E)
  BY <1>3
<1>5. ASSUME NEW x
      PROVE  /\ Cnt(gone, x) = Cnt(walk.removed, x) /\ Cnt(come, x) = Cnt(walk.added, x)
             /\ Cnt(old, x) - Cnt(gone, x) = Cnt(new, x) - Cnt(come, x)
             /\ Cnt(gone, x) <= Cnt(old, x) /\ Cnt(come, x) <= Cnt(new, x)
  <2>1. Cnt(gone, x) = Cnt(d.removed, x) + Cnt(Firsts(d.modified), x)
    BY <1>3, CntJoined
  <2>2. Cnt(come, x) = Cnt(d.added, x) + Cnt(Seconds(d.modified), x)
    BY <1>3, CntJoined
  <2> HIDE DEF gone, come
  <2>3. Cnt(gone, x) = Cnt(walk.removed, x) /\ Cnt(come, x) = Cnt(walk.added, x)
    BY <1>2, <2>1, <2>2 DEF Holds
  <2> QED BY <1>1, <2>3 DEF Accounts
<1> HIDE DEF gone, come
<1>6. CountOf(old) (-) CountOf(gone) = CountOf(new) (-) CountOf(come)
  <2>1. CountOf(old) (-) CountOf(gone) = Excess(E, old, gone)
    BY <1>4, BagLess
  <2>2. CountOf(new) (-) CountOf(come) = Excess(E, new, come)
    BY <1>4, BagLess
  <2>3. \A x : Cnt(old, x) - Cnt(gone, x) = Cnt(new, x) - Cnt(come, x)
    BY <1>5
  <2>4. {y \in E : Cnt(old, y) - Cnt(gone, y) > 0} = {y \in E : Cnt(new, y) - Cnt(come, y) > 0}
    BY <2>3
  <2>5. Excess(E, old, gone) = Excess(E, new, come)
    BY <2>3, <2>4 DEF Excess
  <2> QED BY <2>1, <2>2, <2>5
<1>7. CountOf(gone) \sqsubseteq CountOf(old) /\ CountOf(come) \sqsubseteq CountOf(new)
  BY <1>4, <1>5, BagWithin
<1>8. Len(old) - Len(d.removed) - Len(d.modified) = k
  <2>1. Len(d.removed) + Len(d.modified) = Len(walk.removed) /\ Len(walk.removed) = Len(old) - k
    BY <1>1, <1>2 DEF Holds, Accounts
  <2>2. Len(d.removed) \in Nat /\ Len(d.modified) \in Nat /\ Len(old) \in Nat /\ k \in Nat
    <3>1. k \in Nat
      BY LcsIs, LessLeft
    <3>2. Len(d.removed) \in Nat /\ Len(d.modified) \in Nat
      BY <1>2 DEF Pairings
    <3> QED BY <3>1, <3>2
  <2> HIDE DEF k
  <2>3. PICK i \in Nat, j \in Nat, n \in Nat, c \in Nat :
          i = Len(d.removed) /\ j = Len(d.modified) /\ n = Len(old) /\ c = k
    BY <2>2
  <2>4. i + j = n - c
    BY <2>1, <2>3
  <2>5. n - i - j = c
    BY <2>4
  <2> QED BY <2>3, <2>5
<1>9. k = Max({Cardinality(m) : m \in Matchings(old, new)})
  BY LargestMatching
<1>10. Exact(old, new, d)
  <2> HIDE DEF k
  <2> QED BY <1>6, <1>7, <1>8, <1>9 DEF Exact, gone, come
<1> QED BY <1>2, <1>10 DEF Diff, d, walk

-----------------------------------------------------------------------------
(* Every report, in every behaviour *)

\* What a page can show is made of lines.
LEMMA ContentsAreLines == Contents \subseteq Seq(Lines)
<1>1. ASSUME NEW c \in Contents PROVE c \in Seq(Lines)
  <2>1. PICK m \in 0..MaxLines : c \in [1..m -> Lines]
    BY DEF Contents, BoundedSeq, SeqOf
  <2> QED BY <2>1
<1> QED BY <1>1

\* Two empty pages do not differ.
LEMMA DiffOfEmpty ==
  ASSUME NEW E, NEW s \in Seq(E), Len(s) = 0
  PROVE  Diff(s, s) = [removed |-> s, added |-> s, modified |-> << >>]
<1> DEFINE z == <<1, 1>>
<1>1. z \in Places(s, s)
  BY LessLeft
<1>2. z[1] = 1 /\ z[2] = 1
  OBVIOUS
<1>3. Rest(s, 1) = s
  <2>1. 1 \in 1..Len(s) + 1
    OBVIOUS
  <2> QED BY <2>1, RestIs
<1>4. 1 > Len(s)
  OBVIOUS
<1>5. Walk(s, s) = [removed |-> s, added |-> s]
  <2>1. PICK w : WalkTable(E, s, s, w)
    BY WalkIs
  <2>2. Walk(s, s) = WalkAt(s, s, w, z)
    BY <1>1, <2>1 DEF WalkTable
  <2> HIDE DEF z
  <2> QED BY <1>2, <1>3, <1>4, <2>2, Zenon DEF WalkAt
<1>6. Walk(s, s) \in Walks(E) /\ Walk(s, s).removed = s /\ Walk(s, s).added = s
  BY <1>5 DEF Walks
<1>7. Pair(Walk(s, s)) = [removed |-> s, added |-> s, modified |-> << >>]
  <2>1. PICK w : PairTable(E, Walk(s, s), w)
    BY <1>6, PairIs
  <2>2. Pair(Walk(s, s)) = PairAt(s, s, w, z)
    BY <1>1, <1>6, <2>1 DEF PairTable
  <2> HIDE DEF z
  <2> QED BY <1>2, <1>3, <1>4, <2>2, Zenon DEF PairAt
<1> QED BY <1>7 DEF Diff

\* So the report there is before the first is a difference as well.
LEMMA DiffOfNothing == Diff(<< >>, << >>) = NoChange.diff
<1>1. << >> \in Seq(Lines) /\ Len(<< >>) = 0
  OBVIOUS
<1>2. Diff(<< >>, << >>) = [removed |-> << >>, added |-> << >>, modified |-> << >>]
  BY <1>1, DiffOfEmpty, Zenon
<1> QED BY <1>2 DEF NoChange

\* WatchInv holds throughout.
LEMMA WatchInvHolds == WatchSpec => []WatchInv
<1> DEFINE Watched == [url : Urls, baseline : Contents \cup {NoBaseline}]
<1>1. WatchInit => WatchInv
  BY DiffOfNothing DEF WatchInit, WatchInv, NoChange, NotChecking, Free
<1>2. WatchInv /\ [WatchNext]_watchVars => WatchInv'
  <2> SUFFICES ASSUME WatchInv, [WatchNext]_watchVars PROVE WatchInv'
    OBVIOUS
  <2>0. /\ watchers \in Seq(Watched) /\ change.old \in Seq(Lines) /\ change.new \in Seq(Lines)
        /\ change.diff = Diff(change.old, change.new)
        /\ checking \in [next : Nat, found : Nat] /\ (Free \/ checking.next > 0)
    BY DEF WatchInv
  <2>1. CASE Watch
    <3>1. watchers' \in Seq(Watched)
      <4>1. PICK u \in Urls : watchers' = Append(watchers, [url |-> u, baseline |-> NoBaseline])
        BY <2>1 DEF Watch
      <4>2. [url |-> u, baseline |-> NoBaseline] \in Watched
        OBVIOUS
      <4> HIDE DEF Watched
      <4> QED BY <2>0, <4>1, <4>2
    <3>2. change' = change /\ checking' = checking
      BY <2>1 DEF Watch
    <3> QED BY <2>0, <3>1, <3>2 DEF WatchInv, Free
  <2>2. CASE Unwatch
    <3>1. watchers' \in Seq(Watched)
      <4>1. PICK n \in DOMAIN watchers : watchers' = RemoveAt(watchers, n)
        BY <2>2 DEF Unwatch
      <4> HIDE DEF Watched
      <4>2. SubSeq(watchers, 1, n - 1) \in Seq(Watched)
        <5>1. \A k \in 1..n - 1 : watchers[k] \in Watched
          BY <2>0, <4>1
        <5> QED BY <2>0, <4>1, <5>1, SubSeqProperties
      <4>3. SubSeq(watchers, n + 1, Len(watchers)) \in Seq(Watched)
        <5>1. \A k \in n + 1..Len(watchers) : watchers[k] \in Watched
          BY <2>0, <4>1
        <5> QED BY <2>0, <4>1, <5>1, SubSeqProperties
      <4> QED BY <4>1, <4>2, <4>3 DEF RemoveAt
    <3>2. change' = change /\ checking' = checking
      BY <2>2 DEF Unwatch
    <3> QED BY <2>0, <3>1, <3>2 DEF WatchInv, Free
  <2>3. CASE UpdateBaseline
    <3>1. watchers' \in Seq(Watched)
      <4>1. PICK n \in DOMAIN watchers, c \in Contents : watchers' = [watchers EXCEPT ![n].baseline = c]
        BY <2>3 DEF UpdateBaseline
      <4>2. [watchers[n] EXCEPT !.baseline = c] \in Watched
        <5>1. watchers[n] \in Watched
          <6> HIDE DEF Watched
          <6> QED BY <2>0, <4>1
        <5> QED BY <5>1
      <4>3. watchers' = [watchers EXCEPT ![n] = [watchers[n] EXCEPT !.baseline = c]]
        BY <4>1, Zenon
      <4> HIDE DEF Watched
      <4> QED BY <2>0, <4>1, <4>2, <4>3
    <3>2. change' = change /\ checking' = checking
      BY <2>3 DEF UpdateBaseline
    <3> QED BY <2>0, <3>1, <3>2 DEF WatchInv, Free
  <2>4. CASE CheckAll \/ FetchFails \/ CheckEnds
    <3>1. watchers' = watchers /\ change' = change
      BY <2>4 DEF CheckAll, FetchFails, CheckEnds
    <3>2. checking' \in [next : Nat, found : Nat] /\ (Free' \/ checking'.next > 0)
      BY <2>4 DEF CheckAll, FetchFails, CheckEnds, Free, NotChecking
    <3> QED BY <2>0, <3>1, <3>2 DEF WatchInv
  <2>5. CASE CheckPage
    <3>1. watchers' = watchers
      BY <2>5 DEF CheckPage
    <3>2. change'.old \in Seq(Lines) /\ change'.new \in Seq(Lines) /\ change'.diff = Diff(change'.old, change'.new)
      <4> DEFINE old == watchers[checking.next].baseline
      <4>1. PICK new \in Contents :
              \/ old = NoBaseline /\ change' = [NoChange EXCEPT !.kind = "structure"]
              \/ old # NoBaseline /\ change' = change
              \/ /\ old # NoBaseline
                 /\ change' = [kind |-> KindOf(Diff(old, new)), old |-> old, new |-> new, diff |-> Diff(old, new)]
        BY <2>5, Zenon DEF CheckPage, Reports
      <4>2. CASE change' = [NoChange EXCEPT !.kind = "structure"]
        <5>1. change'.old = << >> /\ change'.new = << >> /\ change'.diff = NoChange.diff
          BY <4>2 DEF NoChange
        <5> QED BY <5>1, DiffOfNothing
      <4>3. CASE change' = change
        BY <2>0, <4>3
      <4>4. ASSUME old # NoBaseline,
                   change' = [kind |-> KindOf(Diff(old, new)), old |-> old, new |-> new, diff |-> Diff(old, new)]
            PROVE  change'.old \in Seq(Lines) /\ change'.new \in Seq(Lines)
                   /\ change'.diff = Diff(change'.old, change'.new)
        <5>1. checking.next \in DOMAIN watchers
          BY <2>0, <2>5 DEF CheckPage
        <5>2. old \in Contents
          <6>1. watchers[checking.next] \in Watched
            <7> HIDE DEF Watched
            <7> QED BY <2>0, <5>1
          <6> QED BY <4>4, <6>1
        <5>3. change'.old = old /\ change'.new = new /\ change'.diff = Diff(old, new)
          BY <4>4
        <5> QED BY <5>2, <5>3, ContentsAreLines
      <4> QED BY <4>1, <4>2, <4>3, <4>4
    <3>3. checking' \in [next : Nat, found : Nat] /\ checking'.next > 0
      <4>1. \/ checking' = [checking EXCEPT !.next = @ + 1]
            \/ checking' = [next |-> checking.next + 1, found |-> checking.found + 1]
        BY <2>5, Zenon DEF CheckPage, Reports
      <4> QED BY <2>0, <4>1
    <3> QED BY <2>0, <3>1, <3>2, <3>3 DEF WatchInv
  <2>6. CASE UNCHANGED watchVars
    BY <2>0, <2>6 DEF WatchInv, watchVars, Free
  <2> QED BY <2>1, <2>2, <2>3, <2>4, <2>5, <2>6 DEF WatchNext
<1> QED BY <1>1, <1>2, PTL DEF WatchSpec

\* Whatever pages are watched and whatever their owners and the network do, a
\* report accounts for both pages line by line and keeps as much of them as two
\* pages read in order can have in common (compute_diff, pair_changes).
THEOREM DiffIsExactHolds == WatchSpec => []DiffIsExact
<1>1. WatchInv => DiffIsExact
  <2> SUFFICES ASSUME WatchInv PROVE DiffIsExact
    OBVIOUS
  <2>1. Exact(change.old, change.new, change.diff)
    BY DiffOfTwo DEF WatchInv
  <2> QED BY <2>1, Zenon DEF DiffIsExact, Exact
<1> QED BY <1>1, WatchInvHolds, PTL
=============================================================================
