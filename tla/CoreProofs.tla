----------------------------- MODULE CoreProofs -----------------------------
(***************************************************************************)
(* The approval gate and the interrupt signal, for any tools, ids, modes,  *)
(* threads and any number of prompts and fires.                            *)
(***************************************************************************)
EXTENDS ApprovalGate, InterruptSignal, SequenceTheorems, FiniteSetTheorems, TLAPS

-----------------------------------------------------------------------------
\* The approval gate: one answer allows at most one call.

Untouched(n) == UNCHANGED <<prompts[n].id, prompts[n].said>>

\* The prompts are finitely many, and so are those that carry an allow.
LEMMA FinitelyMany ==
  ASSUME GateTypeOK, NEW i
  PROVE  /\ DOMAIN prompts = 1..Len(prompts) /\ Len(prompts) \in Nat
         /\ IsFiniteSet(Bearing(i)) /\ Cardinality(Bearing(i)) \in Nat
         /\ IsFiniteSet(Given(i)) /\ Cardinality(Given(i)) \in Nat
<1>1. DOMAIN prompts = 1..Len(prompts) /\ Len(prompts) \in Nat
  BY LenProperties DEF GateTypeOK
<1>2. IsFiniteSet(DOMAIN prompts)
  BY <1>1, FS_Interval
<1>3. Bearing(i) \subseteq DOMAIN prompts /\ Given(i) \subseteq DOMAIN prompts
  BY DEF Bearing, Given
<1> QED BY <1>1, <1>2, <1>3, FS_Subset, FS_CardinalityType

\* A set grows by at most one with an element, and by one with a new element.
LEMMA OneMore ==
  ASSUME NEW S, IsFiniteSet(S), NEW x
  PROVE  /\ IsFiniteSet(S \cup {x})
         /\ Cardinality(S \cup {x}) <= Cardinality(S) + 1
         /\ x \notin S => Cardinality(S \cup {x}) = Cardinality(S) + 1
<1>1. IsFiniteSet(S \cup {x}) /\ Cardinality(S) \in Nat
  BY FS_AddElement, FS_CardinalityType
<1>2. Cardinality(S \cup {x}) = IF x \in S THEN Cardinality(S) ELSE Cardinality(S) + 1
  BY FS_AddElement
<1> QED BY <1>1, <1>2

\* A step that makes no prompt carry an allow and leaves what the user said alone.
LEMMA NoNewAllow ==
  ASSUME AnswerInv, GateTypeOK', Len(prompts') >= Len(prompts),
         \A n \in DOMAIN prompts : Untouched(n) /\ (Carries(n)' => Carries(n)),
         \A n \in DOMAIN prompts' \ DOMAIN prompts : ~Carries(n)' /\ prompts'[n].said = None,
         \A i \in Ids : \/ pending'[i] \in {0, pending[i]}
                        \/ pending'[i] \in DOMAIN prompts' /\ prompts'[pending'[i]].id = i
  PROVE  AnswerInv'
<1>a. GateTypeOK
  BY DEF AnswerInv
<1>1. /\ DOMAIN prompts = 1..Len(prompts) /\ Len(prompts) \in Nat
      /\ DOMAIN prompts' = 1..Len(prompts') /\ Len(prompts') \in Nat
  BY <1>a, LenProperties DEF GateTypeOK
<1>2. DOMAIN prompts \subseteq DOMAIN prompts'
  BY <1>1
<1>3. \A i \in Ids : pending'[i] # 0 => prompts'[pending'[i]].id = i
  <2>1. \A i \in Ids : pending[i] # 0 => pending[i] \in DOMAIN prompts
    BY <1>a, <1>1 DEF GateTypeOK
  <2> QED BY <2>1 DEF AnswerInv, Untouched
<1>4. ASSUME NEW i \in Ids PROVE Cardinality(Bearing(i)') <= Cardinality(Given(i)')
  <2>1. Bearing(i)' \subseteq Bearing(i)
    <3>1. ASSUME NEW n \in DOMAIN prompts', prompts'[n].id = i, Carries(n)' PROVE n \in Bearing(i)
      BY <3>1 DEF Bearing, Untouched
    <3> QED BY <3>1 DEF Bearing
  <2>2. Given(i)' = Given(i)
    <3>1. ASSUME NEW n \in DOMAIN prompts' PROVE n \in Given(i)' <=> n \in Given(i)
      BY <1>2 DEF Given, Untouched, None, Allows
    <3>2. Given(i)' \subseteq DOMAIN prompts' /\ Given(i) \subseteq DOMAIN prompts'
      BY <1>2 DEF Given
    <3> QED BY <3>1, <3>2
  <2>3. /\ IsFiniteSet(Bearing(i)) /\ Cardinality(Bearing(i)) \in Nat
        /\ Cardinality(Given(i)) \in Nat
    BY <1>a, FinitelyMany
  <2>4. Cardinality(Bearing(i)') <= Cardinality(Bearing(i)) /\ Cardinality(Bearing(i)') \in Nat
    BY <2>1, <2>3, FS_Subset, FS_CardinalityType
  <2> QED BY <2>2, <2>3, <2>4 DEF AnswerInv
<1> QED BY <1>3, <1>4 DEF AnswerInv

\* One prompt moves on; what the user said on it stays.
LEMMA OneMoves ==
  ASSUME AnswerInv, NEW n \in DOMAIN prompts, NEW p \in Prompt, prompts' = [prompts EXCEPT ![n] = p],
         p.id = prompts[n].id, p.said = prompts[n].said,
         p.answer \in Allows \/ p.result \in Allows => Carries(n),
         pending' \in [Ids -> 0..Len(prompts)], \A i \in Ids : pending'[i] \in {0, pending[i]},
         taken' \subseteq taken, always' \subseteq Tools,
         UNCHANGED <<listening, mode, stop, draining>>
  PROVE  AnswerInv'
<1>a. GateTypeOK /\ DOMAIN prompts = 1..Len(prompts) /\ prompts \in Seq(Prompt)
  BY LenProperties DEF AnswerInv, GateTypeOK
<1>1. /\ prompts' \in Seq(Prompt) /\ Len(prompts') = Len(prompts) /\ DOMAIN prompts' = DOMAIN prompts
      /\ \A m \in DOMAIN prompts : prompts'[m] = IF m = n THEN p ELSE prompts[m]
  BY <1>a, ExceptSeq
<1>2. GateTypeOK'
  BY <1>a, <1>1 DEF GateTypeOK
<1>3. \A m \in DOMAIN prompts : Untouched(m) /\ (Carries(m)' => Carries(m))
  BY <1>1 DEF Untouched, Carries, Allowed
<1>4. Len(prompts') >= Len(prompts) /\ DOMAIN prompts' \ DOMAIN prompts = {}
  BY <1>a, <1>1, LenProperties
<1> QED BY <1>2, <1>3, <1>4, NoNewAllow

\* The prompts stay, and so does every sender or it is taken with a refusal.
LEMMA PromptsStay ==
  ASSUME AnswerInv, GateTypeOK', prompts' = prompts,
         \A i \in Ids : pending'[i] \in {0, pending[i]},
         \A n \in DOMAIN prompts, d \in Allows : <<n, d>> \in taken' => <<n, d>> \in taken
  PROVE  AnswerInv'
<1>1. \A n \in DOMAIN prompts : Untouched(n) /\ (Carries(n)' => Carries(n))
  BY DEF Untouched, Carries, Allowed
<1>2. Len(prompts') >= Len(prompts) /\ DOMAIN prompts' \ DOMAIN prompts = {}
  BY LenProperties DEF AnswerInv, GateTypeOK
<1> QED BY <1>1, <1>2, NoNewAllow

\* No prompt is open at first.
LEMMA AnswerInit == GateInit => AnswerInv
<1> SUFFICES ASSUME GateInit PROVE AnswerInv
  OBVIOUS
<1>1. prompts = << >> /\ << >> \in Seq(Prompt) /\ Len(prompts) = 0
  BY EmptySeq DEF GateInit
<1>2. GateTypeOK
  <2>1. Len(prompts) <= MaxPrompts /\ pending \in [Ids -> 0..Len(prompts)]
    BY <1>1, GateAssumption DEF GateInit
  <2> QED BY <1>1, <2>1 DEF GateInit, GateTypeOK
<1>3. ASSUME NEW i \in Ids PROVE Bearing(i) = {} /\ Given(i) = {}
  BY <1>1 DEF Bearing, Given
<1>4. Cardinality({}) <= Cardinality({})
  BY FS_EmptySet
<1> QED BY <1>2, <1>3, <1>4 DEF AnswerInv, GateInit

\* Opening a prompt adds one on which nobody has said anything.
LEMMA OpenKeeps ==
  ASSUME AnswerInv, NEW i \in Ids, NEW tool \in Tools, OpenPrompt(i, tool)
  PROVE  AnswerInv'
<1> DEFINE p == [id |-> i, tool |-> tool, at |-> "opened", woken |-> FALSE,
                 shown |-> listening, said |-> None, answer |-> None, result |-> None]
           new == Len(prompts) + 1
<1>1. /\ Len(prompts) < MaxPrompts /\ prompts' = Append(prompts, p)
      /\ pending' = [pending EXCEPT ![i] = new]
      /\ UNCHANGED <<taken, listening, mode, always, stop, draining>>
  BY DEF OpenPrompt
<1>a. GateTypeOK /\ prompts \in Seq(Prompt) /\ DOMAIN prompts = 1..Len(prompts) /\ Len(prompts) \in Nat
  BY LenProperties DEF AnswerInv, GateTypeOK
<1>2. p \in Prompt
  BY <1>a DEF Prompt, GateTypeOK
<1>3. /\ p.id = i /\ p.said = None /\ p.answer = None /\ p.result = None
  OBVIOUS
<1> HIDE DEF p
<1>4. /\ prompts' \in Seq(Prompt) /\ Len(prompts') = new /\ DOMAIN prompts' = 1..new
      /\ \A n \in DOMAIN prompts : prompts'[n] = prompts[n]
      /\ prompts'[new] = p
  BY <1>a, <1>1, <1>2, AppendProperties, LenProperties
<1>5. GateTypeOK'
  BY <1>a, <1>1, <1>4, GateAssumption DEF GateTypeOK
<1>6. \A n \in DOMAIN prompts : Untouched(n) /\ (Carries(n)' => Carries(n))
  BY <1>1, <1>4 DEF Untouched, Carries, Allowed
<1>7. \A n \in DOMAIN prompts' \ DOMAIN prompts : ~Carries(n)' /\ prompts'[n].said = None
  <2>1. \A n \in DOMAIN prompts' \ DOMAIN prompts : n = new
    BY <1>a, <1>4
  <2>2. \A d \in Decisions : <<new, d>> \notin taken
    BY <1>a DEF GateTypeOK
  <2> QED BY <1>1, <1>3, <1>4, <2>1, <2>2 DEF Carries, Allowed, Allows, None, Decisions
<1>8. \A j \in Ids : \/ pending'[j] \in {0, pending[j]}
                     \/ pending'[j] \in DOMAIN prompts' /\ prompts'[pending'[j]].id = j
  BY <1>a, <1>1, <1>3, <1>4 DEF GateTypeOK
<1>9. Len(prompts') >= Len(prompts)
  BY <1>a, <1>4
<1> QED BY <1>5, <1>6, <1>7, <1>8, <1>9, NoNewAllow

\* A call goes on waiting, or comes back with what its channel carried, or refused.
LEMMA CallKeeps ==
  ASSUME AnswerInv, NEW n \in DOMAIN prompts, Wakeup(n) \/ TimeOut(n)
  PROVE  AnswerInv'
<1>a. /\ GateTypeOK /\ prompts[n] \in Prompt /\ prompts[n].id \in Ids
      /\ prompts[n].tool \in Tools
  <2>1. GateTypeOK /\ prompts[n] \in Prompt
    BY LenProperties DEF AnswerInv, GateTypeOK
  <2> QED BY <2>1 DEF Prompt
<1>b. \A pend : pend = pending \/ pend = [pending EXCEPT ![prompts[n].id] = 0] =>
        /\ pend \in [Ids -> 0..Len(prompts)] /\ \A i \in Ids : pend[i] \in {0, pending[i]}
  BY <1>a, LenProperties DEF GateTypeOK
<1>1. CASE Await(n)
  <2> DEFINE p == [prompts[n] EXCEPT !.at = "waiting", !.woken = stop]
  <2>1. /\ prompts' = [prompts EXCEPT ![n] = p]
        /\ UNCHANGED <<pending, taken, listening, mode, always, stop, draining>>
    BY <1>1 DEF Await
  <2>2. /\ p \in Prompt /\ p.id = prompts[n].id /\ p.said = prompts[n].said
        /\ p.answer = prompts[n].answer /\ p.result = prompts[n].result
    BY <1>a DEF Prompt, GateTypeOK
  <2>3. always' \subseteq Tools
    BY <1>a, <2>1 DEF GateTypeOK
  <2> HIDE DEF p
  <2> QED BY <1>b, <2>1, <2>2, <2>3, OneMoves DEF Carries, Allowed
<1>2. ASSUME NEW result \in Decisions \cup {"Stopped"}, Return(n, result),
             prompts[n].result = result \/ prompts[n].answer = result \/ result \notin Allows,
             pending' = pending \/ Discard(n), always' \subseteq Tools,
             UNCHANGED <<taken, listening, mode, stop, draining>>
      PROVE  AnswerInv'
  <2> DEFINE p == [prompts[n] EXCEPT !.at = "over", !.result = result]
  <2>1. prompts' = [prompts EXCEPT ![n] = p]
    BY <1>2 DEF Return
  <2>2. /\ p \in Prompt /\ p.id = prompts[n].id /\ p.said = prompts[n].said
        /\ p.answer = prompts[n].answer /\ p.result = result
    BY <1>a DEF Prompt
  <2>3. pending' \in [Ids -> 0..Len(prompts)] /\ \A i \in Ids : pending'[i] \in {0, pending[i]}
    BY <1>b, <1>2 DEF Discard
  <2> HIDE DEF p
  <2> QED BY <1>2, <2>1, <2>2, <2>3, OneMoves DEF Carries, Allowed
<1>3. CASE Answered(n)
  <2>1. prompts[n].answer \in Decisions
    BY <1>a, <1>3 DEF Answered, Prompt
  <2>2. always' \subseteq Tools
    BY <1>a, <1>3 DEF Answered, GateTypeOK
  <2> QED BY <1>2, <1>3, <2>1, <2>2 DEF Answered
<1>4. CASE Closed(n) \/ TimeOut(n) \/ Interrupted(n)
  <2>1. {"Deny", "Stopped"} \cap Allows = {} /\ {"Deny", "Stopped"} \subseteq Decisions \cup {"Stopped"}
    BY DEF Allows, Decisions
  <2>2. always' \subseteq Tools /\ (pending' = pending \/ Discard(n))
    BY <1>a, <1>4 DEF Closed, TimeOut, Interrupted, GateTypeOK
  <2>3. /\ Return(n, "Deny") \/ Return(n, "Stopped")
        /\ UNCHANGED <<taken, listening, mode, stop, draining>>
    BY <1>4 DEF Closed, TimeOut, Interrupted
  <2> QED BY <1>2, <2>1, <2>2, <2>3
<1> QED BY <1>1, <1>3, <1>4 DEF Wakeup

\* A user's answer: it adds one to the answers given and at most one prompt to
\* those that carry an allow, both under the id the card was shown for.
LEMMA UserKeeps ==
  ASSUME AnswerInv, NEW n \in DOMAIN prompts, NEW d \in Decisions, UserAnswers(n, d)
  PROVE  AnswerInv'
<1> DEFINE p  == [prompts[n] EXCEPT !.said = d]
           id == prompts[n].id
           to == pending[id]
<1>a. /\ GateTypeOK /\ prompts[n] \in Prompt /\ id \in Ids /\ prompts \in Seq(Prompt)
      /\ DOMAIN prompts = 1..Len(prompts) /\ Len(prompts) \in Nat
  <2>1. GateTypeOK /\ prompts[n] \in Prompt
    BY LenProperties DEF AnswerInv, GateTypeOK
  <2> QED BY <2>1, LenProperties DEF Prompt, GateTypeOK
<1>b. to \in 0..Len(prompts) /\ (to # 0 => to \in DOMAIN prompts /\ prompts[to].id = id)
  BY <1>a DEF AnswerInv, GateTypeOK
<1>1. /\ prompts[n].said = None /\ prompts' = [prompts EXCEPT ![n] = p]
      /\ UNCHANGED <<listening, mode, always, stop, draining>>
  BY DEF UserAnswers
<1>2. \/ to # 0 /\ taken' = taken \cup {<<to, d>>} /\ pending' = [pending EXCEPT ![id] = 0]
      \/ to = 0 /\ UNCHANGED <<pending, taken>>
  BY DEF UserAnswers, Take
<1>3. /\ p \in Prompt /\ p.id = id /\ p.said = d /\ p.answer = prompts[n].answer
      /\ p.result = prompts[n].result
  BY <1>a DEF Prompt
<1> HIDE DEF p
<1>4. /\ prompts' \in Seq(Prompt) /\ Len(prompts') = Len(prompts) /\ DOMAIN prompts' = DOMAIN prompts
      /\ \A m \in DOMAIN prompts : prompts'[m] = IF m = n THEN p ELSE prompts[m]
  BY <1>a, <1>1, <1>3, ExceptSeq
<1>5. \A m \in DOMAIN prompts : /\ prompts'[m].id = prompts[m].id
                                /\ prompts'[m].answer = prompts[m].answer
                                /\ prompts'[m].result = prompts[m].result
                                /\ prompts'[m].said = IF m = n THEN d ELSE prompts[m].said
  BY <1>3, <1>4
<1>6. GateTypeOK'
  <2>1. pending' \in [Ids -> 0..Len(prompts)] /\ taken' \subseteq (1..Len(prompts)) \X Decisions
    BY <1>a, <1>b, <1>2 DEF GateTypeOK
  <2> QED BY <1>a, <1>1, <1>4, <2>1 DEF GateTypeOK
<1>7. \A i \in Ids : pending'[i] # 0 => prompts'[pending'[i]].id = i
  <2>1. \A i \in Ids : pending[i] # 0 => pending[i] \in DOMAIN prompts
    BY <1>a DEF GateTypeOK
  <2> QED BY <1>a, <1>2, <1>5, <2>1 DEF AnswerInv, GateTypeOK
<1>8. ASSUME NEW i \in Ids PROVE Cardinality(Bearing(i)') <= Cardinality(Given(i)')
  <2>1. /\ IsFiniteSet(Bearing(i)) /\ Cardinality(Bearing(i)) \in Nat
        /\ IsFiniteSet(Given(i)) /\ Cardinality(Given(i)) \in Nat
        /\ Cardinality(Bearing(i)) <= Cardinality(Given(i))
    BY <1>a, FinitelyMany DEF AnswerInv
  <2>2. \A m \in DOMAIN prompts, e \in Allows :
           <<m, e>> \in taken' => <<m, e>> \in taken \/ (m = to /\ e = d)
    BY <1>2
  <2>3. CASE i = id /\ d \in Allows
    <3>1. Bearing(i)' \subseteq Bearing(i) \cup {to}
      BY <1>4, <1>5, <2>2 DEF Bearing, Carries, Allowed
    <3>2. Given(i)' = Given(i) \cup {n} /\ n \notin Given(i)
      <4>1. \A m \in DOMAIN prompts : m \in Given(i)' <=> m \in Given(i) \cup {n}
        BY <1>4, <1>5, <2>3 DEF Given
      <4>2. n \notin Given(i)
        BY <1>1 DEF Given, None, Allows
      <4> QED BY <1>4, <4>1, <4>2 DEF Given
    <3>3. IsFiniteSet(Bearing(i) \cup {to}) /\ Cardinality(Bearing(i) \cup {to}) <= Cardinality(Bearing(i)) + 1
      BY <2>1, OneMore
    <3>4. Cardinality(Given(i)') = Cardinality(Given(i)) + 1
      BY <2>1, <3>2, OneMore
    <3>5. Cardinality(Bearing(i)') <= Cardinality(Bearing(i) \cup {to})
          /\ Cardinality(Bearing(i)') \in Nat /\ Cardinality(Bearing(i) \cup {to}) \in Nat
      BY <3>1, <3>3, FS_Subset, FS_CardinalityType
    <3> QED BY <2>1, <3>3, <3>4, <3>5
  <2>4. CASE i # id \/ d \notin Allows
    <3>1. Bearing(i)' \subseteq Bearing(i)
      BY <1>b, <1>4, <1>5, <2>2, <2>4 DEF Bearing, Carries, Allowed
    <3>2. Given(i)' = Given(i)
      <4>1. \A m \in DOMAIN prompts : m \in Given(i)' <=> m \in Given(i)
        BY <1>1, <1>4, <1>5, <2>4 DEF Given, None, Allows
      <4> QED BY <1>4, <4>1 DEF Given
    <3>3. Cardinality(Bearing(i)') <= Cardinality(Bearing(i)) /\ Cardinality(Bearing(i)') \in Nat
      BY <2>1, <3>1, FS_Subset, FS_CardinalityType
    <3> QED BY <2>1, <3>2, <3>3
  <2> QED BY <2>3, <2>4
<1> QED BY <1>6, <1>7, <1>8 DEF AnswerInv

\* A taken sender is used: its prompt carried the decision already.
LEMMA SendKeeps ==
  ASSUME AnswerInv, NEW n \in DOMAIN prompts, NEW d \in Decisions, Send(n, d)
  PROVE  AnswerInv'
<1>a. GateTypeOK /\ prompts[n] \in Prompt
  BY LenProperties DEF AnswerInv, GateTypeOK
<1>1. /\ <<n, d>> \in taken /\ taken' = taken \ {<<n, d>>}
      /\ UNCHANGED <<pending, listening, mode, always, stop, draining>>
  BY DEF Send
<1>2. always' \subseteq Tools /\ pending' \in [Ids -> 0..Len(prompts)]
      /\ \A i \in Ids : pending'[i] \in {0, pending[i]}
  BY <1>a, <1>1 DEF GateTypeOK
<1>3. CASE n \in Live
  <2> DEFINE p == [prompts[n] EXCEPT !.answer = d]
  <2>1. prompts' = [prompts EXCEPT ![n] = p]
    BY <1>3 DEF Send
  <2>2. /\ p \in Prompt /\ p.id = prompts[n].id /\ p.said = prompts[n].said
        /\ p.answer = d /\ p.result = prompts[n].result
    BY <1>a DEF Prompt
  <2>3. p.answer \in Allows \/ p.result \in Allows => Carries(n)
    BY <1>1, <2>2 DEF Carries, Allowed
  <2> HIDE DEF p
  <2> QED BY <1>1, <1>2, <2>1, <2>2, <2>3, OneMoves
<1>4. CASE n \notin Live
  <2>1. prompts' = prompts
    BY <1>4 DEF Send
  <2>2. GateTypeOK'
    BY <1>a, <1>1, <2>1 DEF GateTypeOK
  <2> QED BY <1>1, <1>2, <2>1, <2>2, PromptsStay
<1> QED BY <1>3, <1>4

\* The kill switch wakes calls and denies: it carries no allow to any prompt.
LEMMA StopKeeps ==
  ASSUME AnswerInv, \/ Fire \/ PendingIds \/ GateReset
                    \/ \E i \in Ids : DenyPending(i)
  PROVE  AnswerInv'
<1>a. /\ GateTypeOK /\ prompts \in Seq(Prompt) /\ DOMAIN prompts = 1..Len(prompts)
      /\ Len(prompts) \in Nat /\ prompts \in [1..Len(prompts) -> Prompt]
  BY LenProperties DEF AnswerInv, GateTypeOK
<1>1. CASE Fire
  <2>1. /\ prompts' = [n \in DOMAIN prompts |->
                         [prompts[n] EXCEPT !.woken = prompts[n].woken \/ prompts[n].at = "waiting"]]
        /\ stop' = TRUE
        /\ UNCHANGED <<pending, taken, listening, mode, always, draining>>
    BY <1>1 DEF Fire
  <2>2. ASSUME NEW n \in DOMAIN prompts
        PROVE  /\ prompts'[n] \in Prompt /\ prompts'[n].id = prompts[n].id
               /\ prompts'[n].said = prompts[n].said /\ prompts'[n].answer = prompts[n].answer
               /\ prompts'[n].result = prompts[n].result
    <3>1. prompts[n] \in Prompt
      BY <1>a
    <3>2. prompts'[n] = [prompts[n] EXCEPT !.woken = prompts[n].woken \/ prompts[n].at = "waiting"]
      BY <2>1
    <3> QED BY <3>1, <3>2 DEF Prompt
  <2>3. DOMAIN prompts' = 1..Len(prompts) /\ prompts' \in [1..Len(prompts) -> Prompt]
    BY <1>a, <2>1, <2>2
  <2>4. prompts' \in Seq(Prompt) /\ Len(prompts') = Len(prompts)
    BY <1>a, <2>3, SeqDef, LenProperties
  <2>5. GateTypeOK'
    BY <1>a, <2>1, <2>4 DEF GateTypeOK
  <2>6. \A n \in DOMAIN prompts : Untouched(n) /\ (Carries(n)' => Carries(n))
    BY <2>1, <2>2 DEF Untouched, Carries, Allowed
  <2>7. /\ Len(prompts') >= Len(prompts) /\ DOMAIN prompts' \ DOMAIN prompts = {}
        /\ \A i \in Ids : pending'[i] \in {0, pending[i]}
    BY <1>a, <2>1, <2>3, <2>4
  <2> QED BY <2>5, <2>6, <2>7, NoNewAllow
<1>2. CASE PendingIds \/ GateReset
  <2>1. GateTypeOK' /\ UNCHANGED <<prompts, pending, taken>>
    BY <1>a, <1>2 DEF PendingIds, GateReset, GateTypeOK
  <2> QED BY <2>1, PromptsStay
<1>3. ASSUME NEW i \in Ids, DenyPending(i) PROVE AnswerInv'
  <2>1. /\ \/ taken' = taken \cup {<<pending[i], "Deny">>} /\ pending' = [pending EXCEPT ![i] = 0]
              /\ pending[i] # 0
           \/ UNCHANGED <<pending, taken>>
        /\ draining' = draining \ {i}
        /\ UNCHANGED <<prompts, listening, mode, always, stop>>
    BY <1>3 DEF DenyPending, Take
  <2>2. pending[i] \in 0..Len(prompts) /\ "Deny" \in Decisions /\ "Deny" \notin Allows
    BY <1>a DEF GateTypeOK, Decisions, Allows
  <2>3. /\ pending' \in [Ids -> 0..Len(prompts)] /\ \A j \in Ids : pending'[j] \in {0, pending[j]}
        /\ taken' \subseteq (1..Len(prompts)) \X Decisions
        /\ \A n \in DOMAIN prompts, d \in Allows : <<n, d>> \in taken' => <<n, d>> \in taken
    BY <1>a, <2>1, <2>2 DEF GateTypeOK
  <2>4. GateTypeOK'
    BY <1>a, <2>1, <2>3 DEF GateTypeOK
  <2> QED BY <2>1, <2>3, <2>4, PromptsStay
<1> QED BY <1>1, <1>2, <1>3

\* Every step of the gate keeps AnswerInv.
LEMMA AnswerStep == AnswerInv /\ [GateNext]_gateVars => AnswerInv'
<1> SUFFICES ASSUME AnswerInv, [GateNext]_gateVars PROVE AnswerInv'
  OBVIOUS
<1>1. ASSUME \/ \E m \in Modes : SetMode(m)
             \/ \E b \in BOOLEAN : SetEvents(b)
             \/ UNCHANGED gateVars
      PROVE  AnswerInv'
  <2>1. GateTypeOK' /\ UNCHANGED <<prompts, pending, taken>>
    BY <1>1 DEF AnswerInv, SetMode, SetEvents, GateTypeOK, gateVars
  <2> QED BY <2>1, PromptsStay
<1> QED BY <1>1, OpenKeeps, CallKeeps, UserKeeps, SendKeeps, StopKeeps DEF GateNext

\* AnswerInv holds throughout.
LEMMA AnswerInvHolds == GateSpec => []AnswerInv
BY AnswerInit, AnswerStep, PTL DEF GateSpec

\* Every reachable state of the gate has the types GateTypeOK gives it.
THEOREM GateTypeCorrect == GateSpec => []GateTypeOK
BY AnswerInvHolds, PTL DEF AnswerInv

\* Under every id no more calls are allowed than allowing answers were given to
\* its cards, in whatever order prompts, answers, timeouts and stops come.
THEOREM OneAnswerOneCallHolds == GateSpec => []OneAnswerOneCall
<1>1. AnswerInv => OneAnswerOneCall
  <2> SUFFICES ASSUME AnswerInv, NEW i \in Ids
               PROVE  Cardinality({n \in DOMAIN prompts : prompts[n].id = i /\ Allowed(n)})
                        <= Cardinality(Given(i))
    BY DEF OneAnswerOneCall, Given
  <2> DEFINE allowed == {n \in DOMAIN prompts : prompts[n].id = i /\ Allowed(n)}
  <2>1. allowed \subseteq Bearing(i)
    BY DEF Bearing, Carries
  <2>2. /\ IsFiniteSet(Bearing(i)) /\ Cardinality(Bearing(i)) \in Nat
        /\ Cardinality(Given(i)) \in Nat /\ Cardinality(Bearing(i)) <= Cardinality(Given(i))
    BY FinitelyMany DEF AnswerInv
  <2> HIDE DEF allowed
  <2>3. Cardinality(allowed) <= Cardinality(Bearing(i)) /\ Cardinality(allowed) \in Nat
    BY <2>1, <2>2, FS_Subset, FS_CardinalityType
  <2>4. Cardinality(allowed) <= Cardinality(Given(i))
    BY <2>2, <2>3
  <2> QED BY <2>4 DEF allowed
<1> QED BY <1>1, AnswerInvHolds, PTL
-----------------------------------------------------------------------------
\* The interrupt signal: NoLostWakeup and NoLostFire are inductive given TypeOK.

USE DEF Goto

\* Every reachable state has the types TypeOK gives it.
THEOREM TypeCorrect == Spec => []TypeOK
<1>1. Init => TypeOK
  <2> SUFFICES ASSUME Init PROVE TypeOK
    OBVIOUS
  <2>1. pc \in [Threads -> Steps]
    BY DEF Init, Steps
  <2>2. seen \in [Threads -> Nat]
    BY DEF Init
  <2> QED BY <2>1, <2>2 DEF Init, TypeOK
<1>2. TypeOK /\ [Next]_vars => TypeOK'
  <2> SUFFICES ASSUME TypeOK, [Next]_vars PROVE TypeOK'
    OBVIOUS
  <2> USE DEF TypeOK, Steps
  <2>1. CASE Reset
    BY <2>1 DEF Reset
  <2>2. ASSUME NEW t \in Threads, Call(t) PROVE TypeOK'
    BY <2>2 DEF Call, FireBump, SampleEpoch, WaitEnable
  <2>3. ASSUME NEW t \in Threads, Resume(t) PROVE TypeOK'
    <3>1. CASE FireStore(t) \/ FireNotify(t)
      BY <3>1 DEF FireStore, FireNotify, NotifyWaiters
    <3>2. CASE ResetCheck(t) \/ ResetClear(t) \/ ResetRecheck(t)
      BY <3>2 DEF ResetCheck, ResetClear, ResetRecheck
    <3>3. CASE ResetRestore(t) \/ ResetNotify(t)
      BY <3>3 DEF ResetRestore, ResetNotify, NotifyWaiters
    <3>4. CASE WaitCheck(t) \/ WaitReturn(t)
      BY <3>4 DEF WaitCheck, WaitReturn
    <3> QED BY <2>3, <3>1, <3>2, <3>3, <3>4 DEF Resume
  <2>4. CASE UNCHANGED vars
    BY <2>4 DEF vars
  <2> QED BY <2>1, <2>2, <2>3, <2>4 DEF Next
<1> QED BY <1>1, <1>2, PTL DEF Spec

\* A task blocked in notified() while the flag is up has been woken, or the
\* thread that raised the flag has yet to run its notify_waiters().
THEOREM NoLostWakeupHolds == Spec => []NoLostWakeup
<1>1. Init => NoLostWakeup
  BY DEF Init, NoLostWakeup
<1>2. TypeOK /\ NoLostWakeup /\ [Next]_vars => NoLostWakeup'
  <2> SUFFICES ASSUME TypeOK, NoLostWakeup, [Next]_vars, flag',
                      NEW w \in Threads, pc'[w] = "wait", w \notin signalled'
               PROVE  \E t \in Threads : pc'[t] \in {"fire_notify", "reset_notify"}
    BY DEF NoLostWakeup
  <2> USE DEF TypeOK
  <2>1. CASE Reset
    BY <2>1 DEF Reset
  <2>2. ASSUME NEW t \in Threads, Call(t)
        PROVE  \E u \in Threads : pc'[u] \in {"fire_notify", "reset_notify"}
    BY <2>2 DEF Call, FireBump, SampleEpoch, WaitEnable, NoLostWakeup
  <2>3. ASSUME NEW t \in Threads, Resume(t)
        PROVE  \E u \in Threads : pc'[u] \in {"fire_notify", "reset_notify"}
    <3>1. CASE FireStore(t) \/ ResetRestore(t)
      \* t itself now owes the notification.
      BY <3>1 DEF FireStore, ResetRestore
    <3>2. CASE FireNotify(t) \/ ResetNotify(t)
      \* w was registered, so t woke it.
      BY <3>2 DEF FireNotify, ResetNotify, NotifyWaiters
    <3>3. CASE ResetClear(t)
      BY <3>3 DEF ResetClear
    <3>4. CASE ResetCheck(t) \/ ResetRecheck(t)
      BY <3>4 DEF ResetCheck, ResetRecheck, NoLostWakeup
    <3>5. CASE WaitCheck(t) \/ WaitReturn(t)
      BY <3>5 DEF WaitCheck, WaitReturn, NoLostWakeup
    <3> QED BY <2>3, <3>1, <3>2, <3>3, <3>4, <3>5 DEF Resume
  <2>4. CASE UNCHANGED vars
    BY <2>4 DEF vars, NoLostWakeup
  <2> QED BY <2>1, <2>2, <2>3, <2>4 DEF Next
<1> QED BY <1>1, <1>2, TypeCorrect, PTL DEF Spec

\* reset_if_epoch never erases a fire it did not see: with the flag down, the
\* newest fire is accounted for or a call in progress will raise the flag.
THEOREM NoLostFireHolds == Spec => []NoLostFire
<1>1. Init => NoLostFire
  BY DEF Init, NoLostFire
<1>2. TypeOK /\ NoLostFire /\ [Next]_vars => NoLostFire'
  <2> SUFFICES ASSUME TypeOK, NoLostFire, [Next]_vars PROVE NoLostFire'
    OBVIOUS
  <2> USE DEF TypeOK, NoLostFire
  <2>1. CASE Reset
    BY <2>1 DEF Reset
  <2>2. ASSUME NEW t \in Threads, Call(t) PROVE NoLostFire'
    BY <2>2 DEF Call, FireBump, SampleEpoch, WaitEnable
  <2>3. ASSUME NEW t \in Threads, Resume(t) PROVE NoLostFire'
    <3>1. CASE FireStore(t) \/ FireNotify(t)
      BY <3>1 DEF FireStore, FireNotify
    <3>2. CASE ResetCheck(t) \/ ResetClear(t)
      BY <3>2 DEF ResetCheck, ResetClear
    <3>3. CASE ResetRecheck(t)
      BY <3>3 DEF ResetRecheck
    <3>4. CASE ResetRestore(t) \/ ResetNotify(t)
      BY <3>4 DEF ResetRestore, ResetNotify
    <3>5. CASE WaitCheck(t) \/ WaitReturn(t)
      BY <3>5 DEF WaitCheck, WaitReturn
    <3> QED BY <2>3, <3>1, <3>2, <3>3, <3>4, <3>5 DEF Resume
  <2>4. CASE UNCHANGED vars
    BY <2>4 DEF vars
  <2> QED BY <2>1, <2>2, <2>3, <2>4 DEF Next
<1> QED BY <1>1, <1>2, TypeCorrect, PTL DEF Spec
=============================================================================
