------------------------------ MODULE Provider -------------------------------
(***************************************************************************)
(* One call of lucy-agent's provider (crates/lucy-agent/src/provider.rs):  *)
(* complete_text_on, complete_json_on and complete_with_tools_on over      *)
(* post_json, which sends a request up to three times and watches the      *)
(* interrupt while it sends and waits; and how a JSON document is got out  *)
(* of a reply (extract_json and its two recoveries). What the service      *)
(* answers is the environment's choice. A reply is a document as far as it *)
(* was sent, with prose or a code fence around it, as a sequence of        *)
(* tokens: brackets, commas, quotes and the escape sign, keys (with their  *)
(* colon), other scalars, words, and the half of a token an output ceiling *)
(* leaves.                                                                 *)
(***************************************************************************)
EXTENDS Integers, Sequences, SequencesExt, FiniteSetsExt

CONSTANTS MaxCalls,   \* bound on the calls made
          Bodies,     \* what a string of a reply holds
          Prose       \* what stands before a document, or behind it

ASSUME ProviderAssumption == MaxCalls \in Nat

Operations == {"text", "json", "tools"}

VARIABLES phase,     \* where the call is
          op,        \* which of the three it is
          attempt,
          stopped,   \* the interrupt signal
          sends,     \* requests sent, of this call
          spent,     \* replies received whose tokens were spent, of all calls
          usage,     \* replies counted in the cumulative usage
          log,       \* records in the model-call log: one entry per record
          results    \* what the calls returned
providerVars == <<phase, op, attempt, stopped, sends, spent, usage, log, results>>

ProviderInit ==
  /\ phase = "idle" /\ op = "text" /\ attempt = 0 /\ stopped = FALSE /\ sends = 0
  /\ spent = 0 /\ usage = 0 /\ log = << >> /\ results = << >>

\* Every way out writes its record, then returns.
Ends(record, result) ==
  /\ phase' = "idle"
  /\ log' = Append(log, record) /\ results' = Append(results, result)

EndsCancelled == Ends("failed", "cancelled")

\* The tests before the request: the interrupt, then whether there is a model.
\* None of them awaits, so an interrupt between two of them is one after both.
CallsModel(o, named) ==
  /\ phase = "idle" /\ Len(results) < MaxCalls
  /\ op' = o
  /\ \/ stopped /\ EndsCancelled /\ UNCHANGED <<attempt, sends>>
     \/ ~stopped /\ ~named /\ Ends("failed", "failed") /\ UNCHANGED <<attempt, sends>>
     \/ /\ ~stopped /\ named /\ phase' = "sending" /\ attempt' = 1 /\ sends' = 1
        /\ UNCHANGED <<log, results>>
  /\ UNCHANGED <<stopped, spent, usage>>

\* The interrupt wins the race against the send or the wait.
Notified ==
  /\ phase \in {"sending", "backoff"} /\ stopped
  /\ EndsCancelled
  /\ UNCHANGED <<op, attempt, stopped, sends, spent, usage>>

Attempts == 3
\* The send returns: a transport error, 429 or a server error are worth another
\* attempt, any other refusal is not.
SendReturns(outcome) ==
  /\ phase = "sending"
  /\ \/ outcome = "success" /\ phase' = "body" /\ UNCHANGED <<log, results>>
     \/ outcome = "refused" /\ Ends("failed", "failed")
     \/ outcome = "busy" /\ attempt >= Attempts /\ Ends("failed", "failed")
     \/ outcome = "busy" /\ attempt < Attempts /\ stopped /\ EndsCancelled
     \/ /\ outcome = "busy" /\ attempt < Attempts /\ ~stopped
        /\ phase' = "backoff" /\ UNCHANGED <<log, results>>
  /\ UNCHANGED <<op, attempt, stopped, sends, spent, usage>>

\* After the wait the interrupt is looked at again, and the next attempt sent.
Slept ==
  /\ phase = "backoff"
  /\ \/ stopped /\ EndsCancelled /\ UNCHANGED <<attempt, sends>>
     \/ /\ ~stopped /\ phase' = "sending" /\ attempt' = attempt + 1 /\ sends' = sends + 1
        /\ UNCHANGED <<log, results>>
  /\ UNCHANGED <<op, stopped, spent, usage>>

\* Slip: only a reply that can be used is counted.
CountsUsable(content) == IF content \in {"usable", "text"} THEN 1 ELSE 0
\* The usage is added before the content is looked at.
Counts(content) == 1

\* The body: read without an eye on the interrupt, parsed, counted, and its
\* content judged by what was asked for.  Text is what JSON mode and a tool turn
\* can turn out to be instead of what they asked for.
Usable(o, content) ==
  CASE o = "text"  -> content = "text"
    [] o = "json"  -> content = "usable"
    [] o = "tools" -> content \in {"usable", "text"}

\* complete_text_on() writes its record before it looks whether there is a text.
Record(o, content) ==
  IF o = "text" \/ Usable(o, content) THEN "ok" ELSE "failed"

BodyRead(content) ==
  /\ phase = "body"
  /\ spent' = spent + 1 /\ usage' = usage + Counts(content)
  /\ Ends(Record(op, content), IF Usable(op, content) THEN "ok" ELSE "failed")
  /\ UNCHANGED <<op, attempt, stopped, sends>>

\* The connection drops, the client's timeout passes, or it is no JSON.
BodyFails ==
  /\ phase = "body"
  /\ Ends("failed", "failed")
  /\ UNCHANGED <<op, attempt, stopped, sends, spent, usage>>

Stops ==
  /\ ~stopped /\ stopped' = TRUE
  /\ UNCHANGED <<phase, op, attempt, sends, spent, usage, log, results>>
Resets ==
  /\ stopped /\ phase = "idle" /\ stopped' = FALSE
  /\ UNCHANGED <<phase, op, attempt, sends, spent, usage, log, results>>

Contents == {"usable", "text", "garbage", "nothing"}
ProviderNext ==
  \/ \E o \in Operations, named \in BOOLEAN : CallsModel(o, named)
  \/ Notified \/ Slept \/ BodyFails \/ Stops \/ Resets
  \/ \E outcome \in {"success", "refused", "busy"} : SendReturns(outcome)
  \/ \E content \in Contents : BodyRead(content)

ProviderSpec == ProviderInit /\ [][ProviderNext]_providerVars

----------------------------------------------------------------------------
\* On whichever of its ways a call ends, it has left one record, a call that
\* worked is recorded as one that did, and the tokens of every reply that came
\* are in the total, whether or not the reply could be used.
CallsAddUp ==
  /\ Len(log) = Len(results) /\ usage = spent
  /\ \A i \in 1..Len(log) : results[i] = "ok" => log[i] = "ok"
  /\ \A i \in 1..Len(log) : results[i] = "cancelled" => log[i] = "failed"
  /\ sends <= Attempts

\* What is behind it: every attempt is one request, and a call waits only while
\* it has an attempt left.
CallsInv ==
  /\ phase \in {"idle", "sending", "backoff", "body"} /\ op \in Operations
  /\ attempt \in 0..Attempts /\ sends = attempt /\ (phase = "backoff" => attempt < Attempts)
  /\ spent \in Nat /\ usage \in Nat
  /\ log \in Seq({"ok", "failed"}) /\ results \in Seq({"ok", "failed", "cancelled"})
  /\ CallsAddUp

----------------------------------------------------------------------------
(* Reading a JSON reply: a step of its own, with variables of its own *)

VARIABLES sent,    \* the document, how much of it came, and what stands around it
          answer   \* << >> until extracted, then the document or Error
replyVars == <<sent, answer>>

----------------------------------------------------------------------------
(* Documents: what serde_json parses, two levels of members, two a container. *)
(* The strings of one document all hold the same.                             *)
Strings == {<<"quote">> \o s \o <<"quote">> : s \in Bodies}
Members(V) == {<< >>} \cup V \cup {v \o <<",">> \o w : v \in V, w \in V}
Containers(V) ==
  {<<"{">> \o m \o <<"}">> : m \in Members({<<"key">> \o v : v \in V})}
  \cup {<<"[">> \o m \o <<"]">> : m \in Members(V)}
DocumentsOf(V) == Containers(V \cup Containers(V))
Documents == UNION {DocumentsOf({<<"scalar">>, s}) : s \in Strings}
Error == <<"error">>
Parse(t) == IF t \in Documents THEN t ELSE Error

\* The document as it came; the ceiling may fall inside its last token.
Came(r) ==
  IF r.half THEN SubSeq(r.doc, 1, r.upto - 1) \o <<"half">> ELSE SubSeq(r.doc, 1, r.upto)
Text(r) ==
  r.before \o (IF r.fenced THEN <<"fence">> ELSE << >>) \o Came(r)
    \o (IF r.fenced /\ r.upto = Len(r.doc) THEN <<"fence">> ELSE << >>) \o r.after

\* A reply that was cut has nothing behind the cut; only keys and scalars are
\* longer than a character.
Sendable(r) ==
  /\ r.upto < Len(r.doc) => r.after = << >>
  /\ r.half => r.upto < Len(r.doc) /\ r.doc[r.upto] \in {"key", "scalar"}
Replies ==
  {r \in UNION {[doc : {d}, upto : 1..Len(d), half : BOOLEAN, fenced : BOOLEAN,
                 before : Prose, after : Prose] : d \in Documents} : Sendable(r)}

ReplyInit == sent \in Replies /\ answer = << >>

----------------------------------------------------------------------------
Opens(t)  == {i \in 1..Len(t) : t[i] \in {"{", "["}}
Closer(o) == IF o = "{" THEN "}" ELSE "]"
Onward(t, i) == [k \in 1..(Len(t) - i + 1) |-> i + k - 1]

\* Where both scanners are, in_str and esc together, behind a token.  A key is two
\* quotes and leaves them where they were.
Follows(mode, token) ==
  CASE mode = "escaped" -> "quoted"
    [] mode = "quoted" /\ token = "escape" -> "escaped"
    [] mode = "quoted" /\ token = "quote" -> "plain"
    [] mode = "plain" /\ token = "quote" -> "quoted"
    [] OTHER -> mode

\* truncated_json_prefix(), one token outside strings: the open containers, each
\* with the place its last finished member ends at (0 for none).
Bracket(t, state, i) ==
  LET stack == state.stack
      n == Len(stack) IN
  CASE t[i] \in {"{", "["} ->
         [state EXCEPT !.stack = Append(stack, [open |-> t[i], last |-> 0])]
    [] t[i] \in {"}", "]"} ->
         IF n = 0 \/ Closer(stack[n].open) # t[i] THEN [state EXCEPT !.broken = TRUE]
         ELSE [state EXCEPT !.stack = IF n = 1 THEN << >>
                                      ELSE [Front(stack) EXCEPT ![n - 1].last = i]]
    [] t[i] = "," /\ n > 0 -> [state EXCEPT !.stack = [stack EXCEPT ![n].last = i - 1]]
    [] OTHER -> state

Scan(t, state, i) ==
  IF state.broken THEN state
  ELSE [(IF state.mode = "plain" THEN Bracket(t, state, i) ELSE state)
          EXCEPT !.mode = Follows(state.mode, t[i])]

\* The scan starts at the first opener, wherever that stands.
Scanned(t) ==
  FoldLeft(LAMBDA state, i : Scan(t, state, i),
           [stack |-> << >>, broken |-> FALSE, mode |-> "plain"], Onward(t, Min(Opens(t))))

\* What is left open is cut behind the innermost finished member and closed.
TruncatedPrefix(t) ==
  IF Opens(t) = {} THEN Error
  ELSE LET end   == Scanned(t)
           stack == end.stack
           keeps == {k \in 1..Len(stack) : stack[k].last # 0} IN
       IF end.broken \/ stack = << >> \/ keeps = {} THEN Error
       ELSE Parse(SubSeq(t, Min(Opens(t)), stack[Max(keeps)].last)
                  \o [k \in 1..Max(keeps) |-> Closer(stack[Max(keeps) + 1 - k].open)])

\* The first brace outside a string, for a scan that starts at i outside one.
NextBrace(t, i) ==
  LET Step(state, k) ==
        IF state.at # 0 THEN state
        ELSE IF state.mode = "plain" /\ t[k] \in {"{", "}"} THEN [state EXCEPT !.at = k]
        ELSE [state EXCEPT !.mode = Follows(state.mode, t[k])]
  IN  FoldLeft(Step, [mode |-> "plain", at |-> 0], Onward(t, i)).at

\* largest_balanced_object(): the scan from an opening brace, also one inside a
\* string, ends at the first closing one, whether or not that balances it.
Balanced(t) ==
  {b \in {<<i, NextBrace(t, i + 1)>> : i \in {k \in 1..Len(t) : t[k] = "{"}} :
     b[2] # 0 /\ t[b[2]] = "}"}
Longer(b, c) == b[2] - b[1] > c[2] - c[1] \/ (b[2] - b[1] = c[2] - c[1] /\ b[1] < c[1])
LargestBalanced(t) ==
  IF Balanced(t) = {} THEN Error
  ELSE LET best == CHOOSE b \in Balanced(t) : \A c \in Balanced(t) \ {b} : Longer(b, c)
       IN Parse(SubSeq(t, best[1], best[2]))

\* A fence is taken off only where the reply starts with it.
Unfenced(t) ==
  IF t[1] # "fence" THEN Error
  ELSE LET ends == {i \in 2..Len(t) : t[i] = "fence"}
       IN Parse(SubSeq(t, 2, IF ends = {} THEN Len(t) ELSE Max(ends) - 1))

\* Slip: the finished object is looked for before the cut is repaired.
ExtractBalancedFirst(t) ==
  LET found == SelectSeq(<<Parse(t), Unfenced(t), LargestBalanced(t), TruncatedPrefix(t)>>,
                         LAMBDA v : v # Error)
  IN IF found = << >> THEN Error ELSE found[1]

\* extract_json(): the first of its readings that parses.
ExtractJson(t) ==
  LET found == SelectSeq(<<Parse(t), Unfenced(t), TruncatedPrefix(t), LargestBalanced(t)>>,
                         LAMBDA v : v # Error)
  IN IF found = << >> THEN Error ELSE found[1]

Extract ==
  /\ answer = << >> /\ answer' = ExtractJson(Text(sent)) /\ UNCHANGED sent
ReplyNext == Extract

----------------------------------------------------------------------------
HasPiece(t, piece) == \E i \in 1..Len(t) : IsPrefix(piece, SubSeq(t, i, Len(t)))

\* The replies whose JSON is found at its place when they are cut: the preamble
\* opens no bracket, and no string holds an object.
Findable(r) ==
  /\ Opens(r.before) = {}
  /\ \A s \in Bodies :
       HasPiece(s, <<"{", "}">>) => ~HasPiece(r.doc, <<"quote">> \o s \o <<"quote">>)

\* A reply cut by the output ceiling yields the document as far as it came, its
\* containers closed, or nothing: never a piece from its inside that the caller's
\* schema does not match.
CutKeepsShape ==
  Findable(sent) /\ sent.upto < Len(sent.doc) /\ answer \notin {<< >>, Error} =>
    \E n \in 1..sent.upto :
      /\ n < Len(answer) /\ SubSeq(answer, 1, n) = SubSeq(sent.doc, 1, n)
      /\ \A k \in (n + 1)..Len(answer) : answer[k] \in {"}", "]"}

\* "Return the largest balanced {...} substring" (provider.rs, of
\* largest_balanced_object): a complete object between prose without
\* braces is returned whole.
LargestIsTaken ==
  LET whole  == sent.upto = Len(sent.doc) /\ sent.doc[1] = "{"
      braces == HasPiece(sent.before \o sent.after, <<"{">>)
  IN  whole /\ ~braces /\ answer # << >> => answer = sent.doc
=============================================================================
