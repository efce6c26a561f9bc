-------------------------------- MODULE Cron --------------------------------
(***************************************************************************)
(* lucy-scheduler's cron expressions (crates/lucy-scheduler/src/cron.rs):   *)
(* what each way of writing a field is parsed to, what the parsed field     *)
(* matches, and next_after's minute-by-minute search.  A text is the shape  *)
(* of a field with its numbers; the calendar is a small regular one whose   *)
(* fields keep the real ones' lower bounds and the parser's weekday bound,  *)
(* which is one more than the last weekday.                                 *)
(***************************************************************************)
EXTENDS Integers, FiniteSets

CONSTANTS Size,    \* Size[f]: how many values field f takes
          Texts,   \* the expressions asked about: field -> text
          SearchStarts,  \* the minutes next_after is called at
          Limit    \* how far the search goes (five years in the code)

Fields  == {"minute", "hour", "day_of_month", "month", "day_of_week"}
Lowest  == [f \in Fields |-> IF f \in {"day_of_month", "month"} THEN 1 ELSE 0]
Values(f)  == Lowest[f] .. Lowest[f] + Size[f] - 1
Highest(f) == IF f = "day_of_week" THEN Size[f] ELSE Lowest[f] + Size[f] - 1

\* The numbers of a range are parsed as u32.
ASSUME CronAssumption ==
  /\ \A f \in Fields : Size[f] \in Nat \ {0}
  /\ SearchStarts \subseteq Nat /\ Limit \in Nat
  /\ \A x \in Texts : \A f \in Fields :
       /\ x[f].form \in {"*", "v", "a-b", "list", "*/n", "a-b/n", "a/n"}
       /\ x[f].form = "a-b" => x[f].a \in Nat /\ x[f].b \in Nat
       /\ x[f].form = "*/n" => x[f].n \in Nat

VARIABLES text, from,
          expr,       \* the parsed fields, <<>> until parsed
          candidate,
          stage       \* "text", "refused", "searching", "found", "none"

cronVars == <<text, from, expr, candidate, stage>>

----------------------------------------------------------------------------
(* CronField::parse and CronField::matches *)

Any         == [kind |-> "any"]
Specific(v) == [kind |-> "specific", v |-> v]
Span(a, b)  == [kind |-> "range", lo |-> a, hi |-> b]
List(vs)    == [kind |-> "list", vs |-> vs]
Step(n, hi) == [kind |-> "step", n |-> n, hi |-> hi]
Error       == [kind |-> "error"]

Parse(s, min, max) ==
  LET inRange == min <= s.a /\ s.a <= s.b /\ s.b <= max IN
  CASE s.form = "*"     -> Any
    [] s.form = "*/n"   -> IF s.n \in 1..max THEN Step(s.n, max) ELSE Error
    [] s.form = "a-b/n" -> IF s.n > 0 /\ inRange THEN Step(s.n, s.b) ELSE Error
    [] s.form = "a/n"   -> IF s.n > 0 /\ s.a \in min..max THEN Step(s.n, max) ELSE Error
    [] s.form = "a-b"   -> IF inRange THEN Span(s.a, s.b) ELSE Error
    [] s.form = "list"  -> IF s.vs \subseteq min..max THEN List(s.vs) ELSE Error
    [] s.form = "v"     -> IF s.v \in min..max THEN Specific(s.v) ELSE Error

\* Slip: the upper end of a range is left out.
MatchesShort(field, value) ==
  CASE field.kind = "any"      -> TRUE
    [] field.kind = "specific" -> value = field.v
    [] field.kind = "range"    -> field.lo <= value /\ value < field.hi
    [] field.kind = "list"     -> value \in field.vs
    [] field.kind = "step"     -> value % field.n = 0 /\ value <= field.hi

Matches(field, value) ==
  CASE field.kind = "any"      -> TRUE
    [] field.kind = "specific" -> value = field.v
    [] field.kind = "range"    -> field.lo <= value /\ value <= field.hi
    [] field.kind = "list"     -> value \in field.vs
    [] field.kind = "step"     -> value % field.n = 0 /\ value <= field.hi

----------------------------------------------------------------------------
(* CronExpression *)

\* What DateTime<Utc> says of minute t.
Reading(t) ==
  LET hours == t \div Size["minute"]
      days  == hours \div Size["hour"]
  IN [minute       |-> t % Size["minute"],
      hour         |-> hours % Size["hour"],
      day_of_month |-> 1 + (days % Size["day_of_month"]),
      month        |-> 1 + ((days \div Size["day_of_month"]) % Size["month"]),
      day_of_week  |-> days % Size["day_of_week"]]

ExprMatches(e, t) == \A f \in Fields : Matches(e[f], Reading(t)[f])

CronInit ==
  /\ text \in Texts /\ from \in SearchStarts
  /\ expr = << >> /\ candidate = from /\ stage = "text"

\* parse, and the first candidate of next_after: the minute after `from`.
ParseExpr ==
  /\ stage = "text"
  /\ LET e == [f \in Fields |-> Parse(text[f], Lowest[f], Highest(f))]
     IN IF Error \in {e[f] : f \in Fields}
        THEN stage' = "refused" /\ UNCHANGED <<expr, candidate>>
        ELSE stage' = "searching" /\ expr' = e /\ candidate' = from + 1
  /\ UNCHANGED <<text, from>>

Search ==
  /\ stage = "searching"
  /\ IF candidate > from + Limit THEN stage' = "none" /\ UNCHANGED candidate
     ELSE IF ExprMatches(expr, candidate) THEN stage' = "found" /\ UNCHANGED candidate
     ELSE candidate' = candidate + 1 /\ UNCHANGED stage
  /\ UNCHANGED <<text, from, expr>>

CronNext == ParseExpr \/ Search

CronSpec == CronInit /\ [][CronNext]_cronVars

----------------------------------------------------------------------------
(* What standard cron means by a text, written without the parser: day 7 of the
   week is Sunday again, a step counts from where its range begins, and when both
   day fields are restricted a day that satisfies either will do. *)

\* The numbers that stand in a field, and whether it is well formed.
Named(s) ==
  CASE s.form = "v"                  -> {s.v}
    [] s.form = "list"               -> s.vs
    [] s.form \in {"a-b", "a-b/n"}   -> {s.a, s.b}
    [] s.form = "a/n"                -> {s.a}
    [] s.form \in {"*", "*/n"}       -> {}
Legal(s, f) ==
  /\ Named(s) \subseteq Lowest[f]..Highest(f)
  /\ s.form \in {"a-b", "a-b/n"} => s.a <= s.b
  /\ s.form \in {"*/n", "a-b/n", "a/n"} => s.n >= 1

Sunday(f, v) == IF f = "day_of_week" THEN v % Size[f] ELSE v
Covered(s, f) ==
  CASE s.form \in {"*", "*/n"}     -> Values(f)
    [] s.form \in {"v", "list"}    -> Named(s)
    [] s.form \in {"a-b", "a-b/n"} -> s.a..s.b
    [] s.form = "a/n"              -> s.a..Highest(f)
Start(s, f) == IF s.form = "*/n" THEN Lowest[f] ELSE s.a
Means(s, f) ==
  {Sunday(f, v) : v \in {w \in Covered(s, f) :
     s.form \in {"*/n", "a-b/n", "a/n"} => (w - Start(s, f)) % s.n = 0}}

Restricted(s) == s.form \notin {"*", "*/n"}
BothDays(x)   == Restricted(x["day_of_month"]) /\ Restricted(x["day_of_week"])
IsDue(t) ==
  LET due(f) == Reading(t)[f] \in Means(text[f], f) IN
  /\ due("minute") /\ due("hour") /\ due("month")
  /\ IF BothDays(text) THEN due("day_of_month") \/ due("day_of_week")
     ELSE due("day_of_month") /\ due("day_of_week")

\* The texts lucy reads the standard way: not a step from a value or of a range, not a
\* step on a field that begins at one or one beyond the field, not Sunday as 7, and
\* not both days restricted.
Common(s, f) ==
  /\ s.form \in {"*", "v", "a-b", "list", "*/n"}
  /\ s.form = "*/n" => Lowest[f] = 0 /\ s.n <= Highest(f)
  /\ f = "day_of_week" => Size[f] \notin Named(s)
CommonText == ~BothDays(text) /\ \A f \in Fields : Common(text[f], f)

\* A common text is refused exactly when a field of it is ill formed; of one that is
\* accepted, next_after (cron.rs) answers with the first minute after `from` that
\* standard cron runs it at, and with none only when there is none within the limit.
FirstMatch ==
  CommonText =>
    /\ stage = "refused" => \E f \in Fields : ~Legal(text[f], f)
    /\ stage \in {"searching", "found", "none"} => \A f \in Fields : Legal(text[f], f)
    /\ stage = "found" =>
         /\ candidate > from /\ IsDue(candidate)
         /\ \A t \in from + 1 .. candidate - 1 : ~IsDue(t)
    /\ stage = "none" => \A t \in from + 1 .. from + Limit : ~IsDue(t)

\* What is behind it: the expression is the text's, and what the search has passed
\* does not match it.
Parsed == [f \in Fields |-> Parse(text[f], Lowest[f], Highest(f))]
SearchInv ==
  /\ text \in Texts /\ from \in SearchStarts /\ candidate \in Nat
  /\ stage \in {"text", "refused", "searching", "found", "none"}
  /\ stage = "refused" => \E f \in Fields : Parsed[f] = Error
  /\ stage \in {"searching", "found", "none"} =>
       /\ expr = Parsed /\ \A f \in Fields : Parsed[f] # Error
       /\ candidate > from /\ \A t \in from + 1 .. candidate - 1 : ~ExprMatches(expr, t)
       /\ stage = "found" => ExprMatches(expr, candidate)
       /\ stage = "none" => candidate > from + Limit
=============================================================================
