------------------------------ MODULE Knowledge ------------------------------
(***************************************************************************)
(* lucy-knowledge's store (crates/lucy-knowledge/src/store.rs, capture.rs): *)
(* one Markdown file per topic, the SQLite index over the files, and who    *)
(* changes them: captures detached after a turn, recall, /forget, the       *)
(* owner's editor, and /kb-dream, which promotes and then rebuilds the     *)
(* index.  Files and rows are written by separate steps; no lock is held    *)
(* across them.  A claim is its text; all claims the program captures are   *)
(* headingless, and each is short enough for a chunk.                       *)
(***************************************************************************)
EXTENDS Integers, Sequences, FiniteSets

CONSTANTS Claims,      \* texts the extractor may return
          Slugs,       \* topics
          SlugOf,      \* the topic a claim's text is filed under
          OriginOf,    \* Origin::classify of a claim: "owner", or "system"
          Captures,    \* capture tasks
          MinRecalls,  \* min_recalls_for_promotion
          MaxMerged,   \* claims of a topic that fit one chunk (MAX_CHUNK_CHARS)
          MaxLines,    \* bound on a file's lines, past which nothing is captured
          MaxRows,     \* bound on the rows and the captures under way together
          MaxFaults    \* bound on writes and statements that fail, and crashes

ASSUME KnowledgeAssumption ==
  /\ SlugOf \in [Claims -> Slugs] /\ OriginOf \in [Claims -> {"owner", "system"}]
  /\ MinRecalls \in Nat /\ MaxMerged \in Nat
  /\ MaxLines \in Nat /\ MaxRows \in Nat /\ MaxFaults \in Nat

VARIABLES rows,       \* kb_chunks, in insertion order
          file,       \* topics/<slug>.md
          pc,         \* where each capture is
          claim,      \* what it stores
          text,       \* the file as it read it
          dream,      \* /kb-dream: where it is, what is left, the row and file at hand
          uses,       \* how often recall landed on a topic, counted up to MinRecalls
          marked,     \* topics whose header the owner edited to `promoted: yes`
          forgotten,  \* topics under /forget, until something new is stored
          behind,     \* topics whose index may lack a claim: a row was refused or too
                      \* long, the process died, or a stale text was written back
          faults      \* failures so far

vars == <<rows, file, pc, claim, text, dream, uses, marked, forgotten, behind,
          faults>>

Origins == {"owner", "agent", "untrusted", "system"}
Title == "# title"
Blank == ""
Nothing == "nothing"
\* A claim is written as a bullet of at least one word (accept, write_topic_file).
ASSUME BulletAssumption == Claims \cap {Title, Blank} = {}

\* A topic file: its header's fields, what follows the header on its own
\* line, and the lines after it.
Absent == [origin |-> "none", promoted |-> FALSE, glued |-> Nothing, lines |-> << >>]
Lines == Claims \cup {Title, Blank}

File ==
  {f \in [origin : {"none", "owner", "system"}, promoted : BOOLEAN,
           glued : Lines \cup {Nothing}, lines : Seq(Lines)] :
     f.origin = "none" => f = Absent}
Chunk ==
  [slug : Slugs, body : Seq(Lines), origin : Origins, promoted : BOOLEAN,
   tomb : BOOLEAN, recalls : 0..MinRecalls]

TypeOK ==
  /\ rows \in Seq(Chunk)
  /\ file \in [Slugs -> File]
  /\ pc \in [Captures -> {"idle", "checked", "read", "written"}]
  /\ claim \in [Captures -> Claims \cup {Nothing}]
  /\ \A k \in Captures : pc[k] # "idle" => claim[k] \in Claims
  /\ text \in [Captures -> File]
  /\ dream \in [at : {"idle", "promoting", "rewriting", "rebuilding"},
               todo : SUBSET (Nat \cup Slugs), slug : Slugs \cup {Nothing}, text : File]
  /\ dream.at = "rewriting" => dream.slug \in Slugs /\ dream.text # Absent
  /\ uses \in [Slugs -> 0..MinRecalls]
  /\ marked \subseteq Slugs /\ forgotten \subseteq Slugs /\ behind \subseteq Slugs
  /\ faults \in 0..MaxFaults

Awake == [at |-> "idle", todo |-> {}, slug |-> Nothing, text |-> Absent]

Init ==
  /\ rows = << >> /\ file = [s \in Slugs |-> Absent]
  /\ pc = [k \in Captures |-> "idle"]
  /\ claim = [k \in Captures |-> Nothing]
  /\ text = [k \in Captures |-> Absent]
  /\ dream = Awake
  /\ uses = [s \in Slugs |-> 0]
  /\ marked = {} /\ forgotten = {} /\ behind = {} /\ faults = 0

----------------------------------------------------------------------------
Works == faults' = faults
Fails == faults < MaxFaults /\ faults' = faults + 1

\* Rows.
Row(slug, body, origin, promoted) ==
  [slug |-> slug, body |-> body, origin |-> origin, promoted |-> promoted,
   tomb |-> FALSE, recalls |-> 0]

Injectable(origin) == origin \in {"owner", "agent"}
Capped(n) == IF n < MinRecalls THEN n + 1 ELSE n
RowsOf(s) == {i \in DOMAIN rows : rows[i].slug = s}
Live == {i \in DOMAIN rows : ~rows[i].tomb}

\* Files.
Topics == {s \in Slugs : file[s] # Absent}
\* What a text says once its markup is stripped and its blanks are collapsed.
Claimed(ls) == SelectSeq(ls, LAMBDA l : l \in Claims)
Held(s) == {c \in Claims : \E i \in DOMAIN file[s].lines : file[s].lines[i] = c}

\* The text write_topic_file makes of the text it read.
Appended(f, c) ==
  IF f = Absent
  THEN [origin |-> OriginOf[c], promoted |-> FALSE, glued |-> Nothing, lines |-> <<Title, c>>]
  ELSE [f EXCEPT !.lines = @ \o (IF @ = << >> /\ f.glued = Nothing
                                 THEN <<c>> ELSE <<Blank, c>>)]

\* The text write_promotion makes: the header comes out without its newline,
\* so the line below it ends up behind it, where no reader looks; what was
\* there before is gone.
HeaderRewritten(f) ==
  [f EXCEPT !.promoted = TRUE,
            !.glued = IF f.lines = << >> THEN Nothing ELSE Head(f.lines),
            !.lines = IF @ = << >> THEN @ ELSE Tail(@)]

\* A file is written whole from the text that was read, whatever it holds now.
Put(s, old, new) ==
  /\ file' = [file EXCEPT ![s] = new]
  /\ behind' = IF old = file[s] THEN behind ELSE behind \cup {s}

----------------------------------------------------------------------------
\* store(): the duplicate check, the read and the write of the file, the row.
Check(k, c) ==
  /\ pc[k] = "idle"
  /\ Len(file[SlugOf[c]].lines) < MaxLines
  /\ Len(rows) + Cardinality({j \in Captures : pc[j] # "idle"}) < MaxRows
  /\ ~\E i \in RowsOf(SlugOf[c]) : Claimed(rows[i].body) = <<c>>
  /\ pc' = [pc EXCEPT ![k] = "checked"] /\ claim' = [claim EXCEPT ![k] = c]
  /\ UNCHANGED <<rows, file, text, dream, uses, marked, forgotten, behind, faults>>

Read(k) ==
  /\ pc[k] = "checked"
  /\ pc' = [pc EXCEPT ![k] = "read"]
  /\ text' = [text EXCEPT ![k] = file[SlugOf[claim[k]]]]
  /\ UNCHANGED <<rows, file, claim, dream, uses, marked, forgotten, behind, faults>>

\* An error of the write is dropped and the row follows all the same.
Write(k) ==
  /\ pc[k] = "read"
  /\ pc' = [pc EXCEPT ![k] = "written"]
  /\ \/ Works /\ Put(SlugOf[claim[k]], text[k], Appended(text[k], claim[k]))
     \/ Fails /\ UNCHANGED <<file, behind>>
  /\ text' = [text EXCEPT ![k] = Absent]
  /\ UNCHANGED <<rows, claim, dream, uses, marked, forgotten>>

Insert(k) ==
  LET s == SlugOf[claim[k]] IN
  /\ pc[k] = "written"
  /\ pc' = [pc EXCEPT ![k] = "idle"] /\ claim' = [claim EXCEPT ![k] = Nothing]
  /\ \/ /\ Works
        /\ rows' = Append(rows, Row(s, <<claim[k]>>, OriginOf[claim[k]], FALSE))
        /\ forgotten' = forgotten \ {s} /\ UNCHANGED behind
     \/ Fails /\ behind' = behind \cup {s} /\ UNCHANGED <<rows, forgotten>>
  /\ UNCHANGED <<file, text, dream, uses, marked>>

\* retrieve() for a prompt: a hit, then note_recall() on its topic's rows, the
\* tombstoned ones included.
Retrieve ==
  \E i \in Live :
    /\ rows[i].promoted /\ Injectable(rows[i].origin)
    /\ rows' = [j \in DOMAIN rows |->
                  IF j \in RowsOf(rows[i].slug)
                  THEN [rows[j] EXCEPT !.recalls = Capped(@)] ELSE rows[j]]
    /\ uses' = [uses EXCEPT ![rows[i].slug] = Capped(@)]
    /\ UNCHANGED <<file, pc, claim, text, dream, marked, forgotten, behind, faults>>

Forget(s) ==
  /\ RowsOf(s) \cap Live # {}
  /\ rows' = [i \in DOMAIN rows |->
                IF i \in RowsOf(s) THEN [rows[i] EXCEPT !.tomb = TRUE] ELSE rows[i]]
  /\ forgotten' = forgotten \cup {s}
  /\ UNCHANGED <<file, pc, claim, text, dream, uses, marked, behind, faults>>

\* The owner promotes a topic in an editor.
HandEdit(s) ==
  /\ s \in Topics /\ ~file[s].promoted
  /\ file' = [file EXCEPT ![s].promoted = TRUE]
  /\ marked' = marked \cup {s}
  /\ UNCHANGED <<rows, pc, claim, text, dream, uses, forgotten, behind, faults>>

----------------------------------------------------------------------------
\* /kb-dream: promote_recalled() over the candidates it listed, then reindex().
Candidates == {i \in Live : ~rows[i].promoted /\ Injectable(rows[i].origin)}

Dream ==
  /\ dream.at = "idle"
  /\ dream' = [dream EXCEPT !.at = "promoting", !.todo = Candidates]
  /\ UNCHANGED <<rows, file, pc, claim, text, uses, marked, forgotten, behind, faults>>

\* A slip: one recall too few.
EarnedSooner(i) == \E j \in RowsOf(rows[i].slug) : rows[j].recalls + 1 >= MinRecalls

\* recall_count() reads one row of the topic, whichever the database finds.
Earned(i) == \E j \in RowsOf(rows[i].slug) : rows[j].recalls >= MinRecalls
Unearned(i) == \E j \in RowsOf(rows[i].slug) : rows[j].recalls < MinRecalls

Skip(i) ==
  /\ dream.at = "promoting" /\ i \in dream.todo
  /\ Unearned(i)
  /\ dream' = [dream EXCEPT !.todo = @ \ {i}]
  /\ UNCHANGED <<rows, file, pc, claim, text, uses, marked, forgotten, behind, faults>>

\* promote(): the row, and the read of write_promotion().
Promote(i) ==
  /\ dream.at = "promoting" /\ i \in dream.todo
  /\ Earned(i) /\ Injectable(rows[i].origin)
  /\ rows' = [rows EXCEPT ![i].promoted = TRUE]
  /\ dream' = IF file[rows[i].slug] = Absent
              THEN [dream EXCEPT !.todo = @ \ {i}]
              ELSE [at |-> "rewriting", todo |-> dream.todo \ {i},
                    slug |-> rows[i].slug, text |-> file[rows[i].slug]]
  /\ UNCHANGED <<file, pc, claim, text, uses, marked, forgotten, behind, faults>>

WritePromotion ==
  /\ dream.at = "rewriting"
  /\ \/ Works /\ Put(dream.slug, dream.text, HeaderRewritten(dream.text))
     \/ Fails /\ UNCHANGED <<file, behind>>
  /\ dream' = [dream EXCEPT !.at = "promoting", !.slug = Nothing, !.text = Absent]
  /\ UNCHANGED <<rows, pc, claim, text, uses, marked, forgotten>>

\* reindex(): the table is emptied, then the directories are listed.  A file
\* that appears later is listed or not: its turn comes after or before.
Clear ==
  /\ dream.at = "promoting" /\ dream.todo = {}
  /\ \/ /\ Works /\ rows' = << >>
        /\ dream' = [dream EXCEPT !.at = "rebuilding", !.todo = Slugs]
     \/ Fails /\ dream' = Awake /\ UNCHANGED rows
  /\ UNCHANGED <<file, pc, claim, text, uses, marked, forgotten, behind>>

\* Slips: the header's word taken for the promotion; one claim kept per file.
RebuiltAsMarked(s) == Row(s, file[s].lines, file[s].origin, file[s].promoted)
RebuiltFirst(s) ==
  Row(s, SubSeq(file[s].lines, 1, IF Len(file[s].lines) < 2 THEN 1 ELSE 2),
      file[s].origin, file[s].promoted /\ Injectable(file[s].origin))

\* The row reindex() makes of a topic file: one chunk of all its claims under
\* the header's origin, promoted only if that origin may be.
Rebuilt(s) ==
  Row(s, file[s].lines, file[s].origin, file[s].promoted /\ Injectable(file[s].origin))

Indexed(s) == s \in Topics /\ Len(Claimed(file[s].lines)) \in 1..MaxMerged

Rebuild(s) ==
  /\ dream.at = "rebuilding" /\ s \in dream.todo
  /\ dream' = [dream EXCEPT !.todo = @ \ {s}]
  /\ \/ /\ Works
        /\ rows' = IF Indexed(s) THEN Append(rows, Rebuilt(s)) ELSE rows
        /\ behind' = IF Held(s) = {} \/ Indexed(s) THEN behind \ {s} ELSE behind \cup {s}
     \/ /\ Indexed(s) /\ Fails
        /\ behind' = behind \cup {s} /\ UNCHANGED rows
  /\ UNCHANGED <<file, pc, claim, text, uses, marked, forgotten>>

DreamEnds ==
  /\ dream.at = "rebuilding" /\ dream.todo = {}
  /\ dream' = Awake
  /\ UNCHANGED <<rows, file, pc, claim, text, uses, marked, forgotten, behind, faults>>

\* The process dies and starts again: rows and files stay, the tasks do not.
Crash ==
  /\ Fails
  /\ dream # Awake \/ \E k \in Captures : pc[k] # "idle"
  /\ pc' = [k \in Captures |-> "idle"]
  /\ claim' = [k \in Captures |-> Nothing] /\ text' = [k \in Captures |-> Absent]
  /\ dream' = Awake
  /\ behind' = behind \cup {SlugOf[claim[k]] : k \in {k \in Captures : pc[k] = "written"}}
                      \cup (IF dream.at = "rebuilding" THEN dream.todo \cap Topics ELSE {})
  /\ UNCHANGED <<rows, file, uses, marked, forgotten>>

----------------------------------------------------------------------------
Capture(k) == (\E c \in Claims : Check(k, c)) \/ Read(k) \/ Write(k) \/ Insert(k)

Dreaming ==
  \/ Dream \/ WritePromotion \/ Clear \/ DreamEnds
  \/ \E i \in dream.todo \cap DOMAIN rows : Skip(i) \/ Promote(i)
  \/ \E s \in Slugs : Rebuild(s)

Next ==
  \/ \E k \in Captures : Capture(k)
  \/ Retrieve
  \/ \E s \in Slugs : Forget(s) \/ HandEdit(s)
  \/ Dreaming
  \/ Crash

Spec == Init /\ [][Next]_vars

----------------------------------------------------------------------------
(* Quarantine: the origin of a chunk that automatic recall may inject is the
   owner or the agent, after any mix of captures, promotions, edits of a
   header, rebuilds and crashes. *)
QuarantineHolds ==
  \A i \in DOMAIN rows :
    rows[i].promoted => rows[i].origin \in {"owner", "agent"}

(* The promotion gate: /kb-dream promotes a chunk only when recall landed on
   its topic often enough, whatever was forgotten, duplicated or rebuilt since,
   and a rebuilt chunk is promoted only on that ground or because the owner
   said so in the file. *)
EarnsPromotion(i) ==
  LET s == rows'[i].slug IN
  \/ uses[s] >= MinRecalls
  \/ i \notin DOMAIN rows /\ s \in marked
PromotionIsEarned ==
  [][\A i \in DOMAIN rows' :
       rows'[i].promoted /\ ~(i \in DOMAIN rows /\ rows[i].promoted) => EarnsPromotion(i)]_vars

(* What the gate rests on, as an invariant every step keeps: recall counts are
   covered by uses, and every text that says "promoted", in a file, in a
   capture's hands or in the dream's, says so with reason. *)
Justified(s) == s \in marked \/ uses[s] >= MinRecalls
GateInv ==
  /\ TypeOK /\ QuarantineHolds
  /\ \A i \in DOMAIN rows : rows[i].recalls <= uses[rows[i].slug]
  /\ \A s \in Slugs : file[s].promoted => Justified(s)
  /\ \A k \in Captures : pc[k] = "read" /\ text[k].promoted => Justified(SlugOf[claim[k]])
  /\ dream.at = "rewriting" => uses[dream.slug] >= MinRecalls

Quiet == dream = Awake /\ \A k \in Captures : pc[k] = "idle"
Recorded(s, c) == \E i \in RowsOf(s) : \E n \in DOMAIN rows[i].body : rows[i].body[n] = c
(* With nothing under way, what a topic file says can be found in the index,
   unless a row of the topic was known not to be made. *)
IndexCoversFiles ==
  Quiet => \A s \in Slugs \ behind : \A c \in Held(s) : Recorded(s, c)

(* What is behind it: at any time such a claim is in a row, or in the hands of
   a capture that has written the file and not yet the row, or its topic is
   one the rebuild has still to come to. *)
OnItsWay(s, c) == \E k \in Captures : pc[k] = "written" /\ claim[k] = c /\ SlugOf[c] = s
Awaited(s) == dream.at = "rebuilding" /\ s \in dream.todo
IndexInv == \A s \in Slugs \ behind : \A c \in Held(s) : Recorded(s, c) \/ OnItsWay(s, c) \/ Awaited(s)

(* What /forget's comment promises: "a rebuilt index from the files cannot
   resurrect it" (lucy-tui commands.rs:568-569).  reindex() empties the table,
   tombstones included, and the files never heard of the forgetting. *)
ForgottenStaysForgotten == \A s \in forgotten : RowsOf(s) \cap Live = {}
=============================================================================
