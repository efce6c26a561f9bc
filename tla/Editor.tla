-------------------------------- MODULE Editor --------------------------------
(***************************************************************************)
(* The Markdown editor of a page (lucy-spaces, editor.rs): a buffer with a  *)
(* cursor, a mode, a stack of buffers to go back to and one to go forward   *)
(* to, and the slash commands. A character is one position; "#" stands for  *)
(* the heading mark and the blank behind it, "/" for the end of a line.     *)
(***************************************************************************)
EXTENDS Integers, Sequences, SequencesExt

CONSTANTS Typed,     \* what is typed, a character at a time
          Headings,  \* titles, sequences of characters
          MaxUndo,   \* 100
          MaxKeys,   \* bound on the changes made to the buffer
          MaxChars   \* bound on its length

ASSUME EditorAssumption == MaxUndo \in Nat \ {0}

VARIABLES buffer, cursor, mode, dirty,
          behindIt,  \* undo_stack
          aheadOfIt, \* redo_stack
          crashed,   \* a position past the end was asked for
          keys
editorVars == <<buffer, cursor, mode, dirty, behindIt, aheadOfIt, crashed, keys>>

EditorInit ==
  /\ buffer = << >> /\ cursor = 0 /\ mode = "normal" /\ dirty = FALSE
  /\ behindIt = << >> /\ aheadOfIt = << >> /\ crashed = FALSE /\ keys = 0
-----------------------------------------------------------------------------
Least(a, b) == IF a < b THEN a ELSE b
Up == ~crashed
Keys == Up /\ keys < MaxKeys /\ keys' = keys + 1

PushUndo == behindIt' = IF Len(behindIt) = MaxUndo THEN Append(Tail(behindIt), buffer) ELSE Append(behindIt, buffer)
Changes(text) == buffer' = text /\ dirty' = TRUE
\* Slip: what was undone can still be redone after an edit.
KeepsAhead(text, at) ==
  PushUndo /\ Changes(text) /\ cursor' = at /\ aheadOfIt' = aheadOfIt /\ UNCHANGED <<mode, crashed>>

Edits(text, at) ==
  PushUndo /\ Changes(text) /\ cursor' = at /\ aheadOfIt' = << >> /\ UNCHANGED <<mode, crashed>>
Panics == crashed' = TRUE /\ UNCHANGED <<buffer, cursor, mode, dirty, behindIt, aheadOfIt>>

\* The three changes at the cursor, which a title may have left past the end.
InsertText(c) ==
  /\ mode = "insert" /\ Keys /\ Len(buffer) < MaxChars
  /\ IF cursor > Len(buffer) THEN Panics ELSE Edits(InsertAt(buffer, cursor + 1, c), cursor + 1)
Delete ==
  /\ cursor > 0 /\ Keys
  /\ IF cursor > Len(buffer) THEN Panics ELSE Edits(RemoveAt(buffer, cursor), cursor - 1)
DeleteForward == cursor < Len(buffer) /\ Keys /\ Edits(RemoveAt(buffer, cursor + 1), cursor)
SetContent(text) == Keys /\ Edits(text, Len(text))
ClearAll == Keys /\ Edits(<< >>, 0)

\* The title goes into the heading line, or a heading line before the rest;
\* the stacks and the cursor are left as they are.
LineEnds(text) == {i \in DOMAIN text : text[i] = "/"}
Titled(text, t) ==
  IF text # << >> /\ text[1] = "#"
  THEN <<"#">> \o t \o (IF LineEnds(text) = {} THEN << >>
                        ELSE SubSeq(text, CHOOSE i \in LineEnds(text) : \A j \in LineEnds(text) : i <= j, Len(text)))
  ELSE <<"#">> \o t \o <<"/", "/">> \o text
SetTitle(t) ==
  /\ Keys /\ Len(Titled(buffer, t)) <= MaxChars /\ Changes(Titled(buffer, t))
  /\ UNCHANGED <<cursor, mode, behindIt, aheadOfIt, crashed>>
\* A tag and a pending move are the page's; a save only clears the flag.
MarkSaved == Up /\ dirty /\ dirty' = FALSE /\ UNCHANGED <<buffer, cursor, mode, behindIt, aheadOfIt, crashed, keys>>
-----------------------------------------------------------------------------
Shows(text) == Changes(text) /\ cursor' = Least(cursor, Len(text)) /\ UNCHANGED <<mode, crashed, keys>>
Undo ==
  /\ Up /\ behindIt # << >> /\ Shows(Last(behindIt))
  /\ behindIt' = Front(behindIt) /\ aheadOfIt' = Append(aheadOfIt, buffer)
Redo ==
  /\ Up /\ aheadOfIt # << >> /\ Shows(Last(aheadOfIt))
  /\ aheadOfIt' = Front(aheadOfIt) /\ behindIt' = Append(behindIt, buffer)

\* Up and down keep the column, as far as the line reaches.
LineStart(i) == LET ends == {j \in LineEnds(buffer) : j <= i} IN IF ends = {} THEN 0 ELSE CHOOSE j \in ends : \A k \in ends : k <= j
LineEnd(i) == LET ends == {j \in LineEnds(buffer) : j > i} IN IF ends = {} THEN Len(buffer) ELSE (CHOOSE j \in ends : \A k \in ends : j <= k) - 1
CursorUp ==
  LET start == LineStart(cursor)
      above == LineStart(start - 1)
  IN IF start = 0 THEN 0 ELSE above + Least(cursor - start, start - 1 - above)
CursorDown ==
  LET next == LineEnd(cursor) + 1
  IN IF next >= Len(buffer) THEN Len(buffer)
     ELSE next + Least(cursor - LineStart(cursor), LineEnd(next) - next)

Moves(to) == Up /\ cursor' = to /\ UNCHANGED <<buffer, mode, dirty, behindIt, aheadOfIt, crashed, keys>>
MoveCursor ==
  \/ cursor > 0 /\ Moves(cursor - 1)
  \/ cursor < Len(buffer) /\ Moves(cursor + 1)
  \/ cursor <= Len(buffer) /\ (Moves(CursorUp) \/ Moves(CursorDown))
  \/ cursor > Len(buffer) /\ Up /\ Panics /\ keys' = keys
SetCursor(i) == Moves(Least(i, Len(buffer)))
SetMode(m) == Up /\ mode' = m /\ UNCHANGED <<buffer, cursor, dirty, behindIt, aheadOfIt, crashed, keys>>

EditorNext ==
  \/ \E c \in Typed : InsertText(c) \/ SetContent(<<c>>)
  \/ \E t \in Headings : SetTitle(t)
  \/ Delete \/ DeleteForward \/ ClearAll \/ MarkSaved \/ Undo \/ Redo \/ MoveCursor
  \/ \E i \in 0..MaxChars : SetCursor(i)
  \/ \E m \in {"normal", "insert", "command"} : SetMode(m)

EditorSpec == EditorInit /\ [][EditorNext]_editorVars

EditorTypeOK ==
  /\ Len(buffer) \in 0..MaxChars /\ cursor \in Nat /\ mode \in {"normal", "insert", "command"}
  /\ Len(behindIt) \in 0..MaxKeys /\ Len(aheadOfIt) \in 0..MaxKeys

\* The two stacks and the buffer between them are one line of buffers, and
\* the editor keeps what EditHistory promises of it: an undo followed by a
\* redo is nothing, an edit drops what was undone, and only the oldest
\* buffer is ever lost (editor.rs: push_undo, undo, redo, and every change).
Timeline == INSTANCE EditHistory WITH
  Furthest <- MaxUndo,
  line <- behindIt \o <<buffer>> \o Reverse(aheadOfIt),
  shown <- Len(behindIt) + 1
KeepsHistory == Timeline!HistorySpec

\* What is behind it: the stacks are sequences, of whatever was in the buffer.
StacksInv ==
  /\ behindIt \in Seq(ToSet(behindIt)) /\ aheadOfIt \in Seq(ToSet(aheadOfIt))
  /\ crashed \in BOOLEAN
=============================================================================
