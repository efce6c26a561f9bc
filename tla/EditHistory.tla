----------------------------- MODULE EditHistory -----------------------------
(***************************************************************************)
(* What undo and redo promise: the buffers of an editing session stand in a *)
(* line, one of them is shown, undo and redo walk along the line and change *)
(* nothing in it, and an edit drops what lay ahead. Only the oldest may be  *)
(* lost. A title is written into the buffer that is shown, where it stands. *)
(***************************************************************************)
EXTENDS Integers, Sequences

CONSTANTS Furthest  \* how many steps back are kept

VARIABLES line, shown

HistoryInit == Len(line) = 1 /\ shown = 1

Past == SubSeq(line, 1, shown)
EditOnce ==
  /\ Len(line') \in 1..Len(Past) + 1 /\ shown' = Len(line')
  /\ LET lost == Len(Past) + 1 - Len(line')
     IN /\ lost \in 0..1 /\ (lost = 1 => Len(Past) > Furthest)
        /\ SubSeq(line', 1, Len(line') - 1) = SubSeq(Past, lost + 1, Len(Past))
Walk == shown' \in {shown - 1, shown + 1} \cap DOMAIN line /\ line' = line
Retitle ==
  /\ shown' = shown /\ Len(line') = Len(line)
  /\ \A i \in DOMAIN line \ {shown} : line'[i] = line[i]

HistoryNext == EditOnce \/ Walk \/ Retitle
HistorySpec == HistoryInit /\ [][HistoryNext]_<<line, shown>>
=============================================================================
