----------------------------- MODULE MCKnowledge -----------------------------
EXTENDS Knowledge, TLC

CONSTANTS c1, c2, t, k1, k2

MCSlugOf == [c \in Claims |-> t]
MCOriginOf == c1 :> "owner" @@ c2 :> "system"
Symmetry == Permutations(Captures)
=============================================================================
