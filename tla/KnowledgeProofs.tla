--------------------------- MODULE KnowledgeProofs ---------------------------
(***************************************************************************)
(* The knowledge store, for any claims, topics and captures, any number of *)
(* failures and crashes, and any threshold: quarantine, the promotion gate,*)
(* and an index that covers the files.                                     *)
(***************************************************************************)
EXTENDS Knowledge, SequenceTheorems, TLAPS

-----------------------------------------------------------------------------
\* Quarantine and the promotion gate: GateInv is inductive, and what promotes a chunk follows.

USE KnowledgeAssumption

\* A step meets one more failure at most.
LEMMA FaultsType ==
  ASSUME TypeOK, Works \/ Fails
  PROVE  faults' \in 0..MaxFaults
BY DEF TypeOK, Works, Fails

\* A function over a row numbering is a sequence.
LEMMA FunIsSeq ==
  ASSUME NEW S, NEW n \in Nat, NEW f \in [1..n -> S]
  PROVE  f \in Seq(S)
OBVIOUS

\* A file is overwritten by a file.
LEMMA PutType ==
  ASSUME TypeOK, NEW s \in Slugs, NEW old, NEW new \in File, Put(s, old, new)
  PROVE  /\ file' \in [Slugs -> File] /\ behind' \subseteq Slugs
         /\ \A t \in Slugs : file'[t] = IF t = s THEN new ELSE file[t]
<1>1. file' = [file EXCEPT ![s] = new] /\ file \in [Slugs -> File]
  BY DEF Put, TypeOK
<1>2. behind' = behind \/ behind' = behind \cup {s}
  BY DEF Put
<1> QED BY <1>1, <1>2 DEF TypeOK

\* No file is a file, too.
LEMMA AbsentIsFile == Absent \in File
<1>1. << >> \in Seq(Lines)
  BY EmptySeq
<1> QED BY <1>1 DEF Absent, File

\* A capture's text is a topic file again, with a header.
LEMMA AppendedType ==
  ASSUME NEW f \in File, NEW c \in Claims
  PROVE  /\ Appended(f, c) \in File
         /\ Appended(f, c).promoted => f.promoted
<1> Title \in Lines /\ Blank \in Lines /\ c \in Lines
  BY DEF Lines
<1>1. CASE f = Absent
  <2>1. <<Title, c>> \in Seq(Lines)
    OBVIOUS
  <2>2. OriginOf[c] \in {"owner", "system"}
    OBVIOUS
  <2> QED BY <1>1, <2>1, <2>2 DEF Appended, File
<1>2. CASE f # Absent
  <2> DEFINE tail == IF f.lines = << >> /\ f.glued = Nothing THEN <<c>> ELSE <<Blank, c>>
  <2>1. tail \in Seq(Lines) /\ f.lines \in Seq(Lines)
    BY DEF File
  <2>2. f.lines \o tail \in Seq(Lines)
    BY <2>1, ConcatProperties
  <2>3. Appended(f, c) = [f EXCEPT !.lines = f.lines \o tail]
    BY <1>2 DEF Appended
  <2> HIDE DEF tail
  <2> QED BY <1>2, <2>2, <2>3 DEF File
<1> QED BY <1>1, <1>2

\* So is the text with a promotion written into it.
LEMMA RewrittenType ==
  ASSUME NEW f \in File, f # Absent
  PROVE  HeaderRewritten(f) \in File
<1> DEFINE glued == IF f.lines = << >> THEN Nothing ELSE Head(f.lines)
           tail == IF f.lines = << >> THEN f.lines ELSE Tail(f.lines)
<1>1. f.lines \in Seq(Lines) /\ f.origin # "none"
  BY DEF File
<1>2. glued \in Lines \cup {Nothing} /\ tail \in Seq(Lines)
  BY <1>1, HeadTailProperties
<1>3. HeaderRewritten(f) = [f EXCEPT !.promoted = TRUE, !.glued = glued, !.lines = tail]
  BY DEF HeaderRewritten
<1> HIDE DEF glued, tail
<1> QED BY <1>1, <1>2, <1>3 DEF File

\* The row made of typed parts.
LEMMA RowType ==
  ASSUME NEW s \in Slugs, NEW b \in Seq(Lines), NEW o \in Origins, NEW p \in BOOLEAN
  PROVE  Row(s, b, o, p) \in Chunk
BY DEF Row, Chunk

\* A new row keeps what GateInv says of the rows.
LEMMA AppendKeeps ==
  ASSUME GateInv, NEW r \in Chunk, r.recalls = 0,
         r.promoted => r.origin \in {"owner", "agent"},
         rows' = Append(rows, r), uses' = uses
  PROVE  /\ rows' \in Seq(Chunk) /\ QuarantineHolds'
         /\ \A i \in DOMAIN rows' : rows'[i].recalls <= uses'[rows'[i].slug]
         /\ \A i \in DOMAIN rows' : (i \in DOMAIN rows /\ rows'[i] = rows[i]) \/ rows'[i] = r
<1> USE DEF GateInv, TypeOK
<1>1. /\ rows' \in Seq(Chunk) /\ Len(rows') = Len(rows) + 1
      /\ \A i \in 1..Len(rows) : rows'[i] = rows[i]
      /\ rows'[Len(rows) + 1] = r
  BY AppendProperties
<1>2. DOMAIN rows' = 1..(Len(rows) + 1) /\ DOMAIN rows = 1..Len(rows) /\ Len(rows) \in Nat
  BY <1>1, LenProperties
<1>3. \A i \in DOMAIN rows' : (i \in DOMAIN rows /\ rows'[i] = rows[i]) \/ rows'[i] = r
  BY <1>1, <1>2
<1>4. r.recalls <= uses'[r.slug]
  <2>1. uses[r.slug] \in 0..MinRecalls
    BY DEF Chunk
  <2> QED BY <2>1
<1> QED BY <1>1, <1>3, <1>4 DEF QuarantineHolds

\* Steps that leave the rows and the uses alone.
LEMMA SameRows ==
  ASSUME GateInv, rows' = rows, uses' = uses
  PROVE  /\ rows' \in Seq(Chunk) /\ QuarantineHolds'
         /\ \A i \in DOMAIN rows' : rows'[i].recalls <= uses'[rows'[i].slug]
BY DEF GateInv, TypeOK, QuarantineHolds

\* An empty store.
LEMMA GateInit == Init => GateInv
<1> SUFFICES ASSUME Init PROVE GateInv
  OBVIOUS
<1>1. rows \in Seq(Chunk) /\ DOMAIN rows = {}
  BY EmptySeq DEF Init
<1>2. TypeOK
  BY <1>1, AbsentIsFile DEF Init, TypeOK, Awake
<1> QED BY <1>1, <1>2 DEF Init, GateInv, QuarantineHolds, Absent, Awake

----------------------------------------------------------------------------
\* store().
LEMMA CheckKeeps ==
  ASSUME GateInv, NEW k \in Captures, NEW c \in Claims, Check(k, c)
  PROVE  GateInv'
<1> USE DEF GateInv, TypeOK
<1>1. QuarantineHolds' /\ \A i \in DOMAIN rows' : rows'[i].recalls <= uses'[rows'[i].slug]
  BY SameRows DEF Check
<1>2. TypeOK'
  BY DEF Check
<1>3. \A j \in Captures : pc'[j] = "read" => pc[j] = "read" /\ claim'[j] = claim[j]
  BY DEF Check
<1> QED BY <1>1, <1>2, <1>3 DEF Check, Justified

\* The read of the file.
LEMMA ReadKeeps ==
  ASSUME GateInv, NEW k \in Captures, Read(k)
  PROVE  GateInv'
<1> USE DEF GateInv, TypeOK
<1>1. QuarantineHolds' /\ \A i \in DOMAIN rows' : rows'[i].recalls <= uses'[rows'[i].slug]
  BY SameRows DEF Read
<1>2. claim[k] \in Claims /\ SlugOf[claim[k]] \in Slugs
  BY DEF Read
<1>3. TypeOK'
  BY <1>2 DEF Read
<1>4. \A j \in Captures : pc'[j] = "read" /\ text'[j].promoted => Justified(SlugOf[claim'[j]])
  BY <1>2 DEF Read
<1> QED BY <1>1, <1>3, <1>4 DEF Read, Justified

\* The write of the file.
LEMMA WriteKeeps ==
  ASSUME GateInv, NEW k \in Captures, Write(k)
  PROVE  GateInv'
<1> USE DEF GateInv, TypeOK
<1> DEFINE s == SlugOf[claim[k]]
<1>1. QuarantineHolds' /\ \A i \in DOMAIN rows' : rows'[i].recalls <= uses'[rows'[i].slug]
  BY SameRows DEF Write
<1>2. claim[k] \in Claims /\ s \in Slugs /\ text[k] \in File
  BY DEF Write
<1>3. Appended(text[k], claim[k]) \in File
      /\ (Appended(text[k], claim[k]).promoted => text[k].promoted)
  BY <1>2, AppendedType
<1>4. /\ file' \in [Slugs -> File] /\ behind' \subseteq Slugs
      /\ \A t \in Slugs : file'[t].promoted => file[t].promoted \/ (t = s /\ text[k].promoted)
  <2>1. CASE Put(s, text[k], Appended(text[k], claim[k]))
    <3> HIDE DEF s
    <3> QED BY <1>2, <1>3, <2>1, PutType
  <2>2. CASE UNCHANGED <<file, behind>>
    BY <2>2
  <2> QED BY <2>1, <2>2 DEF Write
<1>5. faults' \in 0..MaxFaults
  BY FaultsType DEF Write
<1>6. TypeOK'
  BY <1>4, <1>5, AbsentIsFile DEF Write
<1>7. \A t \in Slugs : file'[t].promoted => Justified(t)
  BY <1>4 DEF Write
<1>8. \A j \in Captures : pc'[j] = "read" => pc[j] = "read" /\ text'[j] = text[j]
  BY DEF Write
<1> QED BY <1>1, <1>6, <1>7, <1>8 DEF Write, Justified

\* The row of a capture is not promoted.
LEMMA InsertKeeps ==
  ASSUME GateInv, NEW k \in Captures, Insert(k)
  PROVE  GateInv'
<1> USE DEF GateInv, TypeOK
<1> DEFINE r == Row(SlugOf[claim[k]], <<claim[k]>>, OriginOf[claim[k]], FALSE)
<1>1. claim[k] \in Claims /\ SlugOf[claim[k]] \in Slugs /\ OriginOf[claim[k]] \in Origins
  BY DEF Insert, Origins
<1>2. r \in Chunk
  <2>1. <<claim[k]>> \in Seq(Lines)
    BY <1>1 DEF Lines
  <2> QED BY <1>1, <2>1, RowType
<1>3. r.recalls = 0 /\ ~r.promoted
  BY DEF Row
<1>4. /\ rows' \in Seq(Chunk) /\ QuarantineHolds'
      /\ \A i \in DOMAIN rows' : rows'[i].recalls <= uses'[rows'[i].slug]
  <2>1. CASE rows' = Append(rows, r)
    <3> HIDE DEF r
    <3> QED BY <2>1, <1>2, <1>3, AppendKeeps DEF Insert
  <2>2. CASE rows' = rows
    BY <2>2, SameRows DEF Insert
  <2> QED BY <2>1, <2>2 DEF Insert
<1>5. faults' \in 0..MaxFaults
  BY FaultsType DEF Insert
<1>6. forgotten' \subseteq Slugs /\ behind' \subseteq Slugs
  BY <1>1 DEF Insert
<1>7. TypeOK'
  BY <1>4, <1>5, <1>6 DEF Insert
<1>8. \A j \in Captures : pc'[j] = "read" => pc[j] = "read" /\ claim'[j] = claim[j]
  BY DEF Insert
<1> QED BY <1>4, <1>7, <1>8 DEF Insert, Justified

----------------------------------------------------------------------------
\* Recall, /forget and the owner's editor.
LEMMA RetrieveKeeps ==
  ASSUME GateInv, Retrieve
  PROVE  GateInv'
<1> USE DEF GateInv, TypeOK
<1>1. PICK h \in Live :
        /\ rows' = [j \in DOMAIN rows |->
                      IF j \in RowsOf(rows[h].slug)
                      THEN [rows[j] EXCEPT !.recalls = Capped(@)] ELSE rows[j]]
        /\ uses' = [uses EXCEPT ![rows[h].slug] = Capped(@)]
  BY DEF Retrieve
<1> DEFINE s == rows[h].slug
<1>2. DOMAIN rows = 1..Len(rows) /\ Len(rows) \in Nat /\ \A i \in DOMAIN rows : rows[i] \in Chunk
  BY LenProperties
<1>3. s \in Slugs
  BY <1>2 DEF Live, Chunk
<1>4. \A n \in 0..MinRecalls : Capped(n) \in 0..MinRecalls /\ n <= Capped(n)
  BY DEF Capped
<1>5. \A m, n \in 0..MinRecalls : m <= n => Capped(m) <= Capped(n)
  BY DEF Capped
<1>6. uses' \in [Slugs -> 0..MinRecalls] /\ \A t \in Slugs : uses[t] <= uses'[t]
  BY <1>1, <1>3, <1>4
<1>7. \A i \in DOMAIN rows : /\ rows'[i] \in Chunk /\ rows'[i].slug = rows[i].slug
                            /\ rows'[i].promoted = rows[i].promoted
                            /\ rows'[i].origin = rows[i].origin
                            /\ rows'[i].recalls = IF rows[i].slug = s THEN Capped(rows[i].recalls)
                                                 ELSE rows[i].recalls
  BY <1>1, <1>2, <1>4 DEF Chunk, RowsOf
<1>8. DOMAIN rows' = DOMAIN rows /\ rows' \in Seq(Chunk)
  <2>1. rows' \in [1..Len(rows) -> Chunk]
    BY <1>1, <1>2, <1>7
  <2> QED BY <1>1, <1>2, <2>1, FunIsSeq
<1>9. ASSUME NEW i \in DOMAIN rows' PROVE rows'[i].recalls <= uses'[rows'[i].slug]
  <2>1. /\ rows[i].slug \in Slugs /\ rows[i].recalls \in 0..MinRecalls
        /\ rows[i].recalls <= uses[rows[i].slug] /\ rows'[i].slug = rows[i].slug
    BY <1>2, <1>7, <1>8 DEF Chunk
  <2>2. CASE rows[i].slug = s
    <3>1. uses'[s] = Capped(uses[s]) /\ rows'[i].recalls = Capped(rows[i].recalls)
      BY <1>1, <1>3, <1>7, <1>8, <2>2
    <3> QED BY <1>3, <1>5, <2>1, <2>2, <3>1
  <2>3. CASE rows[i].slug # s
    <3>1. uses'[rows[i].slug] = uses[rows[i].slug] /\ rows'[i].recalls = rows[i].recalls
      BY <1>1, <1>3, <1>7, <1>8, <2>1, <2>3
    <3> QED BY <2>1, <3>1
  <2> QED BY <2>2, <2>3
<1>10. TypeOK'
  BY <1>6, <1>8 DEF Retrieve
<1>11. QuarantineHolds'
  BY <1>7, <1>8 DEF QuarantineHolds
<1>12. \A t \in Slugs : Justified(t) => Justified(t)'
  BY <1>6 DEF Justified, Retrieve
<1>13. \A j \in Captures : pc[j] = "read" => SlugOf[claim[j]] \in Slugs
  OBVIOUS
<1>14. dream.at = "rewriting" => uses'[dream.slug] >= MinRecalls
  BY <1>6
<1> QED BY <1>9, <1>10, <1>11, <1>12, <1>13, <1>14 DEF Retrieve

\* A tombstone promotes nothing.
LEMMA ForgetKeeps ==
  ASSUME GateInv, NEW s \in Slugs, Forget(s)
  PROVE  GateInv'
<1> USE DEF GateInv, TypeOK
<1>1. DOMAIN rows = 1..Len(rows) /\ Len(rows) \in Nat /\ \A i \in DOMAIN rows : rows[i] \in Chunk
  BY LenProperties
<1>2. \A i \in DOMAIN rows : /\ rows'[i] \in Chunk /\ rows'[i].slug = rows[i].slug
                            /\ rows'[i].promoted = rows[i].promoted
                            /\ rows'[i].origin = rows[i].origin
                            /\ rows'[i].recalls = rows[i].recalls
  BY <1>1, ZenonT(30) DEF Forget, Chunk
<1>3. DOMAIN rows' = DOMAIN rows /\ rows' \in Seq(Chunk)
  <2>1. rows' \in [1..Len(rows) -> Chunk]
    BY <1>1, <1>2 DEF Forget
  <2> QED BY <1>1, <2>1, FunIsSeq DEF Forget
<1>4. TypeOK'
  BY <1>3 DEF Forget
<1> QED BY <1>2, <1>3, <1>4 DEF Forget, QuarantineHolds, Justified

\* The owner gives the reason.
LEMMA HandEditKeeps ==
  ASSUME GateInv, NEW s \in Slugs, HandEdit(s)
  PROVE  GateInv'
<1> USE DEF GateInv, TypeOK
<1>1. QuarantineHolds' /\ \A i \in DOMAIN rows' : rows'[i].recalls <= uses'[rows'[i].slug]
  BY SameRows DEF HandEdit
<1>2. [file[s] EXCEPT !.promoted = TRUE] \in File
  <2>1. file[s] \in File /\ file[s] # Absent
    BY DEF HandEdit, Topics
  <2> QED BY <2>1 DEF File
<1>3. TypeOK'
  BY <1>2 DEF HandEdit
<1>4. \A t \in Slugs : file'[t].promoted => Justified(t)'
  BY DEF HandEdit, Justified
<1>5. \A t \in Slugs : Justified(t) => Justified(t)'
  BY DEF HandEdit, Justified
<1> QED BY <1>1, <1>3, <1>4, <1>5 DEF HandEdit

----------------------------------------------------------------------------
\* /kb-dream.  What is listed is row numbers or topics.
LEMMA DreamKeeps ==
  ASSUME GateInv, Dream
  PROVE  GateInv'
<1> USE DEF GateInv, TypeOK
<1>1. QuarantineHolds' /\ \A i \in DOMAIN rows' : rows'[i].recalls <= uses'[rows'[i].slug]
  BY SameRows DEF Dream
<1>2. Candidates \subseteq Nat
  BY LenProperties DEF Candidates, Live
<1>3. TypeOK'
  BY <1>2 DEF Dream
<1> QED BY <1>1, <1>3 DEF Dream, Justified

\* A candidate passed over.
LEMMA SkipKeeps ==
  ASSUME GateInv, NEW i, Skip(i)
  PROVE  GateInv'
<1> USE DEF GateInv, TypeOK
<1>1. QuarantineHolds' /\ \A j \in DOMAIN rows' : rows'[j].recalls <= uses'[rows'[j].slug]
  BY SameRows DEF Skip
<1>2. TypeOK'
  BY DEF Skip
<1> QED BY <1>1, <1>2 DEF Skip, Justified

\* A candidate was recalled often enough.
LEMMA PromoteKeeps ==
  ASSUME GateInv, NEW i \in DOMAIN rows, Promote(i)
  PROVE  GateInv' /\ uses[rows[i].slug] >= MinRecalls
<1> USE DEF GateInv, TypeOK
<1>1. DOMAIN rows = 1..Len(rows) /\ Len(rows) \in Nat /\ \A j \in DOMAIN rows : rows[j] \in Chunk
  BY LenProperties
<1>2. rows[i].slug \in Slugs
  BY <1>1 DEF Chunk
<1>3. uses[rows[i].slug] >= MinRecalls
  <2>1. PICK j \in DOMAIN rows : rows[j].slug = rows[i].slug /\ rows[j].recalls >= MinRecalls
    BY DEF Promote, Earned, RowsOf
  <2>2. rows[j].recalls <= uses[rows[i].slug] /\ rows[j].recalls \in 0..MinRecalls
    BY <1>1, <2>1 DEF Chunk
  <2>3. uses[rows[i].slug] \in 0..MinRecalls
    BY <1>2
  <2> QED BY <2>1, <2>2, <2>3
<1>4. \A j \in DOMAIN rows : /\ rows'[j] \in Chunk /\ rows'[j].slug = rows[j].slug
                            /\ rows'[j].origin = rows[j].origin
                            /\ rows'[j].recalls = rows[j].recalls
                            /\ j # i => rows'[j] = rows[j]
  BY <1>1 DEF Promote, Chunk
<1>5. DOMAIN rows' = DOMAIN rows /\ rows' \in Seq(Chunk)
  <2>1. rows' \in [1..Len(rows) -> Chunk]
    <3>1. [rows[i] EXCEPT !.promoted = TRUE] \in Chunk /\ rows \in [1..Len(rows) -> Chunk]
      BY <1>1, LenProperties DEF Chunk
    <3>2. rows' = [rows EXCEPT ![i] = [rows[i] EXCEPT !.promoted = TRUE]]
      BY DEF Promote
    <3> QED BY <3>1, <3>2
  <2> QED BY <1>1, <2>1, FunIsSeq DEF Promote
<1>6. QuarantineHolds'
  BY <1>4, <1>5 DEF Promote, Injectable, QuarantineHolds
<1>7. /\ dream' \in [at : {"idle", "promoting", "rewriting", "rebuilding"},
                    todo : SUBSET (Nat \cup Slugs), slug : Slugs \cup {Nothing}, text : File]
      /\ dream'.at = "rewriting" =>
           dream'.slug = rows[i].slug /\ dream'.text # Absent
  BY <1>2 DEF Promote
<1>8. TypeOK'
  BY <1>2, <1>5, <1>7 DEF Promote
<1> QED BY <1>3, <1>4, <1>5, <1>6, <1>7, <1>8, SMTT(30) DEF Promote, Justified

\* The file says so afterwards.
LEMMA WritePromotionKeeps ==
  ASSUME GateInv, WritePromotion
  PROVE  GateInv'
<1> USE DEF GateInv, TypeOK
<1>1. QuarantineHolds' /\ \A i \in DOMAIN rows' : rows'[i].recalls <= uses'[rows'[i].slug]
  BY SameRows DEF WritePromotion
<1>2. dream.slug \in Slugs /\ dream.text \in File /\ dream.text # Absent
  BY DEF WritePromotion
<1>3. HeaderRewritten(dream.text) \in File
  BY <1>2, RewrittenType
<1>4. /\ file' \in [Slugs -> File] /\ behind' \subseteq Slugs
      /\ \A t \in Slugs : file'[t].promoted => file[t].promoted \/ t = dream.slug
  <2>1. CASE Put(dream.slug, dream.text, HeaderRewritten(dream.text))
    BY <1>2, <1>3, <2>1, PutType
  <2>2. CASE UNCHANGED <<file, behind>>
    BY <2>2
  <2> QED BY <2>1, <2>2 DEF WritePromotion
<1>5. faults' \in 0..MaxFaults
  BY FaultsType DEF WritePromotion
<1>6. TypeOK'
  BY <1>4, <1>5, AbsentIsFile DEF WritePromotion
<1>7. \A t \in Slugs : file'[t].promoted => Justified(t)
  BY <1>4 DEF WritePromotion, Justified
<1> QED BY <1>1, <1>6, <1>7 DEF WritePromotion, Justified

\* An empty table.
LEMMA ClearKeeps ==
  ASSUME GateInv, Clear
  PROVE  GateInv'
<1> USE DEF GateInv, TypeOK
<1>1. /\ rows' \in Seq(Chunk) /\ QuarantineHolds'
      /\ \A i \in DOMAIN rows' : rows'[i].recalls <= uses'[rows'[i].slug]
  <2>1. CASE rows' = << >>
    BY <2>1, EmptySeq DEF QuarantineHolds
  <2>2. CASE rows' = rows
    BY <2>2, SameRows DEF Clear
  <2> QED BY <2>1, <2>2 DEF Clear
<1>2. faults' \in 0..MaxFaults
  BY FaultsType DEF Clear
<1>3. /\ dream' \in [at : {"idle", "promoting", "rewriting", "rebuilding"},
                    todo : SUBSET (Nat \cup Slugs), slug : Slugs \cup {Nothing}, text : File]
      /\ dream'.at # "rewriting"
  <2>1. CASE dream' = [dream EXCEPT !.at = "rebuilding", !.todo = Slugs]
    BY <2>1
  <2>2. CASE dream' = Awake
    BY <2>2, AbsentIsFile DEF Awake
  <2> QED BY <2>1, <2>2 DEF Clear
<1>4. TypeOK'
  BY <1>1, <1>2, <1>3 DEF Clear
<1> QED BY <1>1, <1>3, <1>4 DEF Clear, Justified

\* A row that was there, or one of topic s, promoted only with reason.
FromFile(i, s) ==
  \/ i \in DOMAIN rows /\ rows'[i] = rows[i]
  \/ rows'[i].slug = s /\ (rows'[i].promoted => Justified(s))

\* A row is promoted because its file says so.
LEMMA RebuildKeeps ==
  ASSUME GateInv, NEW s \in Slugs, Rebuild(s)
  PROVE  /\ GateInv'
         /\ \A i \in DOMAIN rows' : FromFile(i, s)
<1> USE DEF GateInv, TypeOK
<1> DEFINE r == Rebuilt(s)
<1>1. CASE rows' = Append(rows, r) /\ Indexed(s)
  <2>1. file[s] # Absent
    BY <1>1 DEF Indexed, Topics
  <2>2. r \in Chunk
    <3>1. file[s].lines \in Seq(Lines) /\ file[s].origin \in Origins
      BY <2>1 DEF File, Origins
    <3>2. (file[s].promoted /\ Injectable(file[s].origin)) \in BOOLEAN
      OBVIOUS
    <3> QED BY <3>1, <3>2, RowType DEF Rebuilt
  <2>3. /\ r.recalls = 0 /\ r.slug = s
        /\ r.promoted => r.origin \in {"owner", "agent"} /\ file[s].promoted
    BY DEF Rebuilt, Row, Injectable
  <2> HIDE DEF r
  <2>4. /\ rows' \in Seq(Chunk) /\ QuarantineHolds'
        /\ \A i \in DOMAIN rows' : rows'[i].recalls <= uses'[rows'[i].slug]
        /\ \A i \in DOMAIN rows' : (i \in DOMAIN rows /\ rows'[i] = rows[i]) \/ rows'[i] = r
    BY <1>1, <2>2, <2>3, AppendKeeps DEF Rebuild
  <2>5. faults' \in 0..MaxFaults /\ behind' \subseteq Slugs
    BY FaultsType DEF Rebuild
  <2>6. TypeOK'
    BY <2>4, <2>5 DEF Rebuild
  <2>7. dream'.at = "rebuilding"
    BY DEF Rebuild
  <2>8. \A t \in Slugs : Justified(t)' = Justified(t)
    BY DEF Rebuild, Justified
  <2>9. \A i \in DOMAIN rows' : FromFile(i, s)
    <3>1. r.promoted => Justified(s)
      BY <2>3
    <3> HIDE DEF TypeOK, GateInv
    <3> QED BY <2>3, <2>4, <3>1 DEF FromFile
  <2>10. UNCHANGED <<file, pc, claim, text, uses>>
    BY DEF Rebuild
  <2>11. \A k \in Captures : pc[k] = "read" => SlugOf[claim[k]] \in Slugs
    OBVIOUS
  <2> HIDE DEF TypeOK
  <2> QED BY <2>4, <2>6, <2>7, <2>8, <2>9, <2>10, <2>11
<1>2. CASE rows' = rows
  <2>1. QuarantineHolds' /\ \A i \in DOMAIN rows' : rows'[i].recalls <= uses'[rows'[i].slug]
    BY <1>2, SameRows DEF Rebuild
  <2>2. faults' \in 0..MaxFaults /\ behind' \subseteq Slugs
    BY FaultsType DEF Rebuild
  <2>3. TypeOK'
    BY <1>2, <2>2 DEF Rebuild
  <2>4. dream'.at = "rebuilding"
    BY DEF Rebuild
  <2>5. \A t \in Slugs : Justified(t)' = Justified(t)
    BY DEF Rebuild, Justified
  <2>6. \A i \in DOMAIN rows' : i \in DOMAIN rows /\ rows'[i] = rows[i]
    BY <1>2
  <2>7. UNCHANGED <<file, pc, claim, text, uses>>
    BY DEF Rebuild
  <2>8. \A k \in Captures : pc[k] = "read" => SlugOf[claim[k]] \in Slugs
    OBVIOUS
  <2> HIDE DEF TypeOK
  <2> QED BY <2>1, <2>3, <2>4, <2>5, <2>6, <2>7, <2>8 DEF FromFile
<1> QED BY <1>1, <1>2 DEF Rebuild

\* The dream is over.
LEMMA DreamEndsKeeps ==
  ASSUME GateInv, DreamEnds
  PROVE  GateInv'
<1> USE DEF GateInv, TypeOK
<1>1. QuarantineHolds' /\ \A i \in DOMAIN rows' : rows'[i].recalls <= uses'[rows'[i].slug]
  BY SameRows DEF DreamEnds
<1>2. TypeOK'
  BY AbsentIsFile DEF DreamEnds, Awake
<1> QED BY <1>1, <1>2 DEF DreamEnds, Awake, Justified

\* What is in hand is lost.
LEMMA CrashKeeps ==
  ASSUME GateInv, Crash
  PROVE  GateInv'
<1> USE DEF GateInv, TypeOK
<1>1. QuarantineHolds' /\ \A i \in DOMAIN rows' : rows'[i].recalls <= uses'[rows'[i].slug]
  BY SameRows DEF Crash
<1>2. behind' \subseteq Slugs
  BY DEF Crash, Topics
<1>3. faults' \in 0..MaxFaults
  BY FaultsType DEF Crash
<1>4. TypeOK'
  BY <1>2, <1>3, AbsentIsFile DEF Crash, Awake
<1> QED BY <1>1, <1>4 DEF Crash, Awake, Justified

----------------------------------------------------------------------------
\* Every step keeps GateInv, and promotes a row only with reason.
PromotesEarned ==
  \A i \in DOMAIN rows' :
    rows'[i].promoted /\ ~(i \in DOMAIN rows /\ rows[i].promoted) => EarnsPromotion(i)

\* No new row, no promotion.
LEMMA SameRowsEarned == rows' = rows => PromotesEarned
BY DEF PromotesEarned

\* Every step keeps GateInv and promotes with reason.
LEMMA GateStep ==
  ASSUME GateInv, [Next]_vars
  PROVE  GateInv' /\ PromotesEarned
<1>1. ASSUME NEW k \in Captures, NEW c \in Claims, Check(k, c) PROVE GateInv' /\ PromotesEarned
  BY <1>1, CheckKeeps, SameRowsEarned DEF Check
<1>2. ASSUME NEW k \in Captures, Read(k) PROVE GateInv' /\ PromotesEarned
  BY <1>2, ReadKeeps, SameRowsEarned DEF Read
<1>3. ASSUME NEW k \in Captures, Write(k) PROVE GateInv' /\ PromotesEarned
  BY <1>3, WriteKeeps, SameRowsEarned DEF Write
<1>4. ASSUME NEW k \in Captures, Insert(k) PROVE GateInv' /\ PromotesEarned
  <2> DEFINE r == Row(SlugOf[claim[k]], <<claim[k]>>, OriginOf[claim[k]], FALSE)
  <2>1. rows' = Append(rows, r) \/ rows' = rows
    BY <1>4 DEF Insert
  <2>2. r \in Chunk /\ ~r.promoted /\ r.recalls = 0 /\ uses' = uses
    <3>1. claim[k] \in Claims /\ claim[k] \in Lines
      BY <1>4 DEF Insert, GateInv, TypeOK, Lines
    <3>2. OriginOf[claim[k]] \in Origins /\ SlugOf[claim[k]] \in Slugs /\ <<claim[k]>> \in Seq(Lines)
      BY <3>1 DEF Origins
    <3> QED BY <1>4, <3>2, RowType DEF Row, Insert
  <2> HIDE DEF r
  <2>3. CASE rows' = Append(rows, r)
    <3>1. \A i \in DOMAIN rows' : (i \in DOMAIN rows /\ rows'[i] = rows[i]) \/ rows'[i] = r
      BY <2>2, <2>3, AppendKeeps
    <3> QED BY <1>4, <2>2, <3>1, InsertKeeps DEF PromotesEarned
  <2> QED BY <1>4, <2>1, <2>3, InsertKeeps, SameRowsEarned
<1>5. ASSUME Retrieve PROVE GateInv' /\ PromotesEarned
  <2>1. DOMAIN rows' = DOMAIN rows /\ \A i \in DOMAIN rows : rows[i] \in Chunk
    BY <1>5, LenProperties DEF Retrieve, GateInv, TypeOK
  <2>2. \A i \in DOMAIN rows : rows'[i].promoted = rows[i].promoted
    BY <1>5, <2>1 DEF Retrieve, Chunk
  <2> QED BY <1>5, <2>1, <2>2, RetrieveKeeps DEF PromotesEarned
<1>6. ASSUME NEW s \in Slugs, Forget(s) PROVE GateInv' /\ PromotesEarned
  <2>1. DOMAIN rows' = DOMAIN rows /\ \A i \in DOMAIN rows : rows[i] \in Chunk
    BY <1>6, LenProperties DEF Forget, GateInv, TypeOK
  <2>2. \A i \in DOMAIN rows : rows'[i].promoted = rows[i].promoted
    BY <1>6, <2>1 DEF Forget, Chunk
  <2> QED BY <1>6, <2>1, <2>2, ForgetKeeps DEF PromotesEarned
<1>7. ASSUME NEW s \in Slugs, HandEdit(s) PROVE GateInv' /\ PromotesEarned
  BY <1>7, HandEditKeeps, SameRowsEarned DEF HandEdit
<1>8. ASSUME Dream PROVE GateInv' /\ PromotesEarned
  BY <1>8, DreamKeeps, SameRowsEarned DEF Dream
<1>9. ASSUME NEW i \in DOMAIN rows, Skip(i) PROVE GateInv' /\ PromotesEarned
  BY <1>9, SkipKeeps, SameRowsEarned DEF Skip
<1>10. ASSUME NEW i \in DOMAIN rows, Promote(i) PROVE GateInv' /\ PromotesEarned
  <2>1. GateInv' /\ uses[rows[i].slug] >= MinRecalls
    BY <1>10, PromoteKeeps
  <2>2. DOMAIN rows' = DOMAIN rows /\ \A j \in DOMAIN rows : rows[j] \in Chunk
    BY <1>10, LenProperties DEF Promote, GateInv, TypeOK
  <2>3. rows'[i].slug = rows[i].slug /\ \A j \in DOMAIN rows : j # i => rows'[j] = rows[j]
    BY <1>10, <2>2 DEF Promote, Chunk
  <2> QED BY <2>1, <2>2, <2>3 DEF PromotesEarned, EarnsPromotion
<1>11. ASSUME WritePromotion PROVE GateInv' /\ PromotesEarned
  BY <1>11, WritePromotionKeeps, SameRowsEarned DEF WritePromotion
<1>12. ASSUME Clear PROVE GateInv' /\ PromotesEarned
  <2>1. rows' = << >> \/ rows' = rows
    BY <1>12 DEF Clear
  <2> QED BY <1>12, <2>1, ClearKeeps, SameRowsEarned DEF PromotesEarned
<1>13. ASSUME NEW s \in Slugs, Rebuild(s) PROVE GateInv' /\ PromotesEarned
  <2>1. GateInv' /\ \A i \in DOMAIN rows' : FromFile(i, s)
    BY <1>13, RebuildKeeps
  <2>2. ASSUME NEW i \in DOMAIN rows', rows'[i].promoted, ~(i \in DOMAIN rows /\ rows[i].promoted)
        PROVE  EarnsPromotion(i)
    <3>1. rows'[i].slug = s /\ Justified(s)
      BY <2>1, <2>2 DEF FromFile
    <3>2. i \notin DOMAIN rows
      <4>1. rows' = rows \/ rows' = Append(rows, Rebuilt(s))
        BY <1>13 DEF Rebuild
      <4>2. rows \in Seq(Chunk)
        BY DEF GateInv, TypeOK
      <4>3. CASE rows' = rows
        BY <2>2, <4>3
      <4>4. CASE rows' = Append(rows, Rebuilt(s))
        <5>1. \A j \in DOMAIN rows : rows'[j] = rows[j]
          BY <4>2, <4>4
        <5> QED BY <2>2, <5>1
      <4> QED BY <4>1, <4>3, <4>4
    <3> QED BY <3>1, <3>2 DEF EarnsPromotion, Justified
  <2> QED BY <2>1, <2>2 DEF PromotesEarned
<1>14. ASSUME DreamEnds PROVE GateInv' /\ PromotesEarned
  BY <1>14, DreamEndsKeeps, SameRowsEarned DEF DreamEnds
<1>15. ASSUME Crash PROVE GateInv' /\ PromotesEarned
  BY <1>15, CrashKeeps, SameRowsEarned DEF Crash
<1>16. ASSUME UNCHANGED vars PROVE GateInv' /\ PromotesEarned
  BY <1>16, SameRowsEarned DEF vars, GateInv, TypeOK, QuarantineHolds, Justified
<1> QED BY <1>1, <1>2, <1>3, <1>4, <1>5, <1>6, <1>7, <1>8, <1>9, <1>10, <1>11, <1>12, <1>13,
           <1>14, <1>15, <1>16 DEF Next, Capture, Dreaming

\* GateInv holds throughout.
LEMMA GateInvariant == Spec => []GateInv
<1>1. GateInv /\ [Next]_vars => GateInv'
  BY GateStep
<1> QED BY <1>1, GateInit, PTL DEF Spec

\* The rows, the files and what each task holds keep their types.
THEOREM TypeCorrect == Spec => []TypeOK
<1>1. GateInv => TypeOK
  BY DEF GateInv
<1> QED BY <1>1, GateInvariant, PTL

\* No chunk outside the owner's and the agent's own memory is ever injectable:
\* lucy-knowledge's quarantine, through captures, promotions, edits, rebuilds
\* and crashes.
THEOREM QuarantineIsSafe == Spec => []QuarantineHolds
<1>1. GateInv => QuarantineHolds
  BY DEF GateInv
<1> QED BY <1>1, GateInvariant, PTL

\* /kb-dream promotes what recall has landed on often enough, and reindex()
\* only what a file says with reason.
THEOREM PromotionGate == Spec => PromotionIsEarned
<1>1. GateInv /\ [Next]_vars =>
        [\A i \in DOMAIN rows' :
           rows'[i].promoted /\ ~(i \in DOMAIN rows /\ rows[i].promoted) => EarnsPromotion(i)]_vars
  BY GateStep DEF PromotesEarned
<1> QED BY <1>1, GateInvariant, PTL DEF Spec, PromotionIsEarned
-----------------------------------------------------------------------------
\* The index: a claim of a file is recorded, on its way, or awaited.

\* Where a claim of a file is accounted for.
Covered(s, c) == Recorded(s, c) \/ OnItsWay(s, c) \/ Awaited(s)
RecordsStay == \A s \in Slugs, c \in Claims : Recorded(s, c) => Recorded(s, c)'
Contains(ls, c) == \E n \in DOMAIN ls : ls[n] = c

\* What rows say is found where it was.
LEMMA SameBodies ==
  ASSUME DOMAIN rows' = DOMAIN rows,
         \A i \in DOMAIN rows : rows'[i].slug = rows[i].slug /\ rows'[i].body = rows[i].body
  PROVE  RecordsStay
  BY DEF RecordsStay, Recorded, RowsOf

\* A new row takes nothing away and holds what its body says.
LEMMA AppendRecords ==
  ASSUME TypeOK, NEW r, rows' = Append(rows, r)
  PROVE  RecordsStay /\ \A c : Contains(r.body, c) => Recorded(r.slug, c)'
<1>1. /\ DOMAIN rows = 1..Len(rows) /\ Len(rows) \in Nat /\ DOMAIN rows' = 1..(Len(rows) + 1)
      /\ (\A i \in 1..Len(rows) : rows'[i] = rows[i]) /\ rows'[Len(rows) + 1] = r
  BY AppendProperties, LenProperties DEF TypeOK
<1>2. Len(rows) + 1 \in DOMAIN rows' /\ \A i \in DOMAIN rows : i \in DOMAIN rows' /\ rows'[i] = rows[i]
  BY <1>1
<1>3. RecordsStay
  BY <1>2 DEF RecordsStay, Recorded, RowsOf
<1>4. \A c : Contains(r.body, c) => Recorded(r.slug, c)'
  BY <1>1, <1>2 DEF Contains, Recorded, RowsOf
<1> QED
  BY <1>3, <1>4

\* A capture adds its claim to the claims of the text it read, and a promotion none.
LEMMA AppendedHolds ==
  ASSUME NEW f \in File, NEW c \in Claims, NEW d \in Claims, Contains(Appended(f, c).lines, d)
  PROVE  d = c \/ Contains(f.lines, d)
<1>0. d # Title /\ d # Blank
  BY BulletAssumption
<1>1. CASE f = Absent
  <2>1. Appended(f, c).lines = <<Title, c>>
    BY <1>1 DEF Appended
  <2> QED
    BY <1>0, <2>1 DEF Contains
<1>2. CASE f # Absent
  <2> DEFINE tail == IF f.lines = << >> /\ f.glued = Nothing THEN <<c>> ELSE <<Blank, c>>
             old == f.lines
  <2>1. old \in Seq(Lines) /\ tail \in Seq(Lines) /\ Len(tail) \in Nat /\ Len(old) \in Nat
    <3>1. Title \in Lines /\ Blank \in Lines /\ c \in Lines
      BY DEF Lines
    <3>2. old \in Seq(Lines)
      BY DEF File
    <3>3. tail \in Seq(Lines)
      BY <3>1
    <3> HIDE DEF tail, old
    <3> QED BY <3>2, <3>3, LenProperties
  <2>2. \A n \in DOMAIN tail : tail[n] \in {Blank, c}
    OBVIOUS
  <2>3. Appended(f, c).lines = old \o tail
    BY <1>2 DEF Appended, File
  <2>4. PICK n \in DOMAIN (old \o tail) : (old \o tail)[n] = d
    BY <2>3 DEF Contains
  <2> HIDE DEF tail, old
  <2>5. DOMAIN tail = 1..Len(tail) /\ DOMAIN old = 1..Len(old) /\ n \in 1..(Len(old) + Len(tail))
    BY <2>1, <2>4, ConcatProperties, LenProperties
  <2>6. CASE n <= Len(old)
    <3>1. n \in DOMAIN old /\ old[n] = d
      BY <2>1, <2>4, <2>5, <2>6, ConcatProperties
    <3> QED
      BY <3>1 DEF Contains, old
  <2>7. CASE n > Len(old)
    <3>1. n - Len(old) \in DOMAIN tail /\ tail[n - Len(old)] = d
      BY <2>1, <2>4, <2>5, <2>7, ConcatProperties
    <3> QED
      BY <1>0, <2>2, <3>1
  <2> QED
    BY <2>1, <2>5, <2>6, <2>7
<1> QED
  BY <1>1, <1>2

\* A promotion adds no claim to a file.
LEMMA RewrittenHolds ==
  ASSUME NEW f \in File, NEW d, Contains(HeaderRewritten(f).lines, d)
  PROVE  Contains(f.lines, d)
<1> DEFINE old == f.lines
           left == IF old = << >> THEN old ELSE Tail(old)
<1>1. old \in Seq(Lines)
  BY DEF File
<1>2. HeaderRewritten(f).lines = left
  BY DEF HeaderRewritten, File
<1> HIDE DEF old
<1>3. PICK n \in DOMAIN left : left[n] = d
  BY <1>2 DEF Contains
<1>4. CASE old = << >>
  BY <1>3, <1>4 DEF Contains, old
<1>5. CASE old # << >>
  <2>1. n + 1 \in DOMAIN old /\ old[n + 1] = d
    BY <1>1, <1>3, <1>5, HeadTailProperties, LenProperties
  <2> QED
    BY <2>1 DEF Contains, old
<1> QED
  BY <1>4, <1>5

\* What a file holds is in its lines.
LEMMA HeldIsContained == \A s \in Slugs, c \in Claims : c \in Held(s) <=> Contains(file[s].lines, c)
  BY DEF Held, Contains

\* The files only, or the captures and the dream too, are as they were.
LEMMA StillCovered ==
  ASSUME IndexInv, behind' = behind, RecordsStay,
         \A s \in Slugs : file'[s].lines = file[s].lines,
         \A s \in Slugs, c \in Claims : OnItsWay(s, c) \/ Awaited(s) => Covered(s, c)'
  PROVE  IndexInv'
<1> SUFFICES ASSUME NEW s \in Slugs \ behind', NEW c \in Held(s)'
             PROVE  Covered(s, c)'
  BY DEF IndexInv, Covered
<1>1. c \in Claims /\ c \in Held(s) /\ s \notin behind
  BY DEF Held
<1> QED
  BY <1>1 DEF IndexInv, Covered, RecordsStay

\* A file written from what it held holds one claim more at most, the capture's.
LEMMA PutCovered ==
  ASSUME TypeOK, IndexInv, NEW t \in Slugs, NEW old \in File, NEW new, Put(t, old, new),
         UNCHANGED rows, dream'.at = "rebuilding" <=> dream.at = "rebuilding", dream'.todo = dream.todo,
         \A s \in Slugs, c \in Claims : OnItsWay(s, c) => OnItsWay(s, c)',
         \A c \in Claims : Contains(new.lines, c) => Contains(old.lines, c) \/ OnItsWay(t, c)'
  PROVE  IndexInv'
<1> SUFFICES ASSUME NEW s \in Slugs \ behind', NEW c \in Held(s)'
             PROVE  Covered(s, c)'
  BY DEF IndexInv, Covered
<1>1. c \in Claims /\ s \notin behind /\ Contains(file'[s].lines, c)
  BY DEF Held, Put, Contains
<1>2. Covered(s, c) => Covered(s, c)'
  BY <1>1 DEF Covered, Recorded, RowsOf, Awaited
<1>3. CASE s # t
  <2>1. file'[s] = file[s]
    BY <1>3 DEF Put, TypeOK
  <2> QED
    BY <1>1, <1>2, <2>1, HeldIsContained DEF IndexInv, Covered
<1>4. CASE s = t
  <2>1. old = file[t] /\ file'[t] = new
    BY <1>4 DEF Put, TypeOK
  <2>2. Contains(file[t].lines, c) \/ OnItsWay(t, c)'
    BY <1>1, <1>4, <2>1
  <2> QED
    BY <1>1, <1>2, <1>4, <2>2, HeldIsContained DEF IndexInv, Covered
<1> QED
  BY <1>3, <1>4

\* No file, no claim.
LEMMA IndexInvInit == Init => IndexInv
  BY DEF Init, IndexInv, Held, Absent

\* The claim written is on its way to its row.
LEMMA WriteCovers ==
  ASSUME TypeOK, IndexInv, NEW k \in Captures, Write(k)
  PROVE  IndexInv'
<1>1. PICK t \in Slugs, d \in Claims, old \in File : t = SlugOf[claim[k]] /\ d = claim[k] /\ old = text[k]
  BY DEF Write, TypeOK
<1>2. OnItsWay(t, d)' /\ \A s, c : OnItsWay(s, c) => OnItsWay(s, c)'
  BY <1>1 DEF Write, OnItsWay, TypeOK
<1>3. UNCHANGED <<rows, dream>>
  BY DEF Write
<1>4. CASE Put(t, old, Appended(old, d))
  <2>1. \A c \in Claims : Contains(Appended(old, d).lines, c) => Contains(old.lines, c) \/ OnItsWay(t, c)'
    BY <1>2, AppendedHolds
  <2> QED
    BY <1>2, <1>3, <1>4, <2>1, PutCovered
<1>5. CASE UNCHANGED <<file, behind>>
  BY <1>2, <1>3, <1>5, StillCovered, SameBodies DEF Covered, Awaited
<1> QED
  BY <1>1, <1>4, <1>5 DEF Write

\* The row is made, or the topic is known to lack it.
LEMMA InsertCovers ==
  ASSUME TypeOK, IndexInv, NEW k \in Captures, Insert(k)
  PROVE  IndexInv'
<1>1. PICK t \in Slugs, d \in Claims : t = SlugOf[claim[k]] /\ d = claim[k]
  BY DEF Insert, TypeOK
<1>2. \A s, c : OnItsWay(s, c) => OnItsWay(s, c)' \/ (s = t /\ c = d)
  BY <1>1 DEF Insert, OnItsWay, TypeOK
<1>3. UNCHANGED <<file, dream>>
  BY DEF Insert
<1>4. CASE rows' = Append(rows, Row(t, <<d>>, OriginOf[d], FALSE)) /\ behind' = behind
  <2>1. PICK r : r = Row(t, <<d>>, OriginOf[d], FALSE)
    OBVIOUS
  <2>2. r.slug = t /\ Contains(r.body, d)
    BY <2>1 DEF Row, Contains
  <2>3. RecordsStay /\ Recorded(t, d)'
    BY <1>4, <2>1, <2>2, AppendRecords
  <2> QED
    BY <1>2, <1>3, <1>4, <2>3, StillCovered DEF Covered, Awaited
<1>5. CASE behind' = behind \cup {t} /\ rows' = rows
  <2> SUFFICES ASSUME NEW s \in Slugs \ behind', NEW c \in Held(s)'
               PROVE  Covered(s, c)'
    BY DEF IndexInv, Covered
  <2>1. s \notin behind /\ s # t /\ c \in Held(s)
    BY <1>3, <1>5 DEF Held
  <2> QED
    BY <1>2, <1>3, <1>5, <2>1 DEF IndexInv, Covered, Recorded, RowsOf, Awaited
<1> QED
  BY <1>1, <1>4, <1>5 DEF Insert

\* The topic rebuilt is no longer awaited: its row holds all its file does.
LEMMA RebuildCovers ==
  ASSUME TypeOK, IndexInv, NEW t \in Slugs, Rebuild(t)
  PROVE  IndexInv'
<1>1. UNCHANGED <<file, pc, claim>> /\ dream'.at = "rebuilding" /\ dream'.todo = dream.todo \ {t}
  BY DEF Rebuild, TypeOK
<1>2. RecordsStay
  <2>1. CASE rows' = rows
    BY <2>1, SameBodies
  <2>2. CASE rows' = Append(rows, Rebuilt(t))
    BY <2>2, AppendRecords
  <2> QED
    BY <2>1, <2>2 DEF Rebuild
<1> SUFFICES ASSUME NEW s \in Slugs \ behind', NEW c \in Held(s)'
             PROVE  Covered(s, c)'
  BY DEF IndexInv, Covered
<1>3. c \in Claims /\ c \in Held(s) /\ Contains(file[s].lines, c)
  BY <1>1 DEF Held, Contains
<1>4. CASE s # t
  <2>1. s \notin behind
    BY <1>4 DEF Rebuild
  <2>2. Covered(s, c)
    BY <1>3, <2>1 DEF IndexInv, Covered
  <2> QED
    BY <1>1, <1>2, <1>3, <1>4, <2>2 DEF Covered, RecordsStay, OnItsWay, Awaited
<1>5. CASE s = t
  <2>1. rows' = Append(rows, Rebuilt(t))
    BY <1>3, <1>5 DEF Rebuild
  <2>2. Rebuilt(t).slug = t /\ Rebuilt(t).body = file[t].lines
    BY DEF Rebuilt, Row
  <2> QED
    BY <1>3, <1>5, <2>1, <2>2, AppendRecords DEF Covered
<1> QED
  BY <1>4, <1>5

\* A topic whose claim was on its way, or awaited, is known to lack it.
LEMMA CrashCovers ==
  ASSUME TypeOK, IndexInv, Crash
  PROVE  IndexInv'
<1> SUFFICES ASSUME NEW s \in Slugs \ behind', NEW c \in Held(s)'
             PROVE  Covered(s, c)'
  BY DEF IndexInv, Covered
<1>1. c \in Held(s) /\ s \notin behind /\ ~OnItsWay(s, c)
  BY DEF Crash, Held, OnItsWay
<1>2. ~Awaited(s)
  <2>1. s \in Topics
    BY <1>1 DEF Topics, Held, Absent
  <2> QED
    BY <2>1 DEF Crash, Awaited
<1> QED
  BY <1>1, <1>2 DEF Crash, IndexInv, Covered, Recorded, RowsOf

\* Every step keeps IndexInv.
LEMMA IndexInvStep ==
  ASSUME TypeOK, IndexInv, [Next]_vars
  PROVE  IndexInv'
<1>1. ASSUME NEW k \in Captures, NEW c \in Claims, Check(k, c) PROVE IndexInv'
  <2>1. \A s, d : OnItsWay(s, d) => OnItsWay(s, d)'
    BY <1>1 DEF Check, OnItsWay, TypeOK
  <2> QED
    BY <1>1, <2>1, StillCovered, SameBodies DEF Check, Covered, Awaited
<1>2. ASSUME NEW k \in Captures, Read(k) PROVE IndexInv'
  <2>1. \A s, d : OnItsWay(s, d) => OnItsWay(s, d)'
    BY <1>2 DEF Read, OnItsWay, TypeOK
  <2> QED
    BY <1>2, <2>1, StillCovered, SameBodies DEF Read, Covered, Awaited
<1>3. ASSUME NEW k \in Captures, Write(k) \/ Insert(k) PROVE IndexInv'
  BY <1>3, WriteCovers, InsertCovers
<1>4. ASSUME Retrieve \/ (\E s \in Slugs : Forget(s)) PROVE IndexInv'
  <2>1. DOMAIN rows' = DOMAIN rows /\ \A i \in DOMAIN rows : rows[i] \in Chunk
    BY <1>4, LenProperties DEF Retrieve, Forget, TypeOK
  <2>2. \A i \in DOMAIN rows : rows'[i].slug = rows[i].slug /\ rows'[i].body = rows[i].body
    <3>1. CASE Retrieve
      <4>1. PICK i \in Live :
              rows' = [j \in DOMAIN rows |-> IF j \in RowsOf(rows[i].slug)
                                            THEN [rows[j] EXCEPT !.recalls = Capped(@)] ELSE rows[j]]
        BY <3>1 DEF Retrieve
      <4> QED BY <2>1, <4>1 DEF Chunk
    <3>2. ASSUME NEW s \in Slugs, Forget(s)
          PROVE  \A i \in DOMAIN rows : rows'[i].slug = rows[i].slug /\ rows'[i].body = rows[i].body
      BY <2>1, <3>2 DEF Forget, Chunk
    <3> QED BY <1>4, <3>1, <3>2
  <2>3. UNCHANGED <<file, pc, claim, dream, behind>>
    BY <1>4 DEF Retrieve, Forget
  <2> QED
    BY <2>1, <2>2, <2>3, StillCovered, SameBodies DEF Covered, OnItsWay, Awaited
<1>5. ASSUME NEW s \in Slugs, HandEdit(s) PROVE IndexInv'
  <2>1. \A t \in Slugs : file'[t].lines = file[t].lines
    BY <1>5 DEF HandEdit, TypeOK, File
  <2> QED
    BY <1>5, <2>1, StillCovered, SameBodies DEF HandEdit, Covered, OnItsWay, Awaited
<1>6. ASSUME Dream \/ (\E i \in DOMAIN rows : Skip(i)) \/ DreamEnds PROVE IndexInv'
  <2>1. UNCHANGED <<rows, file, pc, claim, behind>>
    BY <1>6 DEF Dream, Skip, DreamEnds
  <2>2. \A s : ~Awaited(s)
    BY <1>6 DEF Dream, Skip, DreamEnds, Awaited
  <2> QED
    BY <2>1, <2>2, StillCovered, SameBodies DEF Covered, OnItsWay
<1>7. ASSUME NEW i \in DOMAIN rows, Promote(i) PROVE IndexInv'
  <2>1. DOMAIN rows' = DOMAIN rows /\ \A j \in DOMAIN rows : rows[j] \in Chunk
    BY <1>7, LenProperties DEF Promote, TypeOK
  <2>2. \A j \in DOMAIN rows : rows'[j].slug = rows[j].slug /\ rows'[j].body = rows[j].body
    BY <1>7, <2>1 DEF Promote, Chunk
  <2>3. UNCHANGED <<file, pc, claim, behind>> /\ \A s : ~Awaited(s)
    BY <1>7 DEF Promote, Awaited
  <2> QED
    BY <2>1, <2>2, <2>3, StillCovered, SameBodies DEF Covered, OnItsWay
<1>8. ASSUME WritePromotion PROVE IndexInv'
  <2>1. /\ dream.slug \in Slugs /\ dream.text \in File /\ UNCHANGED <<rows, pc, claim>>
        /\ dream.at = "rewriting" /\ dream'.at = "promoting" /\ dream'.todo = dream.todo
    BY <1>8 DEF WritePromotion, TypeOK
  <2>2. CASE Put(dream.slug, dream.text, HeaderRewritten(dream.text))
    <3>1. PICK t \in Slugs, old \in File : t = dream.slug /\ old = dream.text
      BY <2>1
    <3>2. \A c : Contains(HeaderRewritten(old).lines, c) => Contains(old.lines, c)
      BY RewrittenHolds
    <3>3. \A s, c : OnItsWay(s, c) => OnItsWay(s, c)'
      BY <2>1 DEF OnItsWay
    <3> QED BY <2>1, <2>2, <3>1, <3>2, <3>3, PutCovered
  <2>3. CASE UNCHANGED <<file, behind>>
    BY <2>1, <2>3, StillCovered, SameBodies DEF Covered, OnItsWay, Awaited
  <2> QED
    BY <1>8, <2>2, <2>3 DEF WritePromotion
<1>9. ASSUME Clear PROVE IndexInv'
  <2>1. UNCHANGED <<file, pc, claim, behind>> /\ \A s : ~Awaited(s)
    BY <1>9 DEF Clear, Awaited
  <2>2. CASE dream' = [dream EXCEPT !.at = "rebuilding", !.todo = Slugs]
    <3>1. \A s \in Slugs : Awaited(s)'
      BY <2>2 DEF Awaited, TypeOK
    <3> QED
      BY <3>1 DEF IndexInv
  <2>3. CASE rows' = rows
    BY <2>1, <2>3, StillCovered, SameBodies DEF Covered, OnItsWay
  <2> QED
    BY <1>9, <2>2, <2>3 DEF Clear
<1>10. ASSUME NEW s \in Slugs, Rebuild(s) PROVE IndexInv'
  BY <1>10, RebuildCovers
<1>11. ASSUME Crash PROVE IndexInv'
  BY <1>11, CrashCovers
<1>12. ASSUME UNCHANGED vars PROVE IndexInv'
  BY <1>12 DEF vars, IndexInv, Held, Recorded, RowsOf, OnItsWay, Awaited
<1> QED BY <1>1, <1>2, <1>3, <1>4, <1>5, <1>6, <1>7, <1>8, <1>9, <1>10, <1>11, <1>12
        DEF Next, Capture, Dreaming

\* With nothing under way, what a topic file says can be found in the index, unless a
\* row of the topic was known not to be made.
THEOREM IndexCoversFilesHolds == Spec => []IndexCoversFiles
<1>1. IndexInv => IndexCoversFiles
  BY DEF IndexInv, IndexCoversFiles, Quiet, Awake, OnItsWay, Awaited
<1>2. TypeOK /\ IndexInv /\ [Next]_vars => IndexInv'
  BY IndexInvStep
<1> QED
  BY <1>1, <1>2, IndexInvInit, TypeCorrect, PTL DEF Spec
=============================================================================
