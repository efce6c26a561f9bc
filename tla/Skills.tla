-------------------------------- MODULE Skills --------------------------------
(***************************************************************************)
(* The skill store (lucy-skills, lib.rs, creator.rs, improver.rs): how a    *)
(* skill fared is counted in memory and saved to one file under a lock;     *)
(* repeated tasks become skill files; a skill that fares badly is given a   *)
(* step more, one that fares well a remark. A skill file is the number of   *)
(* remarks in its description and the numbers in front of its steps.        *)
(***************************************************************************)
EXTENDS Naturals, Sequences, FiniteSets, SequencesExt

CONSTANTS Skilled,       \* those with a handle to the store
          Kinds,         \* descriptions of tasks; a skill is named after one
          Resembles,     \* the pairs of descriptions that share half of their words
          StepsOf,       \* how many steps are inferred from a description
          Histories,     \* lists of tasks, each a description and whether it went well
          MinOccurrences, MinUses, MinStable, \* 3, 5, 10
          OneDigit,      \* 9, the largest number of one digit
          MaxUses, MaxSteps, MaxRemarks, MaxCrashes, MaxTries \* bounds

VARIABLES counts,   \* how often each skill went well and badly, in memory
          countsFile,
          saver,    \* who holds the lock on the counts
          book,     \* the skill files
          learned,  \* the patterns a skill was made from, in memory and on disk
          acts,     \* what each caller is at
          running, crashes, tries,
          answered  \* outcomes whose recording was reported as done (history)
skillsVars == <<counts, countsFile, saver, book, learned, acts, running, crashes, tries, answered>>

NoSaver == "nobody"
ASSUME SkillsAssumption == NoSaver \notin Skilled
NoSkill == [remarks |-> 0, steps |-> <<0>>]
NoAct == [at |-> "none", kind |-> "", change |-> "", held |-> NoSkill, todo |-> << >>]
Uncounted == [k \in Kinds |-> [ok |-> 0, bad |-> 0]]
Whole(c) == [torn |-> FALSE, counts |-> c]
Total(c) == c.ok + c.bad

SkillsInit ==
  /\ counts = Uncounted /\ countsFile = Whole(Uncounted) /\ saver = NoSaver
  /\ book = [k \in Kinds |-> NoSkill] /\ learned = {} /\ acts = [s \in Skilled |-> NoAct]
  /\ running = TRUE /\ crashes = 0 /\ tries = 0 /\ answered = [k \in Kinds |-> 0]
-----------------------------------------------------------------------------
Rests(s) == running /\ acts[s].at = "none" /\ tries < MaxTries /\ tries' = tries + 1
Goes(s, act) == acts' = [acts EXCEPT ![s] = act]
StoreRests == UNCHANGED <<running, crashes>>
CountsRest == UNCHANGED <<counts, countsFile, saver, answered>>
BookRests == UNCHANGED <<book, learned>>

Bumped(c, well) == IF well THEN [ok |-> c.ok + 1, bad |-> c.bad] ELSE [ok |-> c.ok, bad |-> c.bad + 1]

\* The lock is taken before the count goes up and given back when the file
\* is written.
RecordOutcome(s, k, well) ==
  /\ Rests(s) /\ saver = NoSaver /\ saver' = s
  /\ counts' = [counts EXCEPT ![k] = Bumped(counts[k], well)]
  /\ Goes(s, [NoAct EXCEPT !.at = "saving", !.kind = k])
  /\ UNCHANGED <<countsFile, answered>> /\ BookRests /\ StoreRests
OpenFile(s) ==
  /\ running /\ acts[s].at = "saving" /\ Goes(s, [acts[s] EXCEPT !.at = "writing"])
  /\ countsFile' = [countsFile EXCEPT !.torn = TRUE]
  /\ UNCHANGED <<counts, saver, answered, tries>> /\ BookRests /\ StoreRests
SaveCounts(s) ==
  /\ running /\ acts[s].at = "writing" /\ saver = s /\ saver' = NoSaver
  /\ countsFile' = Whole(counts) /\ answered' = [answered EXCEPT ![acts[s].kind] = @ + 1]
  /\ Goes(s, NoAct) /\ UNCHANGED <<counts, tries>> /\ BookRests /\ StoreRests
\* Slip: an outcome that could not be saved is reported as recorded.
SwallowsError(s) ==
  /\ running /\ acts[s].at \in {"saving", "writing"} /\ crashes < MaxCrashes /\ crashes' = crashes + 1
  /\ saver' = NoSaver /\ Goes(s, NoAct) /\ answered' = [answered EXCEPT ![acts[s].kind] = @ + 1]
  /\ UNCHANGED <<counts, countsFile, tries, running>> /\ BookRests

\* A file that cannot be opened is as it was, one that cannot be finished is
\* torn; memory has counted all the same.
SaveFails(s) ==
  /\ running /\ acts[s].at \in {"saving", "writing"} /\ crashes < MaxCrashes /\ crashes' = crashes + 1
  /\ saver' = NoSaver /\ Goes(s, NoAct)
  /\ UNCHANGED <<counts, countsFile, answered, tries, running>> /\ BookRests
-----------------------------------------------------------------------------
\* Tasks like the first of a group join it; a group of three or more is a
\* pattern, described as its first task.
Alike(a, b) == a = b \/ <<a, b>> \in Resembles
Join(groups, task) ==
  LET like == {i \in DOMAIN groups : Alike(task[1], groups[i][1][1])}
  IN IF like = {} THEN Append(groups, <<task>>)
     ELSE [groups EXCEPT ![CHOOSE i \in like : \A j \in like : i <= j] = Append(@, task)]
DetectPatterns(tasks) == SelectSeq(FoldLeft(Join, << >>, tasks), LAMBDA g : Len(g) >= MinOccurrences)

Learn(s, tasks) ==
  /\ Rests(s) /\ DetectPatterns(tasks) # << >>
  /\ Goes(s, [NoAct EXCEPT !.at = "choosing", !.todo = [i \in DOMAIN DetectPatterns(tasks) |-> DetectPatterns(tasks)[i][1][1]]])
  /\ CountsRest /\ BookRests /\ StoreRests
\* What is already there, or like it, is not made again.
There(k) == book[k] # NoSkill
SomethingLike(k) == \E j \in Kinds : There(j) /\ Alike(k, j)
Next1(act) == IF act.todo = << >> THEN NoAct ELSE act
ChooseSkill(s) ==
  /\ running /\ acts[s].at = "choosing" /\ saver = NoSaver
  /\ LET k == Head(acts[s].todo)
         rest == [acts[s] EXCEPT !.todo = Tail(@)]
     IN Goes(s, IF SomethingLike(k) THEN Next1(rest) ELSE [rest EXCEPT !.at = "making", !.kind = k])
  /\ UNCHANGED tries /\ CountsRest /\ BookRests /\ StoreRests
\* The file is written as new, whatever was put there meanwhile.
MakeSkill(s) ==
  /\ running /\ acts[s].at = "making"
  /\ LET k == acts[s].kind
     IN book' = [book EXCEPT ![k] = [remarks |-> 0, steps |-> [i \in 1..StepsOf[k] |-> i]]]
  /\ Goes(s, [acts[s] EXCEPT !.at = "learned"])
  /\ UNCHANGED <<learned, tries>> /\ CountsRest /\ StoreRests
KeepPattern(s) ==
  /\ running /\ acts[s].at = "learned" /\ learned' = learned \cup {acts[s].kind}
  /\ Goes(s, Next1([acts[s] EXCEPT !.at = "choosing"]))
  /\ UNCHANGED <<book, tries>> /\ CountsRest /\ StoreRests
-----------------------------------------------------------------------------
\* What a look at the skills proposes, from the counts in memory.
FaresBadly(c) == Total(c) >= MinUses /\ 2 * c.ok < Total(c)
FaresWell(c) == Total(c) >= MinStable /\ 10 * c.ok > 9 * Total(c)
Proposes(k) == IF FaresBadly(counts[k]) THEN {"add"} ELSE IF FaresWell(counts[k]) THEN {"remark"} ELSE {}
ByHand == {"remove", "reorder"}

\* An improvement is applied by reading the file, changing it and writing it back.
Analyse(s, k, change) ==
  /\ Rests(s) /\ saver = NoSaver /\ There(k) /\ change \in Proposes(k) \cup ByHand
  /\ Goes(s, [NoAct EXCEPT !.at = "reading", !.kind = k, !.change = change])
  /\ CountsRest /\ BookRests /\ StoreRests
ReadSkill(s) ==
  /\ running /\ acts[s].at = "reading" /\ saver = NoSaver
  /\ Goes(s, [acts[s] EXCEPT !.at = "changing", !.held = book[acts[s].kind]])
  /\ UNCHANGED tries /\ CountsRest /\ BookRests /\ StoreRests

\* The last step is the first with the largest number, of those whose number
\* is one digit: behind step nine every new step is a tenth.
Seen(steps) == {i \in DOMAIN steps : steps[i] <= OneDigit}
AddStep(steps) ==
  IF Seen(steps) = {} THEN Append(steps, 1)
  ELSE LET last == CHOOSE i \in Seen(steps) : \A j \in Seen(steps) : steps[j] < steps[i] \/ (steps[j] = steps[i] /\ i <= j)
       IN InsertAt(steps, last + 1, steps[last] + 1)
Changed(held, change) ==
  CASE change = "remark" -> [held EXCEPT !.remarks = @ + 1]
    [] change = "add" -> [held EXCEPT !.steps = AddStep(@)]
    [] change = "remove" -> [held EXCEPT !.steps = IF @ = << >> THEN @ ELSE Tail(@)]
    [] change = "reorder" -> [held EXCEPT !.steps = [i \in DOMAIN @ |-> i]]
WriteSkill(s) ==
  /\ running /\ acts[s].at = "changing"
  /\ LET new == Changed(acts[s].held, acts[s].change)
     IN /\ Len(new.steps) <= MaxSteps /\ new.remarks <= MaxRemarks
        /\ book' = [book EXCEPT ![acts[s].kind] = new]
  /\ Goes(s, NoAct) /\ UNCHANGED <<learned, tries>> /\ CountsRest /\ StoreRests
-----------------------------------------------------------------------------
\* The process goes away, and the store is opened again: what is on disk is
\* read, and a file that is no JSON keeps the store from opening.
StoreDies ==
  /\ running /\ crashes < MaxCrashes /\ crashes' = crashes + 1 /\ running' = FALSE
  /\ counts' = Uncounted /\ saver' = NoSaver /\ acts' = [s \in Skilled |-> NoAct]
  /\ UNCHANGED <<countsFile, answered, tries>> /\ BookRests
OpenStore ==
  /\ ~running /\ ~countsFile.torn /\ running' = TRUE /\ counts' = countsFile.counts
  /\ UNCHANGED <<countsFile, saver, acts, crashes, tries, answered>> /\ BookRests

SkillsNext ==
  \/ \E s \in Skilled :
       \/ \E k \in Kinds : \/ Total(counts[k]) < MaxUses /\ \E well \in BOOLEAN : RecordOutcome(s, k, well)
                           \/ \E change \in {"add", "remark"} \cup ByHand : Analyse(s, k, change)
       \/ \E tasks \in Histories : Learn(s, tasks)
       \/ OpenFile(s) \/ SaveCounts(s) \/ SaveFails(s) \/ ChooseSkill(s) \/ MakeSkill(s) \/ KeepPattern(s)
       \/ ReadSkill(s) \/ WriteSkill(s)
  \/ StoreDies \/ OpenStore

SkillsSpec == SkillsInit /\ [][SkillsNext]_skillsVars

SkillsTypeOK ==
  /\ saver \in Skilled \cup {NoSaver} /\ learned \subseteq Kinds /\ running \in BOOLEAN
  /\ \A k \in Kinds : Total(counts[k]) \in 0..MaxUses /\ Len(book[k].steps) \in 0..MaxSteps

\* An outcome reported as recorded is never lost: a store that opens again,
\* whenever it went away, and whoever recorded at the same time, has counted
\* at least as many as were reported (lib.rs: the lock is held over the save).
RecordedIsCounted ==
  \A k \in Kinds : /\ ~countsFile.torn => Total(countsFile.counts[k]) >= answered[k]
                   /\ running => Total(counts[k]) >= answered[k]

\* What the store keeps between any two of its steps, from which that follows:
\* whoever saves holds the lock, and what it has counted and not yet reported is
\* over and above what was reported.
ActFields == {"at", "kind", "change", "held", "todo"}
Counted(k) == IF saver \in Skilled /\ acts[saver].kind = k THEN 1 ELSE 0
SkillsInv ==
  /\ counts \in [Kinds -> [ok : Nat, bad : Nat]] /\ answered \in [Kinds -> Nat]
  /\ countsFile \in [torn : BOOLEAN, counts : [Kinds -> [ok : Nat, bad : Nat]]]
  /\ running \in BOOLEAN /\ saver \in Skilled \cup {NoSaver}
  /\ DOMAIN acts = Skilled /\ \A s \in Skilled : DOMAIN acts[s] = ActFields
  /\ \A s \in Skilled : acts[s].at \in {"saving", "writing"} <=> saver = s
  /\ saver \in Skilled => running /\ acts[saver].kind \in Kinds
  /\ \A k \in Kinds : /\ ~countsFile.torn => Total(countsFile.counts[k]) >= answered[k]
                      /\ running => Total(counts[k]) >= answered[k] + Counted(k)
=============================================================================
