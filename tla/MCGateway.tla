----------------------------- MODULE MCGateway -----------------------------
(***************************************************************************)
(* The gateway's sessions and, beside them, what Lucy keeps or asks apart   *)
(* from them: the page library and its editor, the skills, and the client   *)
(* of the classification server. They share no variable, and a behaviour    *)
(* moves one of them.                                                       *)
(***************************************************************************)
EXTENDS Gateway, Spaces, Editor, Skills, Decider, TLC

CONSTANTS c1, c2, r1, r2, q1

VARIABLE part

\* Pages are found by their title and by one of two texts.
MCHolds == {<<"day", "day">>, <<"fine", "fine">>}

MCHeadings == {<<"x">>, <<"x", "x">>}

\* Two kinds of task that resemble each other between one that is like neither.
MCResembles == {<<"mail", "letter">>, <<"letter", "mail">>}
MCStepsOf == [mail |-> 2, letter |-> 3, tea |-> 3]
Went(k, well) == <<k, well>>
MCHistories ==
  {<<Went("mail", TRUE), Went("tea", TRUE), Went("letter", FALSE), Went("tea", TRUE)>>,
   <<Went("tea", TRUE), Went("tea", FALSE), Went("letter", TRUE)>>}

MCSlugFor == [tea |-> "tea"]
Build(first, second, third, says) == [does |-> 0 :> first @@ 1 :> second @@ 2 :> third, health |-> says]
MCBuilds ==
  {Build("answers", "missing", "missing", "loaded"), Build("missing", "missing", "answers", "loaded"),
   Build("missing", "answers", "missing", "idle"), Build("broken", "missing", "silent", "loaded"),
   Build("silent", "silent", "silent", "silent"), Build("missing", "missing", "missing", "garbled")}

libraryVars == <<spacesVars, editorVars, skillsVars>>

MCInit ==
  /\ Init /\ SpacesInit /\ EditorInit /\ SkillsInit /\ DeciderInit
  /\ part \in {"gateway", "spaces", "editor", "skills", "decider"}
  /\ part # "decider" => server.health = "idle"

MCNext ==
  \/ part = "gateway" /\ Next /\ UNCHANGED <<libraryVars, deciderVars, part>>
  \/ part = "spaces" /\ SpacesNext /\ UNCHANGED <<vars, editorVars, skillsVars, deciderVars, part>>
  \/ part = "editor" /\ EditorNext /\ UNCHANGED <<vars, spacesVars, skillsVars, deciderVars, part>>
  \/ part = "skills" /\ SkillsNext /\ UNCHANGED <<vars, spacesVars, editorVars, deciderVars, part>>
  \/ part = "decider" /\ DeciderNext /\ UNCHANGED <<vars, libraryVars, part>>

\* The gateway's fairness, in the behaviours in which it moves.
On(A) == part = "gateway" /\ A
MCSpec ==
  /\ MCInit /\ [][MCNext]_<<vars, libraryVars, deciderVars, part>>
  /\ \A r \in Runs : WF_vars(On(RunStep(r))) /\ SF_vars(On(Return(r))) /\ WF_vars(On(Reply(r)))
  /\ \A c \in Clients : SF_vars(On(Deliver(c))) /\ WF_vars(On(Closed(c))) /\ WF_vars(On(StopDenies(c)))
=============================================================================
