------------------------------- MODULE MCHost -------------------------------
(***************************************************************************)
(* The gateway's runtime host and its device store in one run.  They share  *)
(* no variable, so a behaviour moves one of them.                           *)
(***************************************************************************)
EXTENDS Host, DeviceStore

CONSTANTS a, b, s1, s2, ph1, ph2

VARIABLE part   \* which of the two moves

MCInit == part \in {"host", "store"} /\ Init /\ StoreInit
MCNext ==
  \/ part = "host" /\ Next /\ UNCHANGED <<storeVars, part>>
  \/ part = "store" /\ StoreNext /\ UNCHANGED <<vars, part>>

\* Host's fairness, in the behaviours in which it moves.
On(A) == part = "host" /\ A
MCSpec ==
  /\ MCInit /\ [][MCNext]_<<vars, storeVars, part>>
  /\ \A c \in Callers : SF_vars(On(Lock(c))) /\ WF_vars(On(Builds(c))) /\ SF_vars(On(Install(c)))
  /\ \A s \in Sockets : WF_vars(On(ReadEnds(s)))
  /\ WF_vars(On(Tick)) /\ WF_vars(On(ReapCheck)) /\ WF_vars(On(ReapQueue))
  /\ SF_vars(On(Reap)) /\ WF_vars(On(ReapEnds))
  /\ SF_vars(On(Unload)) /\ WF_vars(On(UnloadEnds))
=============================================================================
