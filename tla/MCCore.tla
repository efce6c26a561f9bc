------------------------------- MODULE MCCore -------------------------------
(***************************************************************************)
(* lucy-core's interrupt signal and approval gate in one run.  They share   *)
(* no variable here (the gate sees the signal as one flag), so a behaviour  *)
(* moves one of them and the states are the sum of theirs.                  *)
(***************************************************************************)
EXTENDS InterruptSignal, ApprovalGate

CONSTANTS t1, t2, t3, read, write, i1, i2

VARIABLE part   \* which of the two moves

MCInit == part \in {"signal", "gate"} /\ Init /\ GateInit
MCNext ==
  \/ part = "signal" /\ Next /\ UNCHANGED <<gateVars, part>>
  \/ part = "gate" /\ GateNext /\ UNCHANGED <<vars, part>>

\* The gate's fairness, in the behaviours in which it moves: a task whose
\* select! has a ready branch is polled.
MCSpec ==
  /\ MCInit /\ [][MCNext]_<<vars, gateVars, part>>
  /\ \A n \in 1..MaxPrompts :
       WF_gateVars(part = "gate" /\ n \in DOMAIN prompts /\ Wakeup(n))
=============================================================================
