------------------------------ MODULE JobBoard ------------------------------
(***************************************************************************)
(* What lucy-scheduler's executor promises of a background job, seen only   *)
(* through the job list: a job is posted once, as Pending, its status only  *)
(* moves forward, a terminal status never changes, and only terminal jobs   *)
(* are taken off the list.                                                  *)
(***************************************************************************)
CONSTANT Jobs

VARIABLE status   \* JobStatus, "absent" for a job the list does not hold
VARIABLE posted   \* the jobs that have been on the list

Active   == {"Pending", "Running"}
Terminal == {"Completed", "Failed", "Cancelled"}

Init ==
  /\ status = [j \in Jobs |-> "absent"]
  /\ posted = {}

Post(j) ==
  /\ j \notin posted
  /\ posted' = posted \cup {j}
  /\ status' = [status EXCEPT ![j] = "Pending"]

Start(j) ==
  /\ status[j] = "Pending"
  /\ status' = [status EXCEPT ![j] = "Running"]
  /\ UNCHANGED posted

\* A job that was listed late may finish without being seen running.
Finish(j, outcome) ==
  /\ status[j] \in Active
  /\ status' = [status EXCEPT ![j] = outcome]
  /\ UNCHANGED posted

Cancel(j) ==
  /\ status[j] \in Active
  /\ status' = [status EXCEPT ![j] = "Cancelled"]
  /\ UNCHANGED posted

Cleanup ==
  /\ status' = [j \in Jobs |-> IF status[j] \in Terminal THEN "absent" ELSE status[j]]
  /\ UNCHANGED posted

Next ==
  \/ \E j \in Jobs : Post(j) \/ Start(j) \/ Cancel(j)
  \/ \E j \in Jobs, outcome \in {"Completed", "Failed"} : Finish(j, outcome)
  \/ Cleanup

Spec == Init /\ [][Next]_<<status, posted>>
=============================================================================
