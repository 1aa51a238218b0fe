------------------------------ MODULE JobService ------------------------------
(***************************************************************************)
(* What CJobManager promises its clients (the comments of JobManager.h and *)
(* Job.h, as far as the code keeps them), without workers, events or       *)
(* priorities: the life of each job and the life of the service.           *)
(*                                                                         *)
(* A job is submitted, started once, ended once and then reported to the   *)
(* client it was submitted for, unless it was cancelled before its end.    *)
(* A cancellation that comes later is too late: the report is still made.  *)
(* A service that has stopped has no job and makes no report.              *)
(***************************************************************************)
CONSTANTS Job, Callback, NULL

VARIABLES
  phase,    \* "accepting", "stopping" or "stopped"
  status,   \* of a job: "none", "queued", "running", "reporting" or "ended"
  client,   \* who would be told of the end of the job; NULL when nobody
  report    \* who is being told

vars == <<phase, status, client, report>>

Init ==
  /\ phase = "accepting"
  /\ status = [j \in Job |-> "none"]
  /\ client = [j \in Job |-> NULL]
  /\ report = [j \in Job |-> NULL]

Submit(j, c) ==
  /\ phase = "accepting"
  /\ status[j] = "none"
  /\ status' = [status EXCEPT ![j] = "queued"]
  /\ client' = [client EXCEPT ![j] = c]
  /\ UNCHANGED <<phase, report>>

Start(j) ==
  /\ phase = "accepting"
  /\ status[j] = "queued"
  /\ status' = [status EXCEPT ![j] = "running"]
  /\ UNCHANGED <<phase, client, report>>

\* A cancelled job that waits is gone; one that was started loses its client.
Cancel(j) ==
  /\ status[j] # "none"
  /\ status' = [status EXCEPT ![j] = IF @ = "queued" THEN "none" ELSE @]
  /\ client' = [client EXCEPT ![j] = NULL]
  /\ UNCHANGED <<phase, report>>

\* The end of a job settles whether there is a report.
End(j) ==
  /\ status[j] = "running"
  /\ status' = [status EXCEPT ![j] = IF client[j] = NULL THEN "ended" ELSE "reporting"]
  /\ report' = [report EXCEPT ![j] = client[j]]
  /\ UNCHANGED <<phase, client>>

Reported(j) ==
  /\ status[j] = "reporting"
  /\ status' = [status EXCEPT ![j] = "ended"]
  /\ report' = [report EXCEPT ![j] = NULL]
  /\ UNCHANGED <<phase, client>>

Retire(j) ==
  /\ status[j] = "ended"
  /\ status' = [status EXCEPT ![j] = "none"]
  /\ client' = [client EXCEPT ![j] = NULL]
  /\ UNCHANGED <<phase, report>>

\* Every job that waits is gone, every other one loses its client.
Stop ==
  /\ phase' = "stopping"
  /\ status' = [j \in Job |-> IF status[j] = "queued" THEN "none" ELSE status[j]]
  /\ client' = [j \in Job |-> NULL]
  /\ UNCHANGED report

Stopped ==
  /\ phase = "stopping"
  /\ \A j \in Job : status[j] = "none"
  /\ phase' = "stopped"
  /\ UNCHANGED <<status, client, report>>

Restart ==
  /\ phase = "stopped"
  /\ phase' = "accepting"
  /\ UNCHANGED <<status, client, report>>

Next ==
  \/ \E j \in Job :
       \/ \E c \in Callback \cup {NULL} : Submit(j, c)
       \/ Start(j) \/ Cancel(j) \/ End(j) \/ Reported(j) \/ Retire(j)
  \/ Stop \/ Stopped \/ Restart

Spec == Init /\ [][Next]_vars

===============================================================================
