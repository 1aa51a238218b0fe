---------------------------- MODULE JobManagerImpl ----------------------------
(***************************************************************************)
(* The refinement mapping from JobManager to JobService: what each job is  *)
(* for its client, read off the queues, m_processing and the workers.      *)
(***************************************************************************)
EXTENDS JobManager

phaseBar ==
  IF m_running THEN "accepting"
  ELSE IF canceller = "draining" THEN "stopping" ELSE "stopped"

statusBar ==
  [j \in Job |->
     IF j \in AllQueued THEN "queued"
     ELSE IF j \notin m_processing THEN "none"
     ELSE IF \E w \in Busy : held[w] = j /\ pc[w] \in {"work", "progress"} THEN "running"
     ELSE IF \E w \in Busy : held[w] = j /\ pc[w] \in {"notify", "callback"} THEN "reporting"
     ELSE "ended"]

clientBar == [j \in Job |-> item[j].callback]

\* The copy of the callback that the worker calls: NULL outside OnJobComplete.
reportBar ==
  [j \in Job |->
     IF \E w \in Busy : held[w] = j /\ pc[w] \in {"notify", "callback"}
     THEN copied[CHOOSE w \in Busy : held[w] = j]
     ELSE NULL]

Service == INSTANCE JobService WITH
  phase <- phaseBar, status <- statusBar, client <- clientBar, report <- reportBar

(***************************************************************************)
(* CJobManager implements the service: every critical section is one step  *)
(* of the service or is invisible to clients.                              *)
(***************************************************************************)
ImplementsService == Service!Spec

===============================================================================
