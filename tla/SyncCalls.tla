------------------------------- MODULE SyncCalls -------------------------------
(***************************************************************************)
(* What SendOutMessageSync (utils/ActorProtocol.cpp) promises its callers: *)
(* a call is answered at most once, and it gives up only as long as there  *)
(* is no answer: an answer that came in time, however late, is handed over.*)
(***************************************************************************)
CONSTANT Callers

VARIABLE call   \* per caller: "idle", "asked", "answered", "served" or "failed"

Init == call = [c \in Callers |-> "idle"]

Ask(c) == call[c] = "idle" /\ call' = [call EXCEPT ![c] = "asked"]

Answer(c) == call[c] = "asked" /\ call' = [call EXCEPT ![c] = "answered"]

\* The call returns with its answer.
Serve(c) == call[c] = "answered" /\ call' = [call EXCEPT ![c] = "served"]

\* The call has waited long enough.
GiveUp(c) == call[c] = "asked" /\ call' = [call EXCEPT ![c] = "failed"]

Done(c) == call[c] \in {"served", "failed"} /\ call' = [call EXCEPT ![c] = "idle"]

Next == \E c \in Callers : Ask(c) \/ Answer(c) \/ Serve(c) \/ GiveUp(c) \/ Done(c)

Spec == Init /\ [][Next]_call

===============================================================================
