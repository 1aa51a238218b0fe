----------------------------- MODULE MCEventGroup -----------------------------
(* EventGroup for TLC: a group of an auto-reset and a manual-reset event. *)
EXTENDS EventGroup

CONSTANTS auto, manual

MCEvents == <<auto, manual>>

===============================================================================
