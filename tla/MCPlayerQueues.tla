---------------------------- MODULE MCPlayerQueues ----------------------------
(***************************************************************************)
(* Both streams are open.  The player's thread runs two handlers, so that  *)
(* the second finds the messages of the first in queues and hands; a       *)
(* decoder asks once for its packets again.                                *)
(***************************************************************************)
EXTENDS PlayerQueues

===============================================================================
