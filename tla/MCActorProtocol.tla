---------------------------- MODULE MCActorProtocol ----------------------------
(***************************************************************************)
(* Two senders and four messages: two calls with their replies, or a call, *)
(* its reply and messages without one, so that every message is freed and  *)
(* taken again while calls go on.                                          *)
(***************************************************************************)
EXTENDS ActorProtocol, TLC

Symmetric == Permutations(Messages) \cup Permutations(Senders)

===============================================================================
