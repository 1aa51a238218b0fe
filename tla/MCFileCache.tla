------------------------------ MODULE MCFileCache ------------------------------
(***************************************************************************)
(* A file of three bytes in a cache of two, one of them back buffer: the   *)
(* buffer wraps, pieces of two bytes are written in one or two parts, and  *)
(* positions lie before, in, a little after and well after what is cached. *)
(***************************************************************************)
EXTENDS FileCache

===============================================================================
