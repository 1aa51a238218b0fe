------------------------------ MODULE MCJobQueue ------------------------------
(* JobQueue for TLC: symmetric jobs, keys and worker threads. *)
EXTENDS JobQueue

Symmetry == Permutations(Job) \cup Permutations(Worker) \cup Permutations(Key)

===============================================================================
