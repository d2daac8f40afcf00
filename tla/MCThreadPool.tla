----------------------------- MODULE MCThreadPool -----------------------------
(* The model-checking instance of ThreadPool; thread ids and tasks are model *)
(* values.  No symmetry set is used: the run checks liveness.               *)
EXTENDS ThreadPool
===============================================================================
