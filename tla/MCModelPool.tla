------------------------------ MODULE MCModelPool ------------------------------
(* Model-checking instances of ModelPool. *)
EXTENDS ModelPool
================================================================================
