------------------------------- MODULE MCStream -------------------------------
(* Model-checking instances of Stream. *)
EXTENDS Stream
================================================================================
