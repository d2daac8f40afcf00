------------------------------ MODULE MCPipeline ------------------------------
(* Model-checking instances of Pipeline: channel 0 has a longer file. *)
EXTENDS Pipeline

MCFileFrames == [c \in Channel |-> IF c = 0 THEN 3 ELSE 1]
===============================================================================
