------------------------------- MODULE MCReorder -------------------------------
(* Model-checking instances of Reorder: a stream of NumFrames frames. *)
EXTENDS Reorder

CONSTANT NumFrames

MCFrame == 0 .. NumFrames - 1
================================================================================
