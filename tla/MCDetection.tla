------------------------------ MODULE MCDetection ------------------------------
(* Model-checking instance of Detection. *)
EXTENDS Detection

\* Cells below either threshold, on it, and above it in one class or the other.
MCCellKind ==
    {[conf |-> 0, prob |-> <<3, 0>>], [conf |-> 1, prob |-> <<1, 1>>],
     [conf |-> 1, prob |-> <<2, 2>>], [conf |-> 2, prob |-> <<2, 0>>],
     [conf |-> 2, prob |-> <<0, 3>>], [conf |-> 3, prob |-> <<3, 2>>]}
================================================================================
