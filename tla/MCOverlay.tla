------------------------------- MODULE MCOverlay -------------------------------
(* Model-checking instance of Overlay: pictures smaller than the network's   *)
(* input, as large, a multiple of it, and larger by a fraction.              *)
EXTENDS Overlay

MCWidths == {2, 4, 10, 20, 26, 30}
================================================================================
