------------------------------- MODULE MCDecoder -------------------------------
(* Model-checking instances of Decoder. *)
EXTENDS Decoder
================================================================================
