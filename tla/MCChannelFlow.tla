----------------------------- MODULE MCChannelFlow -----------------------------
(* Model-checking instances of ChannelFlow. *)
EXTENDS ChannelFlow

MCFrame == 0 .. NumFrames - 1
================================================================================
