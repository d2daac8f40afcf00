----------------------------- MODULE InOrderRelay -----------------------------
(***************************************************************************)
(* What a video channel promises about the inference results it is given:  *)
(* every result it accepts is held, then either forwarded or discarded,    *)
(* never both and never twice, and the forwarded ones leave in strictly    *)
(* increasing frame order.  Reorder.tla shows that the reorder stage of    *)
(* VideoChannel keeps this promise.                                        *)
(***************************************************************************)
EXTENDS Naturals

CONSTANT Frame  \* frame_ids, a set of natural numbers

VARIABLES held, forwarded, discarded

relayVars == <<held, forwarded, discarded>>

Known == held \union forwarded \union discarded

Init ==
    /\ held = {}
    /\ forwarded = {}
    /\ discarded = {}

Hold(f) ==
    /\ f \notin Known
    /\ held' = held \union {f}
    /\ UNCHANGED <<forwarded, discarded>>

Refuse(f) ==
    /\ f \notin Known
    /\ discarded' = discarded \union {f}
    /\ UNCHANGED <<held, forwarded>>

Forward(f) ==
    /\ f \in held
    /\ \A g \in forwarded : g < f
    /\ held' = held \ {f}
    /\ forwarded' = forwarded \union {f}
    /\ UNCHANGED discarded

Discard(f) ==
    /\ f \in held
    /\ held' = held \ {f}
    /\ discarded' = discarded \union {f}
    /\ UNCHANGED forwarded

Next == \E f \in Frame : Hold(f) \/ Refuse(f) \/ Forward(f) \/ Discard(f)

Spec == Init /\ [][Next]_relayVars
===============================================================================
