------------------------------ MODULE Delivery ------------------------------
(***************************************************************************)
(* What a connector with an acknowledging source promises: the source      *)
(* (an MQ queue read under syncpoint, a streaming channel with manual      *)
(* acknowledgements) gives a message up only after the target has it.      *)
(* Messages may be offered and delivered more than once.                   *)
(***************************************************************************)
CONSTANT Messages

VARIABLES source,   \* messages the source still holds
          target    \* messages the target has got at least once

vars == <<source, target>>

Init == source \subseteq Messages /\ target = {}

Deliver(m) ==
    /\ m \in source
    /\ target' = target \cup {m}
    /\ UNCHANGED source

Remove(M) ==
    /\ M \subseteq source \cap target
    /\ source' = source \ M
    /\ UNCHANGED target

\* New messages come to the source, or ones that were given up are offered
\* again.
Offer(M) ==
    /\ source' = source \cup M
    /\ UNCHANGED target

Next ==
    \/ \E m \in Messages : Deliver(m)
    \/ \E M \in SUBSET Messages : Remove(M) \/ Offer(M)

Spec == Init /\ [][Next]_vars

=============================================================================
