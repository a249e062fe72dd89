----------------------------- MODULE SessionSlot -----------------------------
(***************************************************************************)
(* What the relay's `online` table promises, without loops, locks or       *)
(* channels: every key has at most one holder; a newcomer takes the slot   *)
(* at once and whoever held it is displaced; a session frees the slot when *)
(* it leaves only if it still holds it.                                    *)
(***************************************************************************)
CONSTANTS Keys, Sessions, Nobody

VARIABLES
    holder, \* key -> the session that phones of this key are sent to
    phase   \* session -> where it is in its life

slotVars == <<holder, phase>>

Init ==
    /\ holder = [k \in Keys |-> Nobody]
    /\ phase = [s \in Sessions |-> "fresh"]

\* s takes the slot of k, from whoever holds it.
Acquire(s, k) ==
    /\ phase[s] = "fresh"
    /\ holder' = [holder EXCEPT ![k] = s]
    /\ phase' = [t \in Sessions |-> IF t = s THEN "holding"
                                    ELSE IF t = holder[k] THEN "displaced"
                                    ELSE phase[t]]

\* The holder of k leaves, and its slot with it.
Release(s, k) ==
    /\ phase[s] = "holding"
    /\ holder[k] = s
    /\ holder' = [holder EXCEPT ![k] = Nobody]
    /\ phase' = [phase EXCEPT ![s] = "gone"]

\* A displaced session leaves; its successor does not notice.
Withdraw(s) ==
    /\ phase[s] = "displaced"
    /\ phase' = [phase EXCEPT ![s] = "gone"]
    /\ UNCHANGED holder

Next ==
    \E s \in Sessions :
        \/ Withdraw(s)
        \/ \E k \in Keys : Acquire(s, k) \/ Release(s, k)

Spec == Init /\ [][Next]_slotVars
=============================================================================
