----------------------------- MODULE TextDelivery -----------------------------
(***************************************************************************)
(* What the outbox promises its users: a text they submit is kept until    *)
(* Gmail has obtained it, and Gmail obtains nothing that is not kept.      *)
(***************************************************************************)
CONSTANT Texts

VARIABLES
    kept,      \* texts the program holds on to
    obtained   \* texts Gmail has mailed, has as drafts, or had as drafts

Init == kept = {} /\ obtained \subseteq Texts

Submit(t) ==
    /\ t \notin kept \cup obtained
    /\ kept' = kept \cup {t}
    /\ UNCHANGED obtained

Obtain(t) ==
    /\ t \in kept
    /\ obtained' = obtained \cup {t}
    /\ UNCHANGED kept

Discharge(t) ==
    /\ t \in kept \cap obtained
    /\ kept' = kept \ {t}
    /\ UNCHANGED obtained

Next == \E t \in Texts : Submit(t) \/ Obtain(t) \/ Discharge(t)

Spec == Init /\ [][Next]_<<kept, obtained>>
=============================================================================
