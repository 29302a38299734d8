--------------------------- MODULE ReservedEffects ---------------------------
(***************************************************************************)
(* What the broker promises about a metered grant, with the stores, the    *)
(* calls and the crashes left out.  A debit is reserved once, is either    *)
(* released or spent and never both, and an effect spends its grant once,  *)
(* under a reservation that stands.                                        *)
(***************************************************************************)
CONSTANTS Grants, Metered

VARIABLES reserved, released, spent

evars == <<reserved, released, spent>>

EInit == reserved \in SUBSET Grants /\ released = {} /\ spent = {}

Reserve(g) ==
    /\ g \notin reserved /\ g \notin spent
    /\ reserved' = reserved \cup {g}
    /\ UNCHANGED <<released, spent>>

Release(g) ==
    /\ g \in reserved \ released /\ g \notin spent
    /\ released' = released \cup {g}
    /\ UNCHANGED <<reserved, spent>>

Spend(g) ==
    /\ g \notin spent
    /\ g \in Metered => g \in reserved \ released
    /\ spent' = spent \cup {g}
    /\ UNCHANGED <<reserved, released>>

ENext == \E g \in Grants : Reserve(g) \/ Release(g) \/ Spend(g)

ESpec == EInit /\ [][ENext]_evars
=============================================================================
