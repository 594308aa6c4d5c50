---------------------------- MODULE BattleResult ----------------------------
(***************************************************************************)
(* What result delivery promises, whatever the messages do: a result is    *)
(* applied by the game only after it was stored, and the store marks it    *)
(* confirmed only after the game applied it.  A battle process that dies   *)
(* forgets what it stored.                                                 *)
(***************************************************************************)
CONSTANT Battles
VARIABLES
    store,      \* what the battle side has stored for each battle
    applied     \* battles whose result the game has applied

vars == <<store, applied>>

Init ==
    /\ store = [b \in Battles |-> "none"]
    /\ applied = {}

Save(b) ==
    /\ store[b] = "none"
    /\ store' = [store EXCEPT ![b] = "saved"]
    /\ UNCHANGED applied

Apply(b) ==
    /\ store[b] # "none"
    /\ applied' = applied \cup {b}
    /\ UNCHANGED store

Confirm(b) ==
    /\ store[b] = "saved"
    /\ b \in applied
    /\ store' = [store EXCEPT ![b] = "confirmed"]
    /\ UNCHANGED applied

Forget(bs) ==
    /\ \A b \in bs : store[b] # "none"
    /\ store' = [b \in Battles |-> IF b \in bs THEN "lost" ELSE store[b]]
    /\ UNCHANGED applied

Next ==
    \/ \E b \in Battles : Save(b) \/ Apply(b) \/ Confirm(b)
    \/ \E bs \in SUBSET Battles : Forget(bs)

Spec == Init /\ [][Next]_vars
=============================================================================
