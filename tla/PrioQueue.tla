----------------------------- MODULE PrioQueue ------------------------------
(* What heap_t promises: a bag of elements from which the least is taken.     *)
EXTENDS Integers, BagsExt
VARIABLE bag

Copies(e) == IF e \in DOMAIN bag THEN bag[e] ELSE 0
Least == CHOOSE e \in DOMAIN bag : \A f \in DOMAIN bag : e <= f
Push(e) == bag' = BagAdd(bag, e)
Pop == bag' = BagRemove(bag, Least)
Empty == bag = [e \in {} |-> 0]
=============================================================================
