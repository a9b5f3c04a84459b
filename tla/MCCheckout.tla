----------------------------- MODULE MCCheckout -----------------------------
(* Small instances of Checkout for TLC. *)
EXTENDS Checkout

CONSTANTS tea, beer, cake

MCPrice == [i \in Items |-> IF i = tea THEN 2 ELSE IF i = beer THEN 3 ELSE 5]
MCVenue == [i \in Items |->
              IF i = tea THEN "Cafe" ELSE IF i = beer THEN "Bar" ELSE "Buttery"]
=============================================================================
