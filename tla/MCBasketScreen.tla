--------------------------- MODULE MCBasketScreen ---------------------------
(* Small instances of BasketScreen for TLC. *)
EXTENDS BasketScreen

CONSTANTS tea, beer, cake

MCPrice == [i \in Items |-> IF i = tea THEN 2 ELSE IF i = beer THEN 3 ELSE 5]
MCVenue == [i \in Items |->
              IF i = tea THEN "Cafe" ELSE IF i = beer THEN "Bar" ELSE "Buttery"]
=============================================================================
