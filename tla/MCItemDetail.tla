---------------------------- MODULE MCItemDetail ----------------------------
(* Small instances of ItemDetail for TLC: a coffee with an extra that can be   *)
(* had more than once, two that cannot, and two sizes; and a plain cake.       *)
EXTENDS ItemDetail

CONSTANTS coffee, cake, shot, oat, soy, small, large, extras, size

MCOffers     == [m \in Menu |-> IF m = coffee THEN {extras, size} ELSE {}]
MCListOf     == [c \in Options |-> IF c \in {small, large} THEN size ELSE extras]
MCBasePrice  == [m \in Menu |-> IF m = coffee THEN 200 ELSE 150]
MCExtraPrice == [c \in Options |-> CASE c = shot -> 30 [] c = large -> 50 [] c = small -> 0
                                     [] OTHER -> 20]
=============================================================================
