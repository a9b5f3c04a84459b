------------------------------ MODULE OrderBook ------------------------------
(***************************************************************************)
(* What the kitchen's database is promised: orders are placed under ids    *)
(* and stay placed; a user who has joined has a list of previous orders    *)
(* that only ever names orders that were placed, and two lists that follow *)
(* each other never disagree: one is the beginning of the other.           *)
(***************************************************************************)
EXTENDS Integers, Sequences, SequencesExt

CONSTANTS People, IDs

VARIABLES placed,   \* the ids of the orders that exist
          filed     \* of every user who has joined, the list of previous orders

Init ==
    /\ placed = {}
    /\ DOMAIN filed \subseteq People
    /\ \A u \in DOMAIN filed : filed[u] = << >>

Place(id) ==
    /\ placed' = placed \cup {id}
    /\ UNCHANGED filed

Join(u) ==
    /\ u \notin DOMAIN filed
    /\ filed' = [v \in DOMAIN filed \cup {u} |-> IF v = u THEN << >> ELSE filed[v]]
    /\ UNCHANGED placed

\* The whole list is written: several orders may join it at once, when an
\* earlier write of it was refused, and a write sent again may be an older one.
File(u) ==
    /\ DOMAIN filed' = DOMAIN filed
    /\ IsPrefix(filed[u], filed'[u]) \/ IsPrefix(filed'[u], filed[u])
    /\ Range(filed'[u]) \subseteq placed
    /\ \A v \in DOMAIN filed \ {u} : filed'[v] = filed[v]
    /\ UNCHANGED placed

Next ==
    \/ \E id \in IDs : Place(id)
    \/ \E u \in People : Join(u)
    \/ \E u \in DOMAIN filed : File(u)

Spec == Init /\ [][Next]_<<placed, filed>>
=============================================================================
