----------------------------- MODULE WriteQueue -----------------------------
(***************************************************************************)
(* What the Firestore client promises of writes: every account has a queue *)
(* of writes that outlives the app, the server is sent the queue of the    *)
(* account in use, in order, and a write leaves it only when it is the     *)
(* oldest one and the client has heard of it.  On one connection the       *)
(* server may be ahead of what the client has heard; when the connection   *)
(* ends, what was not heard of is sent again, so a write may be applied    *)
(* twice, and an older one after a newer one.                              *)
(***************************************************************************)
EXTENDS Integers, Sequences, SequencesExt

CONSTANTS Accounts

VARIABLES who,      \* the account in use
          pending,  \* the queue of each account
          ahead     \* how many of them the server applied and the client awaits

vars == <<who, pending, ahead>>

Init ==
    /\ who \in Accounts
    /\ pending = [a \in Accounts |-> << >>]
    /\ ahead = 0

\* The account in use asks for more writes.
Enqueue ==
    /\ DOMAIN pending' = Accounts
    /\ \A a \in Accounts \ {who} : pending'[a] = pending[a]
    /\ IsStrictPrefix(pending[who], pending'[who])
    /\ UNCHANGED <<who, ahead>>

\* The server applies the next write of this connection.
Commit ==
    /\ ahead < Len(pending[who])
    /\ ahead' = ahead + 1
    /\ UNCHANGED <<who, pending>>

Leave == pending' = [pending EXCEPT ![who] = Tail(@)]

\* The client hears that the oldest write was applied ...
Hear ==
    /\ ahead > 0
    /\ ahead' = ahead - 1
    /\ Leave
    /\ UNCHANGED who

\* ... or that a write was refused: it gives up the oldest, and this connection.
Refuse ==
    /\ pending[who] # << >>
    /\ ahead' = 0
    /\ Leave
    /\ UNCHANGED who

\* The connection ends, perhaps because another account is in use now.
Reconnect ==
    /\ ahead' = 0
    /\ who' \in Accounts
    /\ UNCHANGED pending

Next == Enqueue \/ Commit \/ Hear \/ Refuse \/ Reconnect

Spec == Init /\ [][Next]_vars
=============================================================================
