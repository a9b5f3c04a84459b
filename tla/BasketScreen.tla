---------------------------- MODULE BasketScreen ----------------------------
(***************************************************************************)
(* The basket screen over the ordering core: the rows as they were drawn,  *)
(* the two alerts that ask before deleting and before ordering, and the    *)
(* confirmation that a completion block of checkout presents.              *)
(*                                                                         *)
(* Every step that touches currentUser is a step of Checkout; what the     *)
(* screen adds is that the user acts on rows drawn earlier, and that UIKit *)
(* ignores `present` on a controller that is covered or not in the window. *)
(*                                                                         *)
(* Bounds: one BasketViewController is pushed in the life of the process,  *)
(* and all its rows fit on the screen.                                     *)
(***************************************************************************)
EXTENDS Checkout

VARIABLES
    at,       \* what the user looks at: the basket, or anything else in the tabs
    over,     \* what is presented on top of it
    basket,   \* the basket controller: in a tab's navigation stack or not
    rows,     \* the rows it last drew
    picked    \* the row index captured by the delete alert

screen     == <<at, over, basket, rows, picked>>
screenVars == <<vars, screen>>

ScreenType ==
    /\ at \in {"tabs", "basket"} /\ basket \in {"none", "pushed", "popped"}
    /\ over \in {"none", "deleting", "ordering", "presenting", "confirmation"}
    /\ rows \in Seq(Items) /\ picked \in 0 .. MaxItems

Clear(controller) ==
    /\ at' = "tabs" /\ over' = "none" /\ rows' = << >> /\ picked' = 0
    /\ basket' = controller

\* A step of the core that this screen does not notice, unless the process dies.
Behind(step) ==
    step /\ IF stage' = "dead" THEN Clear("none") ELSE UNCHANGED screen

\* A step that puts another root view controller in the window.
ChangeRoot(step) ==
    step /\ Clear(IF stage' = "dead" \/ basket = "none" THEN "none" ELSE "popped")

Free(place) == stage = "main" /\ at = place /\ over = "none"

\* The segue makes a controller, whose first layout draws the rows.
OpenBasket ==
    /\ Free("tabs") /\ basket = "none"
    /\ at' = "basket" /\ basket' = "pushed" /\ rows' = Rows
    /\ UNCHANGED <<vars, over, picked>>

\* Switching tabs leaves the controller, and what it drew, as it is.
SwitchTab ==
    /\ Free(at) /\ basket = "pushed"
    /\ at' = IF at = "basket" THEN "tabs" ELSE "basket"
    /\ UNCHANGED <<vars, over, basket, rows, picked>>

PopBasket ==
    /\ Free("basket")
    /\ Clear("popped")
    /\ UNCHANGED vars

TapDeleteOffByOne(row) ==
    /\ Free("basket")
    /\ over' = "deleting" /\ picked' = row - 2
    /\ UNCHANGED <<vars, at, basket, rows>>

\* deleteItemTapped captures the index of the row and asks.
TapDelete(row) ==
    /\ Free("basket")
    /\ over' = "deleting" /\ picked' = row - 1
    /\ UNCHANGED <<vars, at, basket, rows>>

ConfirmDelete ==
    /\ over = "deleting"
    /\ RemoveItemAt(picked)
    /\ IF stage' = "dead" THEN Clear("none")
       ELSE over' = "none" /\ rows' = Rows' /\ UNCHANGED <<at, basket, picked>>

TapOrder ==
    /\ Free("basket")
    /\ over' = "ordering"
    /\ UNCHANGED <<vars, at, basket, rows, picked>>

ConfirmOrderAndClear ==
    /\ over = "ordering"
    /\ over' = "none" /\ orders' = EmptyOrders
    /\ UNCHANGED <<session, previousOrders, queue, callbacks, server, nextID,
                   at, basket, rows, picked>>

\* checkout does nothing for a basket without items.
ConfirmOrder ==
    /\ over = "ordering"
    /\ Checkout \/ (Rows = << >> /\ UNCHANGED vars)
    /\ over' = "none"
    /\ UNCHANGED <<at, basket, rows, picked>>

Decline ==
    /\ over \in {"deleting", "ordering"}
    /\ over' = "none"
    /\ UNCHANGED <<vars, at, basket, rows, picked>>

PresentNothing == UNCHANGED over

\* The block given to checkout presents the confirmation.  UIKit ignores it on
\* a controller that is covered or popped; from an unselected tab it may do
\* either.
Present ==
    \/ basket = "pushed" /\ over = "none" /\ over' = "presenting"
    \/ ~(at = "basket" /\ over = "none") /\ UNCHANGED over

ResetAndPresent ==
    /\ HistoryReturned \/ UpdateReturned
    /\ Present
    /\ UNCHANGED <<at, basket, rows, picked>>

\* The animation is over: the completion of `present` draws the rows again.
Presented ==
    /\ over = "presenting"
    /\ over' = "confirmation" /\ rows' = Rows
    /\ UNCHANGED <<vars, at, basket, picked>>

Dismiss ==
    /\ over = "confirmation"
    /\ over' = "none"
    /\ UNCHANGED <<vars, at, basket, rows, picked>>

AddAnItem == \E i \in Items : AddToBasket(i)
SignInAs  == \E u \in Users : Authenticate(u)

OtherScreens ==
    \/ Free("tabs") /\ Behind(AddAnItem)
    \/ Free("tabs") /\ ChangeRoot(SignOut)
    \/ Behind(Launch) \/ Behind(SignInAs) \/ Behind(SignUp) \/ Behind(Kill)
    \/ ChangeRoot(ReadSteps)

RunBlock == ResetAndPresent \/ Behind(SaveReturned) \/ ChangeRoot(SignUpReturned)

AnswerArrives == Behind(Heard)

ScreenInit == Init /\ at = "tabs" /\ over = "none" /\ basket = "none"
                   /\ rows = << >> /\ picked = 0

ScreenNext ==
    \/ OpenBasket \/ SwitchTab \/ PopBasket
    \/ \E row \in DOMAIN rows : TapDelete(row)
    \/ TapOrder \/ ConfirmDelete \/ ConfirmOrder \/ Decline
    \/ RunBlock \/ Presented \/ Dismiss
    \/ AnswerArrives \/ Behind(Commit) \/ Behind(ConnectionLost)
    \/ OtherScreens

\* The main queue, the server and UIKit's animations go on; the user need not.
ScreenFairness ==
    /\ WF_screenVars(RunBlock) /\ WF_screenVars(Presented)
    /\ WF_screenVars(Behind(Commit)) /\ SF_screenVars(AnswerArrives)

ScreenSpec == ScreenInit /\ [][ScreenNext]_screenVars /\ ScreenFairness

-----------------------------------------------------------------------------
(* Properties *)

\* What the screen lets a user do is something the core allows: each of its
\* steps is one whole step of Checkout, or leaves currentUser, the queue and the
\* server alone.  The alerts, in particular, change nothing until confirmed.
ImplementsCheckout == Spec

\* As long as the rows drawn are the baskets' rows, a confirmed delete takes the
\* item the user saw in the row tapped, and never traps: deleteItemTapped's
\* index means the same row in the cell, in the alert and in removeItemAt.
FreshRowIsDeleted ==
    [][ConfirmDelete /\ rows = Rows =>
        /\ stage' = "main"
        /\ Rows' = RemoveAt(rows, picked + 1)]_screenVars

\* A user who stays on the basket screen after the server accepted an order gets
\* to see the confirmation, with the rows drawn again, unless an alert opened
\* meanwhile: the chain of four blocks reaches the screen.
AcceptedOrderIsConfirmed ==
    (/\ Free("basket")
     /\ \E k \in DOMAIN callbacks : callbacks[k].write.op = "save" /\ callbacks[k].ok)
    ~> (over \in {"deleting", "ordering", "confirmation"} \/ at # "basket")

\* "Are you sure you want to delete this item?" (BasketViewController.swift:93):
\* what is deleted is the item drawn in the row that was tapped.
DeletesThisItem ==
    [][ConfirmDelete =>
        /\ picked < Len(Rows)
        /\ Rows[picked + 1] = rows[picked + 1]]_screenVars
=============================================================================
