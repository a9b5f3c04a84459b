----------------------------- MODULE ItemDetail -----------------------------
(***************************************************************************)
(* The item screen, where an orderItem is put together before it goes into *)
(* a basket: extras and types are chosen in table rows, a quantity with a  *)
(* stepper, allergies in a sheet (ItemDetailsViewController and its cells, *)
(* class orderItem in Order.swift).                                        *)
(*                                                                         *)
(* The same facts are kept several times: in the orderItem, in the rows as *)
(* they were drawn, in the steppers inside cells that UIKit reuses, and in *)
(* the checkout cell, which is redrawn only while it is on the screen.     *)
(* The names of the allergies arrive late and redraw everything.           *)
(***************************************************************************)
EXTENDS Integers, Sequences, SequencesExt, Functions, FiniteSets

CONSTANTS
    Menu, NoItem,    \* menu items, and no item on the screen
    Lists,           \* lists of rows: the extras of an item, or one of its types
    Extras,          \* those lists that are item.options
    Options,         \* the rows of those lists
    Multiple,        \* rows with canHaveMultiple
    Offers,          \* the lists of each menu item
    ListOf,          \* the list of each row
    BasePrice,       \* of each menu item, in pence
    ExtraPrice,      \* of each row, in pence
    Allergens,       \* the names in settings/allergies
    KeepsCells,      \* may the checkout cell come back without being redrawn?
    MaxExtra,        \* the maximum of a row's stepper
    MaxQuantity,     \* the maximum of the item's stepper
    MaxAdded         \* bound: items added to the basket

ASSUME DetailAssumptions ==
    /\ NoItem \notin Menu
    /\ Extras \subseteq Lists
    /\ ListOf \in [Options -> Lists] /\ Offers \in [Menu -> SUBSET Lists]
    /\ Multiple \subseteq Options /\ \A c \in Multiple : ListOf[c] \in Extras
    /\ BasePrice \in [Menu -> Nat] /\ ExtraPrice \in [Options -> Nat]
    /\ IsFiniteSet(Options)
    /\ KeepsCells \in BOOLEAN
    /\ MaxExtra \in Nat /\ MaxQuantity \in Nat \ {0} /\ MaxAdded \in Nat

VARIABLES
    item,          \* orderItem.refItem; NoItem: the screen is closed
    picks,         \* the quantity of every row of options and types
    quantity,      \* orderItem.quantity
    price,         \* orderItem.price
    offered,       \* the names in orderItem.allergies
    chosen,        \* those with isChosen
    loading,       \* the read of settings/allergies is unanswered
    shown,         \* the quantity or tick each row was last drawn with
    steppers,      \* UIStepper.value in the cell of each multiple row
    countStepper,  \* UIStepper.value in the checkout cell
    visible,       \* the checkout cell is on the screen
    label,         \* the price the checkout cell was last drawn with
    basket         \* the items added so far

built  == <<item, picks, quantity, price, offered, chosen>>
drawn  == <<shown, steppers, countStepper, visible, label>>
detailVars == <<built, loading, drawn, basket>>

None == [c \in Options |-> 0]

Rows(list) == {c \in Options : ListOf[c] = list}

IsOpen    == item # NoItem
OnScreen  == {c \in Options : IsOpen /\ ListOf[c] \in Offers[item]}

\* updatePrice: one item with its options and types, times the quantity.  The
\* rounding to two decimals only takes away the error of adding Doubles.
PriceOf(m, p, n) ==
    (BasePrice[m] + FoldFunctionOnSet(+, 0, [c \in Options |-> ExtraPrice[c] * p[c]], Options)) * n

DeselectsNothing(c) == IF picks[c] > 0 THEN {c} ELSE {}

\* switchSelectedTo: a selected row is deselected; any other takes the place of
\* the row of its list that is selected.
Deselected(c) ==
    IF picks[c] > 0 THEN {c}
    ELSE {d \in Rows(ListOf[c]) \ Multiple : picks[d] # 0}

SwitchSelectedTo(c) ==
    [d \in Options |-> IF d = c /\ picks[c] = 0 THEN 1
                       ELSE IF d \in Deselected(c) THEN 0 ELSE picks[d]]

RefreshedTapped(c) == {c}

Refreshed(c) == {c} \cup Deselected(c)

Redraw(rows) == shown' = [c \in Options |-> IF c \in rows THEN picks'[c] ELSE shown[c]]

KeepLabel == UNCHANGED label

\* optionTapped finds the checkout cell only while it is on the screen.
OptionTapped == label' = IF visible THEN price' ELSE label

UpdatePrice == price' = PriceOf(item, picks', quantity')

-----------------------------------------------------------------------------
(* Opening and closing *)

Close ==
    /\ item' = NoItem /\ picks' = None /\ quantity' = 1 /\ price' = 0
    /\ offered' = {} /\ chosen' = {} /\ loading' = FALSE
    /\ shown' = None /\ steppers' = None /\ countStepper' = 1
    /\ visible' = FALSE /\ label' = 0

\* createOrderItem: no extras, one of it, at the price of the menu.
Open(m) ==
    /\ ~IsOpen
    /\ item' = m /\ price' = BasePrice[m] /\ label' = BasePrice[m]
    /\ loading' = TRUE
    /\ visible' \in BOOLEAN
    /\ UNCHANGED <<picks, quantity, offered, chosen, shown, steppers,
                   countStepper, basket>>

\* getAllergenList answers, with the names or with an error; everything is drawn
\* again, in the cells that were there or in new ones.
AllergensArrive ==
    /\ IsOpen /\ loading
    /\ loading' = FALSE
    /\ offered' \in {Allergens, {}}
    /\ shown' = picks
    /\ steppers' \in {steppers, None} /\ countStepper' \in {countStepper, 1}
    /\ label' = price
    /\ UNCHANGED <<item, picks, quantity, price, chosen, visible, basket>>

Cancel == IsOpen /\ Close /\ UNCHANGED basket

AddToBasketTapped ==
    /\ IsOpen /\ visible
    /\ Len(basket) < MaxAdded
    /\ basket' = Append(basket, [item |-> item, picks |-> picks, quantity |-> quantity,
                                 price |-> price, allergies |-> chosen])
    /\ Close

-----------------------------------------------------------------------------
(* Choosing *)

\* A tap on a row with a stepper only redraws it, in its own or in another cell.
TapMultiple(c) ==
    /\ c \in OnScreen \cap Multiple
    /\ shown' = [shown EXCEPT ![c] = picks[c]]
    /\ steppers' \in {steppers, [steppers EXCEPT ![c] = 0]}
    /\ UNCHANGED <<built, loading, countStepper, visible, label, basket>>

TapSingle(c) ==
    /\ c \in OnScreen \ Multiple
    /\ picks' = SwitchSelectedTo(c)
    /\ UNCHANGED quantity
    /\ UpdatePrice
    /\ Redraw(Refreshed(c))
    /\ OptionTapped
    /\ UNCHANGED <<item, offered, chosen, loading, steppers, countStepper,
                   visible, basket>>

StepKeepsPrice(c, by) ==
    /\ c \in OnScreen \cap Multiple
    /\ steppers[c] + by \in 0 .. MaxExtra
    /\ steppers' = [steppers EXCEPT ![c] = @ + by]
    /\ picks' = [picks EXCEPT ![c] = steppers'[c]]
    /\ UNCHANGED <<price, quantity>>
    /\ Redraw({c})
    /\ OptionTapped
    /\ UNCHANGED <<item, offered, chosen, loading, countStepper, visible, basket>>

\* quantityStepper: what counts is the value of the stepper in the cell.
Step(c, by) ==
    /\ c \in OnScreen \cap Multiple
    /\ steppers[c] + by \in 0 .. MaxExtra
    /\ steppers' = [steppers EXCEPT ![c] = @ + by]
    /\ picks' = [picks EXCEPT ![c] = steppers'[c]]
    /\ UNCHANGED quantity
    /\ UpdatePrice
    /\ Redraw({c})
    /\ OptionTapped
    /\ UNCHANGED <<item, offered, chosen, loading, countStepper, visible, basket>>

QuantitiesFrom0 == 0 .. MaxQuantity

\* The range of the stepper, from the storyboard.
Quantities == 1 .. MaxQuantity

\* stepperTapped
StepQuantity(by) ==
    /\ IsOpen /\ visible
    /\ countStepper + by \in Quantities
    /\ countStepper' = countStepper + by
    /\ quantity' = countStepper'
    /\ UNCHANGED picks
    /\ UpdatePrice
    /\ label' = price'
    /\ UNCHANGED <<item, offered, chosen, loading, shown, steppers, visible, basket>>

ToggleAllergy(a) ==
    /\ IsOpen /\ a \in offered
    /\ chosen' = IF a \in chosen THEN chosen \ {a} ELSE chosen \cup {a}
    /\ UNCHANGED <<item, picks, quantity, price, offered, loading, drawn, basket>>

\* The checkout cell leaves the screen or comes back; coming back it is drawn,
\* unless UIKit has kept it or fetched it ahead.
Scroll ==
    /\ IsOpen
    /\ visible' = ~visible
    /\ label' \in IF visible THEN {label} ELSE IF KeepsCells THEN {label, price} ELSE {price}
    /\ UNCHANGED <<built, loading, shown, steppers, countStepper, basket>>

-----------------------------------------------------------------------------
DetailInit ==
    /\ item = NoItem /\ picks = None /\ quantity = 1 /\ price = 0
    /\ offered = {} /\ chosen = {} /\ loading = FALSE
    /\ shown = None /\ steppers = None /\ countStepper = 1
    /\ visible = FALSE /\ label = 0 /\ basket = << >>

DetailNext ==
    \/ \E m \in Menu : Open(m)
    \/ AllergensArrive
    \/ \E c \in Options : TapMultiple(c) \/ TapSingle(c)
    \/ \E c \in Options, by \in {-1, 1} : Step(c, by)
    \/ \E by \in {-1, 1} : StepQuantity(by)
    \/ \E a \in Allergens : ToggleAllergy(a)
    \/ Scroll \/ Cancel \/ AddToBasketTapped

DetailSpec == DetailInit /\ [][DetailNext]_detailVars

-----------------------------------------------------------------------------
(* What is sent *)

\* configureItems, for one portion of an item.
Portion(i) ==
    [id |-> i.item,
     options |-> [c \in {d \in Options : ListOf[d] \in Extras \cap Offers[i.item]}
                    |-> i.picks[c]]]

\* ... and for a whole basket: as many portions as the item's quantity.
ConfigureItems(items) ==
    FlattenSeq([k \in DOMAIN items |->
                  [n \in 1 .. items[k].quantity |-> Portion(items[k])]])

-----------------------------------------------------------------------------
(* Properties *)

BuiltItem == [item : Menu, picks : [Options -> Nat],
              quantity : 1 .. MaxQuantity, price : Nat, allergies : SUBSET Allergens]

DetailType ==
    /\ item \in Menu \cup {NoItem} /\ picks \in [Options -> Nat]
    /\ quantity \in 1 .. MaxQuantity /\ price \in Nat /\ label \in Nat
    /\ offered \subseteq Allergens /\ chosen \subseteq offered
    /\ shown \in [Options -> Nat] /\ steppers \in [Options -> 0 .. MaxExtra]
    /\ countStepper \in 1 .. MaxQuantity
    /\ loading \in BOOLEAN /\ visible \in BOOLEAN
    /\ basket \in Seq(BuiltItem)

\* The cached price is that of what is chosen, in whatever order rows, steppers
\* and the late redraw come: on the screen, and in the basket.
PriceFollowsChoices ==
    /\ IsOpen => price = PriceOf(item, picks, quantity)
    /\ \A k \in DOMAIN basket :
          basket[k].price = PriceOf(basket[k].item, basket[k].picks, basket[k].quantity)

Single(list) == Rows(list) \ Multiple

\* Of a type, and of the extras without a stepper, at most one row is chosen:
\* the deselection in switchSelectedTo leaves no second one.
OneChoicePerList ==
    \A list \in Lists : \A c, d \in Single(list) : picks[c] > 0 /\ picks[d] > 0 => c = d

\* Every row shows what is chosen: the rows that switchSelectedTo changes are
\* among those it asks to reload.
RowsShowChoices == shown = picks

\* An item goes into the basket at the price the user saw on the button.
AddedAtShownPrice == [][AddToBasketTapped => Last(basket').price = label]_detailVars

\* "Allergies to go with order" (Order.swift:203): items whose chosen allergies
\* differ do not send the same thing.
AllergiesGoWithOrder ==
    \A j, k \in DOMAIN basket :
        ConfigureItems(<<basket[j]>>) = ConfigureItems(<<basket[k]>>)
          => basket[j].allergies = basket[k].allergies
=============================================================================
