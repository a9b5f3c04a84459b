---------------------------- MODULE DetailProofs ----------------------------
(* Theorems about ItemDetail, for every menu and every set of rows. *)
EXTENDS ItemDetail, DataLemmas

\* What the handlers of the rows rely on and keep up.
ChoicesType ==
    /\ picks \in [Options -> Nat] /\ shown \in [Options -> Nat]
    /\ steppers \in [Options -> 0 .. MaxExtra]

RowsInv == ChoicesType /\ OneChoicePerList /\ RowsShowChoices

\* Redrawing every row that changed makes all rows show what is chosen.
LEMMA RedrawShows ==
    ASSUME ChoicesType, RowsShowChoices, picks' \in [Options -> Nat],
           NEW rows \in SUBSET Options, Redraw(rows),
           \A c \in Options \ rows : picks'[c] = picks[c]
    PROVE  shown' \in [Options -> Nat] /\ RowsShowChoices'
  <1>1. shown' = [c \in Options |-> IF c \in rows THEN picks'[c] ELSE shown[c]]
    BY DEF Redraw
  <1>2. \A c \in Options : shown'[c] = picks'[c]
    BY <1>1 DEF RowsShowChoices
  <1> QED
    BY <1>1, <1>2 DEF RowsShowChoices, ChoicesType

\* A tap on a row without a stepper changes only the rows it asks to redraw, and
\* leaves no second one chosen in its list.
LEMMA SwitchKeepsOne ==
    ASSUME RowsInv, NEW c \in Options \ Multiple, picks' = SwitchSelectedTo(c)
    PROVE  /\ picks' \in [Options -> Nat]
           /\ OneChoicePerList'
           /\ Refreshed(c) \in SUBSET Options
           /\ \A d \in Options \ Refreshed(c) : picks'[d] = picks[d]
  <1>1. \A d \in Options :
           picks'[d] = IF d = c /\ picks[c] = 0 THEN 1
                       ELSE IF d \in Deselected(c) THEN 0 ELSE picks[d]
    BY DEF SwitchSelectedTo
  <1>2. picks' \in [Options -> Nat]
    BY DEF SwitchSelectedTo, RowsInv, ChoicesType
  <1>3. Deselected(c) \in SUBSET Options
    BY DEF Deselected, Rows
  <1>4. OneChoicePerList'
    <2> SUFFICES ASSUME NEW list \in Lists, NEW d \in Single(list), NEW e \in Single(list),
                        picks'[d] > 0, picks'[e] > 0
                 PROVE  d = e
      BY DEF OneChoicePerList, Single, Rows
    <2>1. d \in Options /\ e \in Options /\ picks[d] \in Nat /\ picks[e] \in Nat
      BY DEF Single, Rows, RowsInv, ChoicesType
    <2>2. picks[d] > 0 /\ picks[e] > 0 => d = e
      BY DEF RowsInv, OneChoicePerList
    <2>3. CASE picks[c] > 0
      BY <1>1, <2>1, <2>2, <2>3
    <2>4. CASE ~(picks[c] > 0)
      <3>1. picks[c] = 0
        BY <2>4 DEF RowsInv, ChoicesType
      <3>2. \A f \in Single(list) : f # c /\ picks'[f] > 0
                => picks[f] > 0 /\ f \notin Rows(ListOf[c]) \ Multiple
        BY <1>1, <3>1 DEF Deselected, Single, Rows, RowsInv, ChoicesType
      <3>3. c \in Single(list) => Single(list) = Rows(ListOf[c]) \ Multiple
        BY DEF Single, Rows
      <3> QED
        BY <2>2, <3>2, <3>3
    <2> QED
      BY <2>3, <2>4
  <1> QED
    BY <1>1, <1>2, <1>3, <1>4 DEF Refreshed

LEMMA RowsInit == DetailInit => RowsInv
  BY DetailAssumptions
  DEF DetailInit, RowsInv, ChoicesType, OneChoicePerList, RowsShowChoices, None,
      Single, Rows

LEMMA RowsNext == RowsInv /\ [DetailNext]_detailVars => RowsInv'
  <1> SUFFICES ASSUME RowsInv, [DetailNext]_detailVars
               PROVE  RowsInv'
    OBVIOUS
  <1>0. OneChoicePerList /\ RowsShowChoices /\ ChoicesType
    BY DEF RowsInv
  <1>1. CASE Close
    BY <1>1, DetailAssumptions
    DEF Close, RowsInv, ChoicesType, OneChoicePerList, RowsShowChoices, None,
        Single, Rows
  <1>2. CASE UNCHANGED <<picks, shown, steppers>>
    BY <1>0, <1>2 DEF RowsInv, ChoicesType, OneChoicePerList, RowsShowChoices
  <1>3. CASE AllergensArrive
    <2>1. picks' = picks /\ shown' = picks /\ steppers' \in {steppers, None}
      BY <1>3 DEF AllergensArrive
    <2> QED
      BY <1>0, <2>1, DetailAssumptions
      DEF RowsInv, ChoicesType, OneChoicePerList, RowsShowChoices, None
  <1>4. ASSUME NEW c \in Options, TapMultiple(c)
        PROVE  RowsInv'
    <2>1. /\ picks' = picks /\ shown' = [shown EXCEPT ![c] = picks[c]]
          /\ steppers' \in {steppers, [steppers EXCEPT ![c] = 0]}
      BY <1>4 DEF TapMultiple, built
    <2>2. shown' = shown
      BY <1>0, <2>1 DEF ChoicesType, RowsShowChoices
    <2>3. steppers' \in [Options -> 0 .. MaxExtra]
      BY <1>0, <2>1, DetailAssumptions DEF ChoicesType
    <2> QED
      BY <1>0, <2>1, <2>2, <2>3
      DEF RowsInv, ChoicesType, OneChoicePerList, RowsShowChoices
  <1>5. ASSUME NEW c \in Options, TapSingle(c)
        PROVE  RowsInv'
    <2>1. /\ c \in Options \ Multiple /\ picks' = SwitchSelectedTo(c)
          /\ Redraw(Refreshed(c)) /\ steppers' = steppers
      BY <1>5 DEF TapSingle
    <2>2. /\ picks' \in [Options -> Nat] /\ OneChoicePerList'
          /\ Refreshed(c) \in SUBSET Options
          /\ \A d \in Options \ Refreshed(c) : picks'[d] = picks[d]
      BY <2>1, SwitchKeepsOne
    <2>3. shown' \in [Options -> Nat] /\ RowsShowChoices'
      BY <1>0, <2>1, <2>2, RedrawShows
    <2> QED
      BY <1>0, <2>1, <2>2, <2>3 DEF RowsInv, ChoicesType
  <1>6. ASSUME NEW c \in Options, NEW by \in {-1, 1}, Step(c, by)
        PROVE  RowsInv'
    <2>1. /\ c \in Multiple
          /\ steppers' = [steppers EXCEPT ![c] = steppers[c] + by]
          /\ steppers[c] + by \in 0 .. MaxExtra
          /\ picks' = [picks EXCEPT ![c] = steppers'[c]]
          /\ Redraw({c})
      BY <1>6 DEF Step
    <2>2. steppers' \in [Options -> 0 .. MaxExtra] /\ steppers'[c] \in Nat
      BY <1>0, <2>1, DetailAssumptions DEF ChoicesType
    <2>3. picks' \in [Options -> Nat] /\ \A d \in Options \ {c} : picks'[d] = picks[d]
      BY <1>0, <2>1, <2>2 DEF ChoicesType
    <2>4. shown' \in [Options -> Nat] /\ RowsShowChoices'
      BY <1>0, <2>1, <2>3, RedrawShows
    <2>5. \A list \in Lists : \A d \in Single(list) : picks'[d] = picks[d]
      BY <2>1, <2>3 DEF Single, Rows
    <2>6. OneChoicePerList'
      BY <1>0, <2>5 DEF OneChoicePerList, Single, Rows
    <2> QED
      BY <2>2, <2>3, <2>4, <2>6 DEF RowsInv, ChoicesType
  <1>7. ASSUME NEW m \in Menu, Open(m)
        PROVE  RowsInv'
    BY <1>2, <1>7 DEF Open
  <1>8. ASSUME NEW by \in {-1, 1}, StepQuantity(by)
        PROVE  RowsInv'
    BY <1>2, <1>8 DEF StepQuantity
  <1>9. ASSUME NEW a \in Allergens, ToggleAllergy(a)
        PROVE  RowsInv'
    BY <1>2, <1>9 DEF ToggleAllergy, drawn
  <1>10. CASE Scroll
    BY <1>2, <1>10 DEF Scroll, built
  <1>11. CASE Cancel \/ AddToBasketTapped
    BY <1>1, <1>11 DEF Cancel, AddToBasketTapped
  <1>12. CASE UNCHANGED detailVars
    BY <1>2, <1>12 DEF detailVars, built, drawn
  <1> QED
    BY <1>3, <1>4, <1>5, <1>6, <1>7, <1>8, <1>9, <1>10, <1>11, <1>12 DEF DetailNext

\* Whatever is tapped, and whenever the allergies arrive, no two rows of a type
\* (or two extras without a stepper) are chosen: switchSelectedTo.
THEOREM OneChoice == DetailSpec => []OneChoicePerList
  <1>1. RowsInv => OneChoicePerList
    BY DEF RowsInv
  <1> QED
    BY <1>1, RowsInit, RowsNext, PTL DEF DetailSpec

\* Every row shows the quantity that will be sent and charged, although only the
\* rows that a handler names are drawn again.
THEOREM RowsShow == DetailSpec => []RowsShowChoices
  <1>1. RowsInv => RowsShowChoices
    BY DEF RowsInv
  <1> QED
    BY <1>1, RowsInit, RowsNext, PTL DEF DetailSpec

(***************************************************************************)
(* The price follows the choices.  The price of an item starts at that of  *)
(* the menu without looking at the rows, so that the closed screen must    *)
(* have none chosen; and the allergies chosen are among those offered only *)
(* because none is offered while the names are still being read.           *)
(***************************************************************************)

ClosedIsClear ==
    /\ ~IsOpen => picks = None /\ quantity = 1 /\ offered = {}
    /\ loading => offered = {}

DetailInv == DetailType /\ PriceFollowsChoices /\ ClosedIsClear

\* A price is a natural number; with nothing chosen it is that of the menu.
LEMMA PriceIsNatural ==
    ASSUME NEW m \in Menu, NEW p \in [Options -> Nat], NEW n \in Nat
    PROVE  PriceOf(m, p, n) \in Nat
  <1> DEFINE f == [c \in Options |-> ExtraPrice[c] * p[c]]
  <1>1. \A x, y \in Nat : x * y \in Nat
    OBVIOUS
  <1>2. \A c \in Options : ExtraPrice[c] \in Nat /\ p[c] \in Nat
    BY DetailAssumptions
  <1>3. \A c \in Options : f[c] \in Nat
    BY <1>1, <1>2
  <1>4. FoldFunctionOnSet(+, 0, f, Options) \in Nat
    <2> HIDE DEF f
    <2> QED
      BY <1>3, SumOfNaturals, DetailAssumptions
  <1>5. PICK s \in Nat : s = FoldFunctionOnSet(+, 0, f, Options)
    BY <1>4
  <1>6. PriceOf(m, p, n) = (BasePrice[m] + s) * n
    BY <1>5 DEF PriceOf
  <1>7. BasePrice[m] + s \in Nat
    BY DetailAssumptions
  <1> HIDE DEF f
  <1> QED
    BY <1>1, <1>6, <1>7

LEMMA PriceOfNothing ==
    ASSUME NEW m \in Menu
    PROVE  PriceOf(m, None, 1) = BasePrice[m]
  <1> DEFINE f == [c \in Options |-> ExtraPrice[c] * None[c]]
  <1>1. \A c \in Options : f[c] = 0
    BY DetailAssumptions DEF None
  <1>2. FoldFunctionOnSet(+, 0, f, Options) = 0
    <2> HIDE DEF f
    <2>1. \A c \in Options : f[c] \in Nat
      BY <1>1
    <2> QED
      BY <1>1, <2>1, SumOfNaturals, DetailAssumptions
  <1>3. PriceOf(m, None, 1) = (BasePrice[m] + 0) * 1
    BY <1>2 DEF PriceOf
  <1> QED
    BY <1>3, DetailAssumptions

\* What a closed or redrawn screen is set to has its type.
LEMMA NoneType ==
    /\ None \in [Options -> Nat] /\ None \in [Options -> 0 .. MaxExtra]
    /\ 1 \in 1 .. MaxQuantity /\ 0 \in 0 .. MaxExtra
  BY DetailAssumptions DEF None

\* A closed screen keeps it: everything is as it was before the screen opened.
LEMMA ClosedInv ==
    ASSUME DetailInv, Close, basket' \in Seq(BuiltItem),
           \A k \in DOMAIN basket' : basket'[k].price
               = PriceOf(basket'[k].item, basket'[k].picks, basket'[k].quantity)
    PROVE  DetailInv'
  <1>1. DetailType'
    BY NoneType DEF Close, DetailInv, DetailType
  <1>2. ~IsOpen'
    BY DEF Close, IsOpen
  <1> QED
    BY <1>1, <1>2 DEF DetailInv, PriceFollowsChoices, ClosedIsClear, Close

\* A handler of the open screen keeps the invariant if it brings the price up to
\* date, or changes nothing the price is made of.
LEMMA OpenInv ==
    ASSUME DetailInv, IsOpen, UNCHANGED <<item, offered, chosen, loading, basket>>,
           picks' \in [Options -> Nat], shown' \in [Options -> Nat],
           steppers' \in [Options -> 0 .. MaxExtra], countStepper' \in 1 .. MaxQuantity,
           quantity' \in 1 .. MaxQuantity, visible' \in BOOLEAN,
           label' \in {label, price, price'},
           UpdatePrice \/ UNCHANGED <<picks, quantity, price>>
    PROVE  DetailInv'
  <1>1. item \in Menu /\ IsOpen' /\ price' = PriceOf(item', picks', quantity')
    BY DEF UpdatePrice, IsOpen, DetailInv, DetailType, PriceFollowsChoices
  <1>2. quantity' \in Nat
    BY DetailAssumptions
  <1>3. price' \in Nat
    BY <1>1, <1>2, PriceIsNatural
  <1>4. DetailType'
    BY <1>3 DEF DetailInv, DetailType
  <1> QED
    BY <1>1, <1>4 DEF DetailInv, PriceFollowsChoices, ClosedIsClear

LEMMA PriceInit == DetailInit => DetailInv
  <1> SUFFICES ASSUME DetailInit PROVE DetailInv
    OBVIOUS
  <1>1. DetailType
    <2>1. basket \in Seq(BuiltItem)
      BY EmptySeq DEF DetailInit
    <2> QED
      BY <2>1, NoneType DEF DetailInit, DetailType
  <1> QED
    BY <1>1 DEF DetailInit, DetailInv, PriceFollowsChoices, ClosedIsClear, IsOpen

LEMMA PriceNext ==
    ASSUME DetailInv, [DetailNext]_detailVars
    PROVE  DetailInv'
  <1>0. DetailType /\ PriceFollowsChoices /\ ClosedIsClear
    BY DEF DetailInv
  <1>1. ASSUME NEW m \in Menu, Open(m)
        PROVE  DetailInv'
    <2>1. /\ ~IsOpen /\ item' = m /\ price' = BasePrice[m] /\ label' = BasePrice[m]
          /\ loading' = TRUE /\ visible' \in BOOLEAN
          /\ UNCHANGED <<picks, quantity, offered, chosen, shown, steppers,
                         countStepper, basket>>
      BY <1>1 DEF Open
    <2>2. picks' = None /\ quantity' = 1 /\ offered' = {} /\ IsOpen'
      BY <1>0, <2>1, DetailAssumptions DEF ClosedIsClear, IsOpen
    <2>3. price' = PriceOf(item', picks', quantity')
      BY <2>1, <2>2, PriceOfNothing
    <2>4. DetailType'
      BY <1>0, <2>1, DetailAssumptions DEF DetailType
    <2> QED
      BY <1>0, <2>1, <2>2, <2>3, <2>4 DEF DetailInv, PriceFollowsChoices, ClosedIsClear
  <1>2. CASE AllergensArrive
    <2>1. /\ IsOpen /\ loading /\ loading' = FALSE /\ offered' \in {Allergens, {}}
          /\ shown' = picks /\ steppers' \in {steppers, None}
          /\ countStepper' \in {countStepper, 1} /\ label' = price
          /\ UNCHANGED <<item, picks, quantity, price, chosen, visible, basket>>
      BY <1>2 DEF AllergensArrive
    <2>2. chosen = {}
      BY <1>0, <2>1 DEF ClosedIsClear, DetailType
    <2>3. DetailType'
      BY <1>0, <2>1, <2>2, NoneType DEF DetailType
    <2> QED
      BY <1>0, <2>1, <2>3 DEF DetailInv, PriceFollowsChoices, ClosedIsClear, IsOpen
  <1>3. CASE Cancel
    BY <1>0, <1>3, ClosedInv DEF Cancel, DetailType, PriceFollowsChoices
  <1>4. CASE AddToBasketTapped
    <2> DEFINE x == [item |-> item, picks |-> picks, quantity |-> quantity,
                     price |-> price, allergies |-> chosen]
    <2>1. IsOpen /\ Close /\ basket' = Append(basket, x) /\ basket \in Seq(BuiltItem)
      BY <1>0, <1>4 DEF AddToBasketTapped, DetailType
    <2>2. x \in BuiltItem
      BY <1>0, <2>1 DEF DetailType, BuiltItem, IsOpen
    <2>3. x.price = PriceOf(x.item, x.picks, x.quantity)
      BY <1>0, <2>1 DEF PriceFollowsChoices
    <2> HIDE DEF x
    <2>4. basket' \in Seq(BuiltItem)
      BY <2>1, <2>2
    <2>5. ASSUME NEW k \in DOMAIN basket'
          PROVE  basket'[k].price
                   = PriceOf(basket'[k].item, basket'[k].picks, basket'[k].quantity)
      <3>1. basket'[k] = x \/ (k \in DOMAIN basket /\ basket'[k] = basket[k])
        BY <2>1, <2>2
      <3> QED
        BY <1>0, <2>3, <3>1 DEF PriceFollowsChoices
    <2> QED
      BY <2>1, <2>4, <2>5, ClosedInv
  <1>5. ASSUME NEW c \in Options, TapMultiple(c)
        PROVE  DetailInv'
    <2>1. /\ c \in Options /\ IsOpen
          /\ shown' = [shown EXCEPT ![c] = picks[c]]
          /\ steppers' \in {steppers, [steppers EXCEPT ![c] = 0]}
          /\ UNCHANGED <<built, loading, countStepper, visible, label, basket>>
      BY <1>5 DEF TapMultiple, OnScreen
    <2>2. shown' \in [Options -> Nat] /\ steppers' \in [Options -> 0 .. MaxExtra]
      <3>1. shown' \in [Options -> Nat]
        BY <1>0, <2>1 DEF DetailType
      <3>2. [steppers EXCEPT ![c] = 0] \in [Options -> 0 .. MaxExtra]
        BY <1>0, NoneType DEF DetailType
      <3> QED
        BY <1>0, <2>1, <3>1, <3>2 DEF DetailType
    <2> QED
      BY <1>0, <2>1, <2>2, OpenInv DEF built, DetailType
  <1>6. ASSUME NEW c \in Options, TapSingle(c)
        PROVE  DetailInv'
    <2>1. /\ IsOpen /\ picks' = SwitchSelectedTo(c) /\ quantity' = quantity
          /\ UpdatePrice /\ Redraw(Refreshed(c)) /\ OptionTapped
          /\ UNCHANGED <<item, offered, chosen, loading, steppers, countStepper,
                         visible, basket>>
      BY <1>6 DEF TapSingle, OnScreen
    <2>2. picks' \in [Options -> Nat]
      BY <1>0, <2>1 DEF SwitchSelectedTo, DetailType
    <2>3. shown' \in [Options -> Nat]
      BY <1>0, <2>1, <2>2 DEF Redraw, DetailType
    <2> QED
      BY <1>0, <2>1, <2>2, <2>3, OpenInv DEF OptionTapped, DetailType
  <1>7. ASSUME NEW c \in Options, NEW by \in {-1, 1}, Step(c, by)
        PROVE  DetailInv'
    <2>1. /\ IsOpen /\ steppers[c] + by \in 0 .. MaxExtra
          /\ steppers' = [steppers EXCEPT ![c] = steppers[c] + by]
          /\ picks' = [picks EXCEPT ![c] = steppers'[c]]
          /\ quantity' = quantity /\ UpdatePrice /\ Redraw({c}) /\ OptionTapped
          /\ UNCHANGED <<item, offered, chosen, loading, countStepper, visible, basket>>
      BY <1>7 DEF Step, OnScreen
    <2>2. steppers' \in [Options -> 0 .. MaxExtra] /\ steppers'[c] \in Nat
      BY <1>0, <2>1, DetailAssumptions DEF DetailType
    <2>3. picks' \in [Options -> Nat]
      BY <1>0, <2>1, <2>2 DEF DetailType
    <2>4. shown' \in [Options -> Nat]
      BY <1>0, <2>1, <2>3 DEF Redraw, DetailType
    <2> QED
      BY <1>0, <2>1, <2>2, <2>3, <2>4, OpenInv DEF OptionTapped, DetailType
  <1>8. ASSUME NEW by \in {-1, 1}, StepQuantity(by)
        PROVE  DetailInv'
    <2>1. /\ IsOpen /\ countStepper' \in 1 .. MaxQuantity /\ quantity' = countStepper'
          /\ picks' = picks /\ UpdatePrice /\ label' = price'
          /\ UNCHANGED <<item, offered, chosen, loading, shown, steppers, visible, basket>>
      BY <1>8 DEF StepQuantity, Quantities
    <2> QED
      BY <1>0, <2>1, OpenInv DEF DetailType
  <1>9. ASSUME NEW a \in Allergens, ToggleAllergy(a)
        PROVE  DetailInv'
    <2>1. /\ a \in offered
          /\ chosen' = IF a \in chosen THEN chosen \ {a} ELSE chosen \cup {a}
          /\ UNCHANGED <<item, picks, quantity, price, offered, loading, drawn, basket>>
      BY <1>9 DEF ToggleAllergy
    <2>2. DetailType'
      BY <1>0, <2>1 DEF DetailType, drawn
    <2> QED
      BY <1>0, <2>1, <2>2 DEF DetailInv, PriceFollowsChoices, ClosedIsClear, IsOpen
  <1>10. CASE Scroll
    <2>1. /\ IsOpen /\ visible' = ~visible /\ label' \in {label, price}
          /\ UNCHANGED <<built, loading, shown, steppers, countStepper, basket>>
      BY <1>10 DEF Scroll
    <2> QED
      BY <1>0, <2>1, OpenInv DEF built, DetailType
  <1>11. CASE UNCHANGED detailVars
    BY <1>0, <1>11 DEF detailVars, built, drawn, DetailInv, DetailType,
                       PriceFollowsChoices, ClosedIsClear, IsOpen
  <1> QED
    BY <1>1, <1>2, <1>3, <1>4, <1>5, <1>6, <1>7, <1>8, <1>9, <1>10, <1>11 DEF DetailNext

\* Every variable of the item screen keeps its type, whatever is tapped: the
\* choices are among what is offered, the quantities within their steppers.
THEOREM DetailTypes == DetailSpec => []DetailType
  <1>1. DetailInv => DetailType
    BY DEF DetailInv
  <1> QED
    BY <1>1, PriceInit, PriceNext, PTL DEF DetailSpec

\* The cached price is that of what is chosen, on the screen and in the basket,
\* in whatever order rows, steppers and the late redraw come: updatePrice.
THEOREM PriceIsOfTheChoices == DetailSpec => []PriceFollowsChoices
  <1>1. DetailInv => PriceFollowsChoices
    BY DEF DetailInv
  <1> QED
    BY <1>1, PriceInit, PriceNext, PTL DEF DetailSpec

(***************************************************************************)
(* The price on the button                                                 *)
(***************************************************************************)

\* While the checkout cell is on the screen it shows the price.
ButtonInv == /\ visible => label = price
             /\ \E S : basket \in Seq(S)

LEMMA ButtonNext ==
    ASSUME ~KeepsCells, ButtonInv, [DetailNext]_detailVars
    PROVE  ButtonInv'
  <1>1. CASE AddToBasketTapped
    <2>1. PICK S : basket \in Seq(S)
      BY DEF ButtonInv
    <2>2. PICK x : basket' = Append(basket, x) /\ ~visible'
      BY <1>1 DEF AddToBasketTapped, Close
    <2>3. basket \in Seq(S \cup {x})
      BY <2>1
    <2>4. basket' \in Seq(S \cup {x})
      BY <2>2, <2>3
    <2> QED
      BY <2>2, <2>4 DEF ButtonInv
  <1>2. ASSUME basket' = basket, visible' => label' = price'
        PROVE  ButtonInv'
    BY <1>2 DEF ButtonInv
  <1>3. CASE Cancel
    BY <1>2, <1>3 DEF Cancel, Close
  <1>4. ASSUME NEW m \in Menu, Open(m)
        PROVE  ButtonInv'
    BY <1>2, <1>4 DEF Open
  <1>5. CASE AllergensArrive
    BY <1>2, <1>5 DEF AllergensArrive
  <1>6. ASSUME NEW c \in Options, TapMultiple(c)
        PROVE  ButtonInv'
    BY <1>2, <1>6 DEF TapMultiple, built, ButtonInv
  <1>7. ASSUME NEW c \in Options, TapSingle(c)
        PROVE  ButtonInv'
    <2>1. basket' = basket /\ visible' = visible /\ OptionTapped
      BY <1>7 DEF TapSingle
    <2> QED
      BY <1>2, <2>1 DEF OptionTapped
  <1>8. ASSUME NEW c \in Options, NEW by \in {-1, 1}, Step(c, by)
        PROVE  ButtonInv'
    <2>1. basket' = basket /\ visible' = visible /\ OptionTapped
      BY <1>8 DEF Step
    <2> QED
      BY <1>2, <2>1 DEF OptionTapped
  <1>9. ASSUME NEW by \in {-1, 1}, StepQuantity(by)
        PROVE  ButtonInv'
    BY <1>2, <1>9 DEF StepQuantity
  <1>10. ASSUME NEW a \in Allergens, ToggleAllergy(a)
         PROVE  ButtonInv'
    BY <1>2, <1>10 DEF ToggleAllergy, drawn, ButtonInv
  <1>11. CASE Scroll
    <2>1. basket' = basket /\ price' = price /\ visible' = ~visible
      BY <1>11 DEF Scroll, built
    <2>2. ~visible => label' = price
      BY <1>11 DEF Scroll
    <2> QED
      BY <1>2, <2>1, <2>2
  <1>12. CASE UNCHANGED detailVars
    BY <1>2, <1>12 DEF detailVars, built, drawn, ButtonInv
  <1> QED
    BY <1>1, <1>3, <1>4, <1>5, <1>6, <1>7, <1>8, <1>9, <1>10, <1>11, <1>12 DEF DetailNext

\* If a cell that comes back to the screen is always drawn, nothing goes into a
\* basket at a price other than the one on the button when it was tapped.
THEOREM ShownPriceIsCharged ==
    ASSUME ~KeepsCells
    PROVE  DetailSpec => AddedAtShownPrice
  <1>1. DetailInit => ButtonInv
    <2>1. << >> \in Seq({})
      OBVIOUS
    <2> QED
      BY <2>1 DEF DetailInit, ButtonInv
  <1>2. ButtonInv /\ [DetailNext]_detailVars => ButtonInv'
    BY ButtonNext
  <1>3. ButtonInv /\ [DetailNext]_detailVars
          => [AddToBasketTapped => Last(basket').price = label]_detailVars
    <2> SUFFICES ASSUME ButtonInv, AddToBasketTapped
                 PROVE  Last(basket').price = label
      OBVIOUS
    <2>1. PICK S : basket \in Seq(S)
      BY DEF ButtonInv
    <2>2. PICK x : basket' = Append(basket, x) /\ x.price = price
      BY DEF AddToBasketTapped
    <2>3. Last(basket') = x
      BY <2>1, <2>2 DEF Last
    <2> QED
      BY <2>2, <2>3 DEF ButtonInv, AddToBasketTapped
  <1> QED
    BY <1>1, <1>2, <1>3, PTL DEF DetailSpec, AddedAtShownPrice
=============================================================================
