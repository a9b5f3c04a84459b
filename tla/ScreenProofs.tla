---------------------------- MODULE ScreenProofs ----------------------------
(***************************************************************************)
(* The basket screen implements the core, so that whatever is proved of    *)
(* Checkout holds behind it; and a fresh row is the row deleted.  For      *)
(* every set of users and items and every bound.                           *)
(***************************************************************************)
EXTENDS BasketScreen, CheckoutProofs

USE DEF NoID

(***************************************************************************)
(* The rows are at most MaxItems, and so is the index an alert holds       *)
(***************************************************************************)

RowsOf(o) == o["cafeOrder"].items \o o["barOrder"].items

\* As many rows as both baskets have items.
LEMMA RowsOfType ==
    ASSUME NEW o \in [Baskets -> Order]
    PROVE  /\ RowsOf(o) \in Seq(Items)
           /\ \A b \in Baskets : o[b].items \in Seq(Items) /\ Len(o[b].items) \in Nat
           /\ Len(RowsOf(o)) = Len(o["cafeOrder"].items) + Len(o["barOrder"].items)
  <1>1. \A b \in Baskets : o[b] \in Order
    OBVIOUS
  <1>2. \A b \in Baskets : o[b].items \in Seq(Items)
    BY <1>1 DEF Order
  <1>3. o["cafeOrder"].items \in Seq(Items) /\ o["barOrder"].items \in Seq(Items)
    BY <1>2 DEF Baskets
  <1> QED
    BY <1>2, <1>3, ConcatProperties, LenProperties DEF RowsOf

RowsFit == Len(Rows) <= MaxItems

\* Baskets that do not grow have no more rows.
LEMMA NoMoreRows ==
    ASSUME TypeOK, TypeOK', RowsFit,
           \A b \in Baskets : Len(orders'[b].items) <= Len(orders[b].items)
    PROVE  RowsFit'
  <1>1. orders \in [Baskets -> Order] /\ orders' \in [Baskets -> Order]
    BY DEF TypeOK
  <1>2. /\ Len(Rows) = Len(orders["cafeOrder"].items) + Len(orders["barOrder"].items)
        /\ \A b \in Baskets : Len(orders[b].items) \in Nat
    BY <1>1, RowsOfType DEF Rows, RowsOf
  <1>3. /\ Len(Rows') = Len(orders'["cafeOrder"].items) + Len(orders'["barOrder"].items)
        /\ \A b \in Baskets : Len(orders'[b].items) \in Nat
    BY <1>1, RowsOfType DEF Rows, RowsOf
  <1>4. "cafeOrder" \in Baskets /\ "barOrder" \in Baskets
    BY DEF Baskets
  <1>5. PICK n \in Nat, m \in Nat : /\ n = Len(orders["cafeOrder"].items)
                                   /\ m = Len(orders["barOrder"].items)
    BY <1>2, <1>4
  <1>6. PICK j \in Nat, k \in Nat : /\ j = Len(orders'["cafeOrder"].items)
                                   /\ k = Len(orders'["barOrder"].items)
    BY <1>3, <1>4
  <1>7. j <= n /\ k <= m
    BY <1>4, <1>5, <1>6
  <1>8. MaxItems \in Nat /\ n + m <= MaxItems
    BY <1>2, <1>5, CheckoutAssumptions DEF RowsFit
  <1>9. j + k <= MaxItems
    BY <1>7, <1>8
  <1> QED
    BY <1>3, <1>6, <1>9 DEF RowsFit

\* Only AddToBasket makes rows, and it looks at how many there are.
LEMMA RowsFitNext ==
    ASSUME TypeOK, RowsFit, [Next]_vars
    PROVE  RowsFit'
  <1>0. TypeOK' /\ orders \in [Baskets -> Order] /\ orders' \in [Baskets -> Order]
        /\ MaxItems \in Nat
    BY TypeNext, CheckoutAssumptions DEF TypeOK
  <1>1. CASE UNCHANGED orders
    BY <1>1 DEF RowsFit, Rows
  <1>2. CASE Terminate
    <2>1. orders' = EmptyOrders
      BY <1>2 DEF Terminate
    <2>2. \A b \in Baskets : orders'[b].items = << >>
      BY <2>1 DEF EmptyOrders, EmptyOrder
    <2>3. \A b \in Baskets : Len(orders'[b].items) = 0
      BY <2>2
    <2>4. \A b \in Baskets : Len(orders[b].items) \in Nat
      BY <1>0, RowsOfType
    <2> QED
      BY <1>0, <2>3, <2>4, NoMoreRows
  <1>3. ASSUME NEW i \in Items, AddToBasket(i)
        PROVE  RowsFit'
    <2>1. PICK b \in Baskets : b = BasketOf(i)
      BY DEF BasketOf, Baskets
    <2>2. orders' = [orders EXCEPT ![b] = AddItem(orders[b], i)] /\ Len(Rows) < MaxItems
      BY <1>3, <2>1 DEF AddToBasket
    <2>3. /\ orders'[b].items = Append(orders[b].items, i)
          /\ \A d \in Baskets \ {b} : orders'[d] = orders[d]
      BY <1>0, <2>2 DEF AddItem
    <2>4. /\ Len(Rows) = Len(orders["cafeOrder"].items) + Len(orders["barOrder"].items)
          /\ \A d \in Baskets : orders[d].items \in Seq(Items) /\ Len(orders[d].items) \in Nat
      BY <1>0, RowsOfType DEF Rows, RowsOf
    <2>5. Len(Rows') = Len(orders'["cafeOrder"].items) + Len(orders'["barOrder"].items)
      BY <1>0, RowsOfType DEF Rows, RowsOf
    <2>6. Len(orders'[b].items) = Len(orders[b].items) + 1
      BY <2>3, <2>4, AppendProperties
    <2>7. CASE b = "cafeOrder"
      <3>1. orders'["barOrder"] = orders["barOrder"]
        BY <2>3, <2>7 DEF Baskets
      <3>2. PICK n \in Nat, m \in Nat : n = Len(orders[b].items)
                                         /\ m = Len(orders["barOrder"].items)
        BY <2>4 DEF Baskets
      <3>6. /\ n = Len(orders["cafeOrder"].items) /\ n + 1 = Len(orders'["cafeOrder"].items)
            /\ m = Len(orders["barOrder"].items) /\ m = Len(orders'["barOrder"].items)
        BY <2>6, <2>7, <3>1, <3>2
      <3>3. Len(Rows') = n + m + 1 /\ Len(Rows) = n + m
        <4>1. Len(Rows') = (n + 1) + m /\ Len(Rows) = n + m
          BY <2>4, <2>5, <3>6, Zenon
        <4> QED
          BY <4>1
      <3>4. n + m < MaxItems
        BY <2>2, <3>3
      <3>5. n + m + 1 <= MaxItems
        BY <1>0, <3>4
      <3> QED
        BY <3>3, <3>5 DEF RowsFit
    <2>8. CASE b = "barOrder"
      <3>1. orders'["cafeOrder"] = orders["cafeOrder"]
        BY <2>3, <2>8 DEF Baskets
      <3>2. PICK n \in Nat, m \in Nat : n = Len(orders[b].items)
                                         /\ m = Len(orders["cafeOrder"].items)
        BY <2>4 DEF Baskets
      <3>6. /\ n = Len(orders["barOrder"].items) /\ n + 1 = Len(orders'["barOrder"].items)
            /\ m = Len(orders["cafeOrder"].items) /\ m = Len(orders'["cafeOrder"].items)
        BY <2>6, <2>8, <3>1, <3>2
      <3>3. Len(Rows') = n + m + 1 /\ Len(Rows) = n + m
        <4>1. Len(Rows') = m + (n + 1) /\ Len(Rows) = m + n
          BY <2>4, <2>5, <3>6, Zenon
        <4> QED
          BY <4>1
      <3>4. n + m < MaxItems
        BY <2>2, <3>3
      <3>5. n + m + 1 <= MaxItems
        BY <1>0, <3>4
      <3> QED
        BY <3>3, <3>5 DEF RowsFit
    <2> QED
      BY <2>1, <2>7, <2>8 DEF Baskets
  <1>4. ASSUME NEW index \in 0 .. MaxItems - 1, RemoveItemAt(index), ~ Terminate
        PROVE  RowsFit'
    <2>0. index \in Nat
      BY <1>0
    <2>1. index \in Nat /\ index < Len(Rows)
      <3>1. PICK n \in Nat, m \in Nat :
              /\ n = Len(orders["cafeOrder"].items) /\ m = Len(orders["barOrder"].items)
              /\ Len(Rows) = n + m
        BY <1>0, RowsType DEF CafeRows
      <3>0. n \in Nat /\ m \in Nat
        OBVIOUS
      <3>2. CASE index < n
        <4>1. index \in Nat /\ index < n + m
          BY <2>0, <3>0, <3>2
        <4> QED
          BY <3>1, <4>1
      <3>3. CASE ~ (index < n)
        <4>1. BasketAt(index) = "barOrder" /\ PositionAt(index) = index - n
          BY <3>1, <3>3 DEF BasketAt, PositionAt, CafeRows
        <4>2. index - n < m
          BY <1>4, <3>1, <4>1 DEF RemoveItemAt
        <4>3. index \in Nat /\ index < n + m
          BY <2>0, <3>0, <4>2
        <4> QED
          BY <3>1, <4>3
      <3> QED
        BY <3>2, <3>3
    <2>2. Rows' = RemoveAt(Rows, index + 1)
      BY <1>4, <2>1, RemoveTakesRow
    <2>3. Rows \in Seq(Items) /\ index + 1 \in 1 .. Len(Rows) /\ Len(Rows) \in Nat
      BY <2>1, RowsType
    <2>4. Len(RemoveAt(Rows, index + 1)) = Len(Rows) - 1
      BY <2>3, RemoveAtPointwise
    <2> QED
      BY <1>0, <2>2, <2>3, <2>4 DEF RowsFit
  <1>5. CASE SaveReturned /\ ~ Terminate
    <2>0. PICK c, id : orders' = orders \/ orders' = [orders EXCEPT ![c].orderID = id]
      BY <1>5 DEF SaveReturned
    <2>1. \A b \in Baskets : orders'[b].items = orders[b].items
      <3>1. \A b \in Baskets : orders[b] \in Order
        BY <1>0
      <3> QED
        BY <1>0, <2>0, <3>1 DEF Order
    <2>2. \A b \in Baskets : Len(orders[b].items) \in Nat
      BY <1>0, RowsOfType
    <2> QED
      BY <1>0, <2>1, <2>2, NoMoreRows
  <1>6. CASE HistoryReturned \/ UpdateReturned
    <2>1. PICK c : orders' = [orders EXCEPT ![c] = EmptyOrder]
      BY <1>6 DEF HistoryReturned, UpdateReturned, Reset
    <2>2. \A b \in Baskets : Len(orders[b].items) \in Nat
      BY <1>0, RowsOfType
    <2>3. ASSUME NEW b \in Baskets
          PROVE  Len(orders'[b].items) <= Len(orders[b].items)
      <3>1. CASE b = c
        <4>1. orders'[b].items = << >>
          BY <1>0, <2>1, <3>1 DEF EmptyOrder
        <4> QED
          BY <2>2, <4>1
      <3>2. CASE b # c
        BY <1>0, <2>1, <2>2, <3>2
      <3> QED
        BY <3>1, <3>2
    <2> QED
      BY <1>0, <2>3, NoMoreRows
  <1>7. CASE \/ Checkout \/ (SignUp /\ ~Terminate) \/ SignOut \/ Launch \/ Answers
             \/ ConnectionLost \/ ReadSteps \/ SignUpReturned \/ UNCHANGED vars
             \/ \E u \in Users : Authenticate(u)
    <2>1. UNCHANGED orders
      BY <1>7 DEF Checkout, SignUp, SignOut, Launch, Authenticate, Answers, Heard, Commit,
                  Acknowledge, Refuse, ConnectionLost, ReadSteps, Populate, PopulateFails,
                  ReadEnds, SignUpReturned, vars
    <2> QED
      BY <1>1, <2>1
  <1>8. CASE Kill
    BY <1>2, <1>8 DEF Kill
  <1> QED
    BY <1>2, <1>3, <1>4, <1>5, <1>6, <1>7, <1>8 DEF Next, UserSteps, Blocks

\* A delete alert holds the index of a row that was drawn.
AlertFits ==
    /\ rows \in Seq(Items) /\ Len(rows) <= MaxItems
    /\ over = "deleting" => picked \in Nat /\ picked < Len(rows)

ScreenInv == TypeOK /\ RowsFit /\ AlertFits

(***************************************************************************)
(* Every step is a step of the core                                        *)
(***************************************************************************)

\* Each step of the screen is one step of Checkout, or leaves the core alone.
LEMMA ScreenStep == ScreenInv /\ [ScreenNext]_screenVars => [Next]_vars
  <1> SUFFICES ASSUME ScreenInv, [ScreenNext]_screenVars PROVE [Next]_vars
    OBVIOUS
  <1>1. CASE OpenBasket \/ SwitchTab \/ PopBasket \/ TapOrder \/ Decline \/ Presented
             \/ Dismiss \/ UNCHANGED screenVars
             \/ \E row \in DOMAIN rows : TapDelete(row)
    <2>1. UNCHANGED vars
      BY <1>1 DEF OpenBasket, SwitchTab, PopBasket, TapOrder, Decline, Presented,
                  Dismiss, TapDelete, screenVars
    <2> QED
      BY <2>1
  <1>2. CASE ConfirmOrder
    <2>1. Checkout \/ UNCHANGED vars
      BY <1>2 DEF ConfirmOrder
    <2> QED
      BY <2>1 DEF Next, UserSteps
  <1>3. CASE RunBlock
    <2>1. Blocks
      BY <1>3 DEF RunBlock, ResetAndPresent, Behind, ChangeRoot, Blocks
    <2> QED
      BY <2>1 DEF Next
  <1>4. CASE AnswerArrives \/ Behind(Commit) \/ Behind(ConnectionLost)
    <2>1. Answers \/ ConnectionLost
      BY <1>4 DEF AnswerArrives, Behind, Answers
    <2> QED
      BY <2>1 DEF Next
  <1>5. CASE OtherScreens
    <2>1. AddAnItem \/ SignOut \/ Launch \/ SignInAs \/ SignUp \/ Kill \/ ReadSteps
      BY <1>5 DEF OtherScreens, Behind, ChangeRoot
    <2> QED
      BY <2>1 DEF AddAnItem, SignInAs, Next, UserSteps
  <1>6. CASE ConfirmDelete
    <2>1. over = "deleting" /\ RemoveItemAt(picked)
      BY <1>6 DEF ConfirmDelete
    <2>2. picked \in 0 .. MaxItems - 1
      BY <2>1, LenProperties, CheckoutAssumptions DEF ScreenInv, AlertFits
    <2> QED
      BY <2>1, <2>2 DEF Next, UserSteps
  <1> QED
    BY <1>1, <1>2, <1>3, <1>4, <1>5, <1>6 DEF ScreenNext

\* A basket screen not opened yet, over empty baskets.
LEMMA AlertInit == ScreenInit => ScreenInv
  <1> SUFFICES ASSUME ScreenInit PROVE ScreenInv
    OBVIOUS
  <1>1. TypeOK /\ orders = EmptyOrders /\ rows = << >> /\ over = "none"
    BY TypeInit DEF ScreenInit, Init
  <1>2. MaxItems \in Nat /\ << >> \in Seq(Items) /\ Len(<< >>) = 0
    BY CheckoutAssumptions
  <1>3. Rows = << >> \o << >>
    BY <1>1 DEF Rows, EmptyOrders, EmptyOrder, Baskets
  <1>4. Len(Rows) = 0
    BY <1>2, <1>3, ConcatProperties
  <1> QED
    BY <1>1, <1>2, <1>4 DEF ScreenInv, RowsFit, AlertFits

\* Rows are drawn from the baskets, and an alert is opened on a row drawn.
LEMMA AlertNext == ScreenInv /\ [ScreenNext]_screenVars => ScreenInv'
  <1> SUFFICES ASSUME ScreenInv, [ScreenNext]_screenVars PROVE ScreenInv'
    OBVIOUS
  <1>1. [Next]_vars
    BY ScreenStep
  <1>2. TypeOK /\ TypeOK' /\ RowsFit' /\ AlertFits
    BY <1>1, TypeNext, RowsFitNext DEF ScreenInv
  <1>3. /\ orders \in [Baskets -> Order] /\ orders' \in [Baskets -> Order]
        /\ MaxItems \in Nat
    BY <1>2, CheckoutAssumptions DEF TypeOK
  <1>4. Rows' \in Seq(Items) /\ Len(Rows') <= MaxItems
    BY <1>2, <1>3, RowsOfType DEF Rows, RowsOf, RowsFit
  <1>5. Rows \in Seq(Items) /\ Len(Rows) <= MaxItems
    BY <1>3, RowsOfType DEF Rows, RowsOf, RowsFit, ScreenInv
  <1>0. SUFFICES AlertFits'
    BY <1>2 DEF ScreenInv
  <1>6. ASSUME rows' \in {rows, Rows, Rows', << >>}, over' # "deleting"
        PROVE  AlertFits'
    <2>1. << >> \in Seq(Items) /\ Len(<< >>) <= MaxItems
      BY <1>3
    <2> QED
      BY <1>2, <1>4, <1>5, <1>6, <2>1 DEF AlertFits
  <1>7. CASE UNCHANGED <<rows, over, picked>>
    BY <1>2, <1>7 DEF AlertFits
  <1>8. ASSUME NEW row \in DOMAIN rows, TapDelete(row)
        PROVE  AlertFits'
    <2>1. PICK n \in Nat : n = Len(rows) /\ row \in 1 .. n
      BY <1>2 DEF AlertFits
    <2>2. picked' = row - 1 /\ rows' = rows
      BY <1>8 DEF TapDelete
    <2> QED
      BY <1>2, <2>1, <2>2 DEF AlertFits
  <1>9. ASSUME NEW c, Clear(c)
        PROVE  AlertFits'
    BY <1>6, <1>9 DEF Clear
  <1>10. CASE OpenBasket \/ SwitchTab \/ PopBasket \/ TapOrder \/ Decline \/ Presented
             \/ Dismiss
    <2>1. CASE OpenBasket
      BY <1>6, <2>1 DEF OpenBasket, Free
    <2>2. CASE PopBasket
      BY <1>9, <2>2 DEF PopBasket
    <2>3. CASE SwitchTab
      BY <1>7, <2>3 DEF SwitchTab
    <2>4. CASE TapOrder \/ Decline \/ Presented \/ Dismiss
      BY <1>6, <2>4 DEF TapOrder, Decline, Presented, Dismiss
    <2> QED
      BY <1>10, <2>1, <2>2, <2>3, <2>4
  <1>11. CASE ConfirmDelete
    <2>1. (\E c : Clear(c)) \/ (over' = "none" /\ rows' = Rows')
      BY <1>11 DEF ConfirmDelete
    <2> QED
      BY <1>6, <1>9, <2>1
  <1>12. CASE ConfirmOrder
    BY <1>6, <1>12 DEF ConfirmOrder
  <1>13. CASE ResetAndPresent
    <2>1. UNCHANGED <<rows, picked>> /\ over' \in {over, "presenting"}
      BY <1>13 DEF ResetAndPresent, Present
    <2> QED
      BY <1>6, <1>7, <2>1
  <1>14. CASE UNCHANGED screen \/ \E c : Clear(c)
    BY <1>7, <1>9, <1>14 DEF screen
  <1>15. CASE \/ Behind(SaveReturned) \/ ChangeRoot(SignUpReturned) \/ AnswerArrives
              \/ Behind(Commit) \/ Behind(ConnectionLost) \/ OtherScreens
    <2>1. UNCHANGED screen \/ \E c : Clear(c)
      BY <1>15 DEF Behind, ChangeRoot, AnswerArrives, OtherScreens
    <2> QED
      BY <1>14, <2>1
  <1>16. CASE UNCHANGED screenVars
    BY <1>14, <1>16 DEF screenVars
  <1> QED
    BY <1>8, <1>10, <1>11, <1>12, <1>13, <1>15, <1>16 DEF ScreenNext, RunBlock

\* The types of the core, the number of rows, and the index an alert holds.
LEMMA ScreenInvariant == ScreenSpec => []ScreenInv
  <1> QED
    BY AlertInit, AlertNext, PTL DEF ScreenSpec

\* Every variable of the screen keeps its type: `picked` among them, which comes
\* from the index of a row drawn by BasketViewController.
THEOREM ScreenTypes == ScreenSpec => []ScreenType
  <1>1. ScreenInit => ScreenType
    BY CheckoutAssumptions DEF ScreenInit, ScreenType
  <1>2. ScreenInv /\ ScreenInv' /\ ScreenType /\ [ScreenNext]_screenVars => ScreenType'
    <2> SUFFICES ASSUME ScreenInv, ScreenInv', ScreenType, [ScreenNext]_screenVars
                 PROVE  ScreenType'
      OBVIOUS
    <2>0. rows' \in Seq(Items) /\ MaxItems \in Nat
      BY CheckoutAssumptions DEF ScreenInv, AlertFits
    <2>1. CASE UNCHANGED screen \/ Clear("none") \/ Clear("popped")
      BY <2>0, <2>1 DEF Clear, screen, ScreenType
    <2>2. ASSUME NEW row \in DOMAIN rows, TapDelete(row)
          PROVE  ScreenType'
      <3>1. PICK n \in Nat : n = Len(rows) /\ row \in 1 .. n /\ n <= MaxItems
        BY DEF ScreenInv, AlertFits
      <3>2. picked' \in 0 .. MaxItems
        BY <2>0, <2>2, <3>1 DEF TapDelete
      <3> QED
        BY <2>0, <2>2, <3>2 DEF TapDelete, ScreenType
    <2>3. CASE OpenBasket \/ SwitchTab \/ PopBasket \/ TapOrder \/ Decline \/ Presented
               \/ Dismiss \/ ConfirmOrder \/ ResetAndPresent
      BY <2>0, <2>1, <2>3 DEF OpenBasket, SwitchTab, PopBasket, TapOrder, Decline, Presented,
                              Dismiss, ConfirmOrder, ResetAndPresent, Present, ScreenType
    <2>4. CASE ConfirmDelete
      BY <2>0, <2>1, <2>4 DEF ConfirmDelete, ScreenType
    <2>5. CASE \/ Behind(SaveReturned) \/ ChangeRoot(SignUpReturned) \/ AnswerArrives
               \/ Behind(Commit) \/ Behind(ConnectionLost) \/ OtherScreens
      <3>1. UNCHANGED screen \/ Clear("none") \/ Clear("popped")
        BY <2>5 DEF Behind, ChangeRoot, AnswerArrives, OtherScreens
      <3> QED
        BY <2>1, <3>1
    <2>6. CASE UNCHANGED screenVars
      BY <2>1, <2>6 DEF screenVars
    <2> QED
      BY <2>2, <2>3, <2>4, <2>5, <2>6 DEF ScreenNext, RunBlock
  <1> QED
    BY <1>1, <1>2, ScreenInvariant, PTL DEF ScreenSpec

\* What the screen lets a user do, and what the blocks do behind it, the core
\* allows: the theorems about Checkout hold for the app with its screen.
THEOREM ScreenImplements == ScreenSpec => ImplementsCheckout
  <1>1. ScreenInit => Init
    BY DEF ScreenInit
  <1> QED
    BY <1>1, ScreenInvariant, ScreenStep, PTL DEF ScreenSpec, ImplementsCheckout, Spec

\* While the rows drawn are those of the baskets, a confirmed delete takes the row
\* that was tapped and never traps, whatever happened while the alert was open.
THEOREM DeletesTheRowSeen == ScreenSpec => FreshRowIsDeleted
  <1>1. ScreenInv => [ConfirmDelete /\ rows = Rows =>
                        /\ stage' = "main"
                        /\ Rows' = RemoveAt(rows, picked + 1)]_screenVars
    <2> SUFFICES ASSUME ScreenInv, ConfirmDelete, rows = Rows
                 PROVE  stage' = "main" /\ Rows' = RemoveAt(rows, picked + 1)
      OBVIOUS
    <2>1. over = "deleting" /\ RemoveItemAt(picked) /\ stage = "main"
      BY DEF ConfirmDelete, RemoveItemAt
    <2>2. TypeOK /\ picked \in Nat /\ picked < Len(Rows)
      BY <2>1 DEF ScreenInv, AlertFits
    <2> QED
      BY <2>1, <2>2, RemoveTakesRow
  <1> QED
    BY <1>1, ScreenInvariant, PTL DEF FreshRowIsDeleted
=============================================================================

