--------------------------- MODULE CheckoutProofs ---------------------------
(* Theorems about Checkout, for every set of users and items and every bound. *)
EXTENDS Checkout, DataLemmas

USE DEF NoID

(***************************************************************************)
(* Type correctness                                                        *)
(***************************************************************************)

ServerType ==
    /\ DOMAIN orderDocs \subseteq OrderIDs
    /\ \A id \in DOMAIN orderDocs : orderDocs[id] \in OrderDoc
    /\ DOMAIN userDocs \subseteq Users
    /\ \A u \in DOMAIN userDocs : userDocs[u] \in Seq(OrderIDs)

\* The oldest write of a queue that is not empty is a write.
LEMMA OldestIsWrite ==
    ASSUME TypeOK, Connected
    PROVE  Head(queue[auth]) \in Write
  BY DEF TypeOK, Connected

LEMMA UnsentIsWrite ==
    ASSUME TypeOK, Unsent
    PROVE  /\ NextUnsent \in Write
           /\ ahead + 1 \in DOMAIN queue[auth]
  <1>1. queue[auth] \in Seq(Write) /\ ahead \in Nat
    BY DEF TypeOK
  <1>2. ahead + 1 \in 1 .. Len(queue[auth])
    BY <1>1 DEF Unsent
  <1> QED
    BY <1>1, <1>2 DEF NextUnsent

\* A write from a well-typed queue keeps both collections well typed.
LEMMA ApplyType ==
    ASSUME TypeOK, NEW w \in Write, Apply(w)
    PROVE  ServerType'
  <1>1. CASE w \in OrderWrite
    <2>1. orderDocs' = Put(orderDocs, w.id, w.doc) /\ userDocs' = userDocs
      BY <1>1 DEF Apply, OrderWrite
    <2>2. w.id \in OrderIDs /\ w.doc \in OrderDoc
      BY <1>1 DEF OrderWrite
    <2>3. /\ DOMAIN orderDocs' = DOMAIN orderDocs \cup {w.id}
          /\ \A x \in DOMAIN orderDocs \cup {w.id} :
                orderDocs'[x] = IF x = w.id THEN w.doc ELSE orderDocs[x]
      BY <2>1 DEF Put
    <2>4. DOMAIN orderDocs' \subseteq OrderIDs
      BY <2>2, <2>3 DEF TypeOK
    <2>5. ASSUME NEW x \in DOMAIN orderDocs'
          PROVE  orderDocs'[x] \in OrderDoc
      <3>1. x \in DOMAIN orderDocs \cup {w.id}
        BY <2>3, <2>5
      <3>2. x # w.id => orderDocs[x] \in OrderDoc
        BY <3>1 DEF TypeOK
      <3> QED
        BY <2>2, <2>3, <3>1, <3>2
    <2> QED
      BY <2>1, <2>4, <2>5 DEF ServerType, TypeOK
  <1>2. CASE w \in HistoryWrite \cup SignUpWrite
    <2>1. w.op \in {"history", "signUp"} /\ w.user \in Users
      BY <1>2 DEF HistoryWrite, SignUpWrite
    <2>2. w.ids \in Seq(OrderIDs)
      <3>1. << >> \in Seq(OrderIDs)
        BY EmptySeq
      <3> QED
        BY <1>2, <3>1 DEF HistoryWrite, SignUpWrite
    <2>3. orderDocs' = orderDocs /\ userDocs' = Put(userDocs, w.user, w.ids)
      BY <2>1 DEF Apply
    <2>4. /\ DOMAIN userDocs' = DOMAIN userDocs \cup {w.user}
          /\ \A x \in DOMAIN userDocs \cup {w.user} :
                userDocs'[x] = IF x = w.user THEN w.ids ELSE userDocs[x]
      BY <2>3 DEF Put
    <2>5. DOMAIN userDocs' \subseteq Users
      BY <2>1, <2>4 DEF TypeOK
    <2>6. ASSUME NEW x \in DOMAIN userDocs'
          PROVE  userDocs'[x] \in Seq(OrderIDs)
      <3>1. x \in DOMAIN userDocs \cup {w.user}
        BY <2>4, <2>6
      <3>2. x # w.user => userDocs[x] \in Seq(OrderIDs)
        BY <3>1 DEF TypeOK
      <3> QED
        BY <2>2, <2>4, <3>1, <3>2
    <2> QED
      BY <2>3, <2>5, <2>6 DEF ServerType, TypeOK
  <1> QED
    BY <1>1, <1>2 DEF Write

\* An answer takes the oldest write off its queue and hands over its block.
LEMMA AnswerType ==
    ASSUME TypeOK, Connected, NEW ok \in BOOLEAN, Answer(Head(queue[auth]), ok)
    PROVE  queue' \in [Owners -> Seq(Write)] /\ callbacks' \in Seq(Callback)
  <1> DEFINE w == Head(queue[auth])
  <1>1. w \in Write
    BY OldestIsWrite
  <1>2. auth \in Owners /\ queue[auth] \in Seq(Write) /\ queue[auth] # << >>
    BY DEF TypeOK, Connected
  <1>3. Tail(queue[auth]) \in Seq(Write)
    BY <1>2
  <1>4. queue' \in [Owners -> Seq(Write)]
    BY <1>3 DEF Answer, TypeOK
  <1>5. [write |-> w, ok |-> ok] \in Callback
    BY <1>1 DEF Callback
  <1>6. callbacks' \in Seq(Callback)
    BY <1>5 DEF Answer, TypeOK
  <1> QED
    BY <1>4, <1>6

\* New writes join the queue of the signed-in account.
LEMMA EnqueueType ==
    ASSUME TypeOK, NEW ws \in Seq(Write), Enqueue(ws)
    PROVE  queue' \in [Owners -> Seq(Write)]
  <1>1. queue[auth] \o ws \in Seq(Write)
    BY DEF TypeOK
  <1> QED
    BY <1>1 DEF Enqueue, TypeOK

\* When the process ends its writes stay queued, without their blocks.
LEMMA TerminateType ==
    ASSUME TypeOK, Terminate
    PROVE  TypeOK'
  <1>1. ASSUME NEW w \in Write
        PROVE  [w EXCEPT !.live = FALSE] \in Write
    BY DEF Write, OrderWrite, HistoryWrite, SignUpWrite
  <1>2. ASSUME NEW q \in Seq(Write)
        PROVE  [k \in DOMAIN q |-> [q[k] EXCEPT !.live = FALSE]] \in Seq(Write)
    <2>1. DOMAIN q = 1 .. Len(q) /\ Len(q) \in Nat
      BY <1>2
    <2>2. \A k \in 1 .. Len(q) : [q[k] EXCEPT !.live = FALSE] \in Write
      BY <1>1, <1>2, <2>1
    <2> QED
      BY <2>1, <2>2
  <1>3. queue' \in [Owners -> Seq(Write)]
    BY <1>2 DEF Terminate, TypeOK
  <1>4. orders' \in [Baskets -> Order]
    BY DEF Terminate, EmptyOrders, EmptyOrder, Order
  <1> QED
    BY <1>3, <1>4 DEF Terminate, TypeOK, Stages, Owners, server

\* Adding an item, or dropping one that is there, gives an order.
LEMMA AddItemType ==
    ASSUME NEW order \in Order, NEW i \in Items
    PROVE  AddItem(order, i) \in Order
  <1>1. order.items \in Seq(Items) /\ order.price \in Int /\ order.orderID \in Nat
    BY DEF Order
  <1>2. Append(order.items, i) \in Seq(Items) /\ order.price + Price[i] \in Int
    BY <1>1, CheckoutAssumptions
  <1> QED
    BY <1>1, <1>2 DEF AddItem, Order

LEMMA DropItemType ==
    ASSUME NEW order \in Order, NEW at \in Nat, at < Len(order.items)
    PROVE  DropItem(order, at) \in Order
  <1>1. order.items \in Seq(Items) /\ order.price \in Int /\ order.orderID \in Nat
    BY DEF Order
  <1>2. at + 1 \in 1 .. Len(order.items)
    BY <1>1
  <1>3. Price[order.items[at + 1]] \in Int
    BY <1>1, <1>2, CheckoutAssumptions
  <1>4. RemoveAt(order.items, at + 1) \in Seq(Items)
    BY <1>1, <1>2, RemoveAtPointwise
  <1> QED
    BY <1>1, <1>3, <1>4 DEF DropItem, Order

\* What checkout() queues for a basket: nothing, or one well-typed write.
LEMMA OrderWritesType ==
    ASSUME TypeOK, NEW b \in Baskets, NEW id \in OrderIDs
    PROVE  OrderWrites(b, id) \in Seq(Write)
  <1>1. orders[b] \in Order /\ uid \in Owners
    BY DEF TypeOK
  <1>2. CASE orders[b].items = << >>
    BY <1>2 DEF OrderWrites
  <1>3. CASE orders[b].items # << >>
    <2>1. orders[b].items \in Seq(Items)
      BY <1>1 DEF Order
    <2>2. Last(orders[b].items) \in Items
      BY <1>3, <2>1, EmptySeq, ElementOfSeq DEF Last
    <2>3. DataDictionary(orders[b]) \in OrderDoc
      BY <1>1, <2>2, CheckoutAssumptions DEF DataDictionary, OrderDoc, Order
    <2>4. DocumentID(b, id) \in OrderIDs
      BY <1>1 DEF DocumentID, Order, OrderIDs
    <2> QED
      BY <1>3, <2>3, <2>4 DEF OrderWrites, OrderWriteTo, Write, OrderWrite
  <1> QED
    BY <1>2, <1>3

\* What the account's own reads return is a list of order ids.
LEMMA LocalHistoryType ==
    ASSUME TypeOK, NEW u \in Users, NEW h \in LocalHistory(u)
    PROVE  h \in Seq(OrderIDs)
  <1>1. queue[u] \in Seq(Write)
    BY DEF TypeOK, Owners
  <1>2. ASSUME NEW k \in DOMAIN queue[u], queue[u][k].op \in {"history", "signUp"}
        PROVE  queue[u][k].ids \in Seq(OrderIDs)
    <2>1. queue[u][k] \in Write
      BY <1>1
    <2>2. queue[u][k] \in HistoryWrite \cup SignUpWrite
      BY <1>2, <2>1 DEF Write, OrderWrite
    <2>3. << >> \in Seq(OrderIDs)
      BY EmptySeq
    <2> QED
      BY <2>2, <2>3 DEF HistoryWrite, SignUpWrite
  <1> QED
    BY <1>2 DEF LocalHistory, TypeOK

LEMMA TypeInit == Init => TypeOK
  <1>1. EmptyOrders \in [Baskets -> Order]
    BY DEF EmptyOrders, EmptyOrder, Order
  <1>2. DOMAIN [u \in Members |-> << >>] = Members
    OBVIOUS
  <1> QED
    BY <1>1, <1>2, EmptySeq, CheckoutAssumptions
    DEF Init, TypeOK, Stages, Owners, OrderIDs

\* Every step of the program keeps the types.
LEMMA TypeNext ==
    ASSUME TypeOK, [Next]_vars
    PROVE  TypeOK'
  <1> USE DEF session, server
  <1>1. ASSUME NEW i \in Items, AddToBasket(i)
        PROVE  TypeOK'
    <2>1. BasketOf(i) \in Baskets
      BY DEF BasketOf, Baskets
    <2>2. AddItem(orders[BasketOf(i)], i) \in Order
      BY <2>1, AddItemType DEF TypeOK
    <2> QED
      BY <1>1, <2>1, <2>2 DEF AddToBasket, TypeOK
  <1>2. ASSUME NEW index \in 0 .. MaxItems - 1, RemoveItemAt(index)
        PROVE  TypeOK'
    <2> DEFINE b  == BasketAt(index)
               at == PositionAt(index)
    <2>1. CASE at < Len(orders[b].items)
      <3>1. b \in Baskets /\ orders[b] \in Order
        BY DEF BasketAt, Baskets, TypeOK
      <3>2. CafeRows \in Nat
        BY DEF CafeRows, Baskets, TypeOK, Order
      <3>3. at \in Nat
        BY <3>2, CheckoutAssumptions DEF PositionAt
      <3>4. DropItem(orders[b], at) \in Order
        BY <2>1, <3>1, <3>3, DropItemType
      <3>5. /\ orders' = [orders EXCEPT ![b] = DropItem(orders[b], at)]
            /\ UNCHANGED <<session, previousOrders, queue, callbacks, server, nextID>>
        BY <1>2, <2>1 DEF RemoveItemAt
      <3> QED
        BY <3>1, <3>4, <3>5 DEF TypeOK
    <2>2. CASE ~(at < Len(orders[b].items))
      BY <1>2, <2>2, TerminateType DEF RemoveItemAt
    <2> QED
      BY <2>1, <2>2
  <1>3. CASE Checkout
    <2> DEFINE barID  == nextID + NewDocs("cafeOrder")
               writes == OrderWrites("cafeOrder", nextID)
                           \o OrderWrites("barOrder", barID)
    <2>1. \A b \in Baskets : NewDocs(b) \in {0, 1}
      BY DEF NewDocs
    <2>2. nextID \in OrderIDs /\ barID \in OrderIDs
          /\ barID + NewDocs("barOrder") \in OrderIDs
      BY <2>1 DEF TypeOK, OrderIDs, Baskets
    <2>3. /\ OrderWrites("cafeOrder", nextID) \in Seq(Write)
          /\ OrderWrites("barOrder", barID) \in Seq(Write)
      BY <2>2, OrderWritesType DEF Baskets
    <2>4. writes \in Seq(Write)
      BY <2>3, ConcatProperties
    <2>5. Enqueue(writes) /\ nextID' = barID + NewDocs("barOrder")
      BY <1>3 DEF Checkout
    <2>6. queue' \in [Owners -> Seq(Write)]
      BY <2>4, <2>5, EnqueueType
    <2> QED
      BY <1>3, <2>2, <2>5, <2>6 DEF Checkout, TypeOK
  <1>4. CASE SignUp
    <2>1. CASE auth = NoUser /\ Terminate
      BY <2>1, TerminateType
    <2>2. CASE auth # NoUser
      <3> DEFINE ws == << [op |-> "signUp", user |-> auth, ids |-> << >>,
                           live |-> TRUE] >>
      <3>1. auth \in Users
        BY <2>2 DEF TypeOK, Owners
      <3>2. ws \in Seq(Write)
        BY <3>1 DEF Write, SignUpWrite
      <3>3. queue' \in [Owners -> Seq(Write)]
        BY <1>4, <2>2, <3>2, EnqueueType DEF SignUp
      <3> QED
        BY <1>4, <2>2, <3>3 DEF SignUp, TypeOK
    <2> QED
      BY <1>4, <2>1, <2>2 DEF SignUp
  <1>5. CASE SignOut
    BY <1>5, EmptySeq DEF SignOut, TypeOK, Stages, Owners
  <1>6. CASE Kill
    BY <1>6, TerminateType DEF Kill
  <1>7. CASE Launch
    BY <1>7 DEF Launch, TypeOK, Stages, Owners, Read
  <1>8. ASSUME NEW u \in Users, Authenticate(u)
        PROVE  TypeOK'
    BY <1>8 DEF Authenticate, TypeOK, Stages, Owners, Read
  <1>9. CASE SaveReturned
    <2> DEFINE cb  == Head(callbacks)
               b   == cb.write.basket
               id  == SavedID(cb)
               ids == WithOrder(id)
               ws  == << [op |-> "history", basket |-> b, user |-> uid,
                          ids |-> ids, live |-> TRUE] >>
    <2>1. callbacks # << >> /\ cb \in Callback /\ Tail(callbacks) \in Seq(Callback)
      BY <1>9, HeadTailProperties DEF SaveReturned, Returned, TypeOK
    <2>2. cb.write \in OrderWrite
      BY <1>9, <2>1 DEF SaveReturned, Returned, Callback, Write, HistoryWrite, SignUpWrite
    <2>3. b \in Baskets /\ id \in Nat
      BY <2>2 DEF SavedID, OrderWrite, OrderIDs, TypeOK, Order
    <2>4. CASE id = NoID
      BY <1>9, <2>1, <2>4 DEF SaveReturned, TypeOK
    <2>5. CASE id # NoID /\ uid = NoUser
      BY <1>9, <2>5, TerminateType DEF SaveReturned
    <2>6. CASE id # NoID /\ uid # NoUser
      <3>1. uid \in Users
        BY <2>6 DEF TypeOK, Owners
      <3>2. ids \in Seq(OrderIDs)
        BY <2>3, <2>6 DEF WithOrder, TypeOK, OrderIDs
      <3>3. ws \in Seq(Write)
        BY <2>3, <3>1, <3>2 DEF Write, HistoryWrite
      <3>4. /\ orders' = [orders EXCEPT ![b].orderID = id]
            /\ previousOrders' = ids /\ Enqueue(ws)
            /\ callbacks' = Tail(callbacks)
            /\ UNCHANGED <<session, server, nextID>>
        BY <1>9, <2>6 DEF SaveReturned
      <3>5. queue' \in [Owners -> Seq(Write)]
        BY <3>3, <3>4, EnqueueType
      <3>6. [orders[b] EXCEPT !.orderID = id] \in Order
        BY <2>3 DEF TypeOK, Order
      <3> QED
        BY <2>1, <2>3, <3>2, <3>4, <3>5, <3>6 DEF TypeOK
    <2> QED
      BY <2>4, <2>5, <2>6
  <1>10. CASE HistoryReturned \/ UpdateReturned
    <2>1. callbacks # << >> /\ callbacks' = Tail(callbacks)
      BY <1>10 DEF HistoryReturned, UpdateReturned, Returned
    <2>2. callbacks' \in Seq(Callback)
      BY <2>1, HeadTailProperties DEF TypeOK
    <2>3. EmptyOrder \in Order
      BY DEF EmptyOrder, Order
    <2>4. orders' \in [Baskets -> Order]
      BY <1>10, <2>3 DEF HistoryReturned, UpdateReturned, Reset, TypeOK
    <2> QED
      BY <1>10, <2>2, <2>4 DEF HistoryReturned, UpdateReturned, TypeOK
  <1>11. CASE SignUpReturned
    <2>1. /\ callbacks # << >> /\ Head(callbacks) \in Callback
          /\ Tail(callbacks) \in Seq(Callback)
      BY <1>11, HeadTailProperties DEF SignUpReturned, Returned, TypeOK
    <2>2. Head(callbacks).write \in SignUpWrite
      BY <1>11, <2>1 DEF SignUpReturned, Returned, Callback, Write, OrderWrite, HistoryWrite
    <2>3. Head(callbacks).write.user \in Users
      BY <2>2 DEF SignUpWrite
    <2> QED
      BY <1>11, <2>1, <2>3 DEF SignUpReturned, TypeOK, Stages, Owners
  <1>12. CASE Heard
    <2>1. PICK ok \in BOOLEAN : Answer(Head(queue[auth]), ok)
      BY <1>12 DEF Heard, Acknowledge, Refuse
    <2>2. queue' \in [Owners -> Seq(Write)] /\ callbacks' \in Seq(Callback)
      BY <1>12, <2>1, AnswerType DEF Heard, Acknowledge, Refuse, Unsent
    <2>3. ahead' \in Nat
      <3>1. ahead \in Nat
        BY DEF TypeOK
      <3>2. ahead' = 0 \/ (ahead > 0 /\ ahead' = ahead - 1)
        BY <1>12 DEF Heard, Acknowledge, Refuse
      <3> QED
        BY <3>1, <3>2
    <2>4. UNCHANGED <<session, previousOrders, orders, orderDocs, userDocs, nextID>>
      BY <1>12 DEF Heard, Acknowledge, Refuse
    <2> QED
      BY <2>2, <2>3, <2>4 DEF TypeOK
  <1>13. CASE Commit
    <2>1. NextUnsent \in Write /\ Apply(NextUnsent)
      BY <1>13, UnsentIsWrite DEF Commit
    <2>2. ServerType'
      BY <2>1, ApplyType
    <2> QED
      BY <1>13, <2>2 DEF Commit, TypeOK, ServerType
  <1>14. CASE ConnectionLost
    BY <1>14 DEF ConnectionLost, TypeOK
  <1>15. ASSUME NEW r \in reads, Populate(r)
         PROVE  TypeOK'
    <2>1. r \in Read /\ r.user \in Users
      BY DEF TypeOK, Read
    <2>2. PICK h \in LocalHistory(r.user) : previousOrders' = h
      BY <1>15 DEF Populate
    <2>3. previousOrders' \in Seq(OrderIDs)
      BY <2>1, <2>2, LocalHistoryType
    <2> QED
      BY <1>15, <2>1, <2>3 DEF Populate, ReadEnds, ScreenAfter, TypeOK, Stages, Owners
  <1>16. ASSUME NEW r \in reads, PopulateFails(r)
         PROVE  TypeOK'
    BY <1>16 DEF PopulateFails, ReadEnds, ScreenAfter, TypeOK, Stages
  <1>17. CASE UNCHANGED vars
    BY <1>17 DEF vars, TypeOK
  <1> QED
    BY <1>1, <1>2, <1>3, <1>4, <1>5, <1>6, <1>7, <1>8, <1>9, <1>10, <1>11, <1>12,
       <1>13, <1>14, <1>15, <1>16, <1>17
    DEF Next, UserSteps, Blocks, Answers, ReadSteps

\* Every variable keeps its type, for every set of users and items: orders carry
\* prices and ids, queues carry writes the Firestore client can send.
THEOREM TypeCorrect == Spec => []TypeOK
  <1>1. Init => TypeOK
    BY TypeInit
  <1>2. TypeOK /\ [Next]_vars => TypeOK'
    BY TypeNext
  <1> QED
    BY <1>1, <1>2, PTL DEF Spec

(***************************************************************************)
(* No list of previous orders names an order the server does not have.     *)
(* By itself that is not inductive: a list comes from a queued write, that *)
(* from the list in memory, and that from the block of an answered save or *)
(* from the id a basket still carries.  HistoryBacked says of each of them *)
(* that the orders it names are placed, and AheadPlaced that an order is   *)
(* placed before the client hears of it.                                   *)
(***************************************************************************)

ListsBacked ==
    /\ \A u \in DOMAIN userDocs : Range(userDocs[u]) \subseteq Placed
    /\ Range(previousOrders) \subseteq Placed

QueueBacked ==
    \A o \in Owners : \A k \in DOMAIN queue[o] :
        queue[o][k].op \in {"history", "signUp"} => Range(queue[o][k].ids) \subseteq Placed

OrdersBacked == \A b \in Baskets : orders[b].orderID \in Placed \cup {NoID}

AnswersBacked ==
    \A k \in DOMAIN callbacks :
        callbacks[k].write.op = "save" /\ callbacks[k].ok => callbacks[k].write.id \in Placed

HistoryBacked == ListsBacked /\ QueueBacked /\ OrdersBacked /\ AnswersBacked

AheadPlaced ==
    /\ ahead <= Len(queue[auth])
    /\ \A k \in 1 .. ahead : queue[auth][k].op = "save" => queue[auth][k].id \in Placed

\* Queueing more writes hides none.
LEMMA EnqueuePending ==
    ASSUME TypeOK, NEW ws \in Seq(Write), Enqueue(ws),
           NEW o \in Owners, NEW k \in DOMAIN queue[o]
    PROVE  k \in DOMAIN queue'[o] /\ queue'[o][k] = queue[o][k]
  <1>1. queue \in [Owners -> Seq(Write)] /\ auth \in Owners
    BY DEF TypeOK
  <1>2. queue' = [queue EXCEPT ![auth] = queue[auth] \o ws]
    BY DEF Enqueue
  <1>3. CASE o = auth
    <2>1. /\ queue[o] \in Seq(Write) /\ Len(queue[o]) \in Nat /\ Len(ws) \in Nat
          /\ k \in 1 .. Len(queue[o]) /\ queue'[o] = queue[o] \o ws
      BY <1>1, <1>2, <1>3
    <2> QED
      BY <2>1, ConcatProperties
  <1>4. CASE o # auth
    BY <1>1, <1>2, <1>4
  <1> QED
    BY <1>3, <1>4

\* What a queue holds after that was there or is of the new writes.
LEMMA EnqueuedOnly ==
    ASSUME TypeOK, NEW ws \in Seq(Write), Enqueue(ws), NEW o \in Owners,
           NEW k \in DOMAIN queue'[o]
    PROVE  \/ k \in DOMAIN queue[o] /\ queue'[o][k] = queue[o][k]
           \/ /\ o = auth /\ k - Len(queue[o]) \in DOMAIN ws
              /\ queue'[o][k] = ws[k - Len(queue[o])]
              /\ \A j \in DOMAIN queue[o] : j < k
  <1>1. queue \in [Owners -> Seq(Write)] /\ auth \in Owners
    BY DEF TypeOK
  <1>2. queue' = [queue EXCEPT ![auth] = queue[auth] \o ws]
    BY DEF Enqueue
  <1>3. CASE o = auth
    <2>1. /\ queue'[o] = queue[o] \o ws /\ DOMAIN queue[o] = 1 .. Len(queue[o])
          /\ queue[o] \in Seq(Write) /\ Len(queue[o]) \in Nat /\ Len(ws) \in Nat
      BY <1>1, <1>2, <1>3
    <2>2. k \in 1 .. Len(queue[o]) + Len(ws)
      BY <2>1, ConcatProperties
    <2>3. CASE k <= Len(queue[o])
      BY <2>1, <2>2, <2>3
    <2>4. CASE k > Len(queue[o])
      <3>1. k - Len(queue[o]) \in DOMAIN ws /\ queue'[o][k] = ws[k - Len(queue[o])]
        BY <2>1, <2>2, <2>4
      <3>2. \A j \in DOMAIN queue[o] : j < k
        BY <2>1, <2>2, <2>4
      <3> QED
        BY <1>3, <3>1, <3>2
    <2> QED
      BY <2>1, <2>2, <2>3, <2>4
  <1>4. CASE o # auth
    BY <1>1, <1>2, <1>4
  <1> QED
    BY <1>3, <1>4

\* What checkout() queues are writes of the baskets' orders, the new ones under
\* ids that are used up.
LEMMA CheckoutEnqueues ==
    ASSUME TypeOK, Checkout
    PROVE  \E ws \in Seq(Write) :
              /\ Enqueue(ws)
              /\ \A k \in DOMAIN ws : \E b \in Baskets, id \in OrderIDs :
                    /\ ws[k] = OrderWriteTo(b, DocumentID(b, id))
                    /\ orders[b].orderID = NoID => id < nextID'
  <1> DEFINE barID == nextID + NewDocs("cafeOrder")
             cs == OrderWrites("cafeOrder", nextID)
             bs == OrderWrites("barOrder", barID)
             ws == cs \o bs
             OrderOf(w) == \E b \in Baskets, id \in OrderIDs :
                              /\ w = OrderWriteTo(b, DocumentID(b, id))
                              /\ orders[b].orderID = NoID => id < nextID'
  <1>1. /\ nextID \in OrderIDs /\ barID \in OrderIDs
        /\ nextID' = barID + NewDocs("barOrder")
        /\ NewDocs("cafeOrder") \in {0, 1} /\ NewDocs("barOrder") \in {0, 1}
    BY DEF NewDocs, TypeOK, OrderIDs, Checkout
  <1>2. cs \in Seq(Write) /\ bs \in Seq(Write) /\ ws \in Seq(Write)
    BY <1>1, OrderWritesType, ConcatProperties DEF Baskets
  <1>3. ASSUME NEW b \in Baskets, NEW id \in OrderIDs, NEW k \in DOMAIN OrderWrites(b, id),
               orders[b].orderID = NoID => id + NewDocs(b) <= nextID'
        PROVE  OrderOf(OrderWrites(b, id)[k])
    <2>1. OrderWrites(b, id) # << >>
      BY <1>3
    <2>2. OrderWrites(b, id)[k] = OrderWriteTo(b, DocumentID(b, id))
      BY <1>3, <2>1 DEF OrderWrites
    <2>3. orders[b].orderID = NoID => id < nextID'
      <3>1. orders[b].orderID = NoID => NewDocs(b) = 1
        BY <2>1 DEF OrderWrites, NewDocs
      <3>2. id \in Int /\ nextID' \in Int
        BY <1>1 DEF OrderIDs
      <3> QED
        BY <1>3, <3>1, <3>2
    <2> QED
      BY <2>2, <2>3
  <1>4. /\ \A k \in DOMAIN cs : OrderOf(cs[k])
        /\ \A k \in DOMAIN bs : OrderOf(bs[k])
    <2>1. nextID + NewDocs("cafeOrder") <= nextID' /\ barID + NewDocs("barOrder") <= nextID'
      BY <1>1 DEF OrderIDs
    <2> HIDE DEF OrderOf
    <2> QED
      BY <1>1, <1>3, <2>1 DEF Baskets
  <1>5. Enqueue(ws)
    BY DEF Checkout
  <1> HIDE DEF cs, bs, OrderOf
  <1>6. ASSUME NEW k \in DOMAIN ws
        PROVE  OrderOf(ws[k])
    <2>1. k \in 1 .. Len(cs) + Len(bs) /\ Len(cs) \in Nat /\ Len(bs) \in Nat
      BY <1>2, ConcatProperties
    <2>2. CASE k <= Len(cs)
      <3>1. k \in DOMAIN cs /\ ws[k] = cs[k]
        BY <1>2, <2>1, <2>2
      <3> QED
        BY <1>4, <3>1
    <2>3. CASE k > Len(cs)
      <3>1. k - Len(cs) \in DOMAIN bs /\ ws[k] = bs[k - Len(cs)]
        BY <1>2, <2>1, <2>3
      <3> QED
        BY <1>4, <3>1
    <2> QED
      BY <2>1, <2>2, <2>3
  <1> QED
    BY <1>2, <1>5, <1>6 DEF OrderOf

\* What the two others queue is one write.
LEMMA SignUpEnqueues ==
    ASSUME TypeOK, SignUp, ~Terminate
    PROVE  \E ws \in Seq(Write) : Enqueue(ws)
  <1> DEFINE ws == << [op |-> "signUp", user |-> auth, ids |-> << >>, live |-> TRUE] >>
  <1>1. auth \in Users /\ Enqueue(ws)
    BY DEF SignUp, TypeOK, Owners
  <1>2. ws \in Seq(Write)
    BY <1>1 DEF Write, SignUpWrite
  <1> QED
    BY <1>1, <1>2

\* What the block of a save queues.
LEMMA SaveEnqueues ==
    ASSUME TypeOK, SaveReturned, ~Terminate, queue' # queue
    PROVE  \E ws \in Seq(Write) : Enqueue(ws)
  <1> DEFINE cb  == Head(callbacks)
             ids == WithOrder(SavedID(cb))
             ws  == << [op |-> "history", basket |-> cb.write.basket, user |-> uid,
                        ids |-> ids, live |-> TRUE] >>
  <1>1. cb \in Callback /\ cb.write.op = "save"
    BY HeadTailProperties DEF SaveReturned, Returned, TypeOK
  <1>2. cb.write \in OrderWrite
    BY <1>1 DEF Callback, Write, HistoryWrite, SignUpWrite
  <1>3. cb.write.basket \in Baskets /\ SavedID(cb) \in Nat
    BY <1>2 DEF SavedID, OrderWrite, OrderIDs, TypeOK, Order
  <1>4. SavedID(cb) # NoID /\ uid # NoUser /\ Enqueue(ws)
    BY DEF SaveReturned
  <1>5. uid \in Users /\ ids \in Seq(OrderIDs)
    BY <1>3, <1>4 DEF WithOrder, TypeOK, Owners, OrderIDs
  <1>6. ws \in Seq(Write)
    BY <1>3, <1>5 DEF Write, HistoryWrite
  <1> QED
    BY <1>4, <1>6

\* An order that is placed stays placed, whichever write is applied; a save or
\* an update places its own id.
LEMMA ApplyPlaces ==
    ASSUME TypeOK, NEW w \in Write, Apply(w)
    PROVE  /\ Placed \subseteq Placed'
           /\ w.op = "save" => w.id \in Placed'
  <1>1. CASE w.op \in {"save", "update"}
    BY <1>1 DEF Apply, Put, Placed
  <1>2. CASE w.op \notin {"save", "update"}
    BY <1>2 DEF Apply, Placed
  <1> QED
    BY <1>1, <1>2

LEMMA AheadInit == Init => AheadPlaced
  BY TypeInit DEF Init, AheadPlaced, TypeOK

\* Nothing is ahead on a new connection.
LEMMA AheadReset ==
    ASSUME TypeOK', ahead' = 0
    PROVE  AheadPlaced'
  <1>1. Len(queue'[auth']) \in Nat
    BY DEF TypeOK
  <1> QED
    BY <1>1 DEF AheadPlaced

\* What is ahead stays so while the queue at most grows.
LEMMA AheadKept ==
    ASSUME TypeOK, TypeOK', AheadPlaced, UNCHANGED <<auth, ahead, orderDocs>>,
           \A k \in DOMAIN queue[auth] :
               k \in DOMAIN queue'[auth] /\ queue'[auth][k] = queue[auth][k]
    PROVE  AheadPlaced'
  <1>1. /\ ahead \in Nat /\ ahead <= Len(queue[auth])
        /\ DOMAIN queue[auth] = 1 .. Len(queue[auth]) /\ Len(queue[auth]) \in Nat
        /\ DOMAIN queue'[auth] = 1 .. Len(queue'[auth]) /\ Len(queue'[auth]) \in Nat
    BY DEF TypeOK, AheadPlaced
  <1>2. ahead <= Len(queue'[auth])
    BY <1>1
  <1>3. \A k \in 1 .. ahead : queue'[auth][k] = queue[auth][k]
    BY <1>1
  <1> QED
    BY <1>2, <1>3 DEF AheadPlaced, Placed

\* An order is placed before the client hears of it.
LEMMA AheadNext ==
    ASSUME TypeOK, AheadPlaced, [Next]_vars
    PROVE  AheadPlaced'
  <1> USE DEF session, server
  <1>0. TypeOK'
    BY TypeNext
  <1>1. ASSUME Terminate \/ Refuse \/ ConnectionLost \/ \E u \in Users : Authenticate(u)
        PROVE  AheadPlaced'
    <2>1. ahead' = 0
      BY <1>1 DEF Terminate, Refuse, ConnectionLost, Authenticate
    <2> QED
      BY <1>0, <2>1, AheadReset
  <1>2. ASSUME UNCHANGED <<queue, auth, ahead, orderDocs>>
        PROVE  AheadPlaced'
    BY <1>0, <1>2, AheadKept
  <1>3. ASSUME NEW ws \in Seq(Write), Enqueue(ws), UNCHANGED <<auth, ahead, orderDocs>>
        PROVE  AheadPlaced'
    <2>1. auth \in Owners
      BY DEF TypeOK
    <2> QED
      BY <1>0, <1>3, <2>1, EnqueuePending, AheadKept
  <1>4. ASSUME ~Terminate, Checkout \/ SignUp \/ SaveReturned
        PROVE  AheadPlaced'
    <2>1. UNCHANGED <<auth, ahead, orderDocs>>
      BY <1>4 DEF Checkout, SignUp, SaveReturned
    <2>2. CASE queue' = queue
      BY <1>2, <2>1, <2>2
    <2>3. CASE queue' # queue
      BY <1>3, <1>4, <2>1, <2>3, CheckoutEnqueues, SignUpEnqueues, SaveEnqueues
    <2> QED
      BY <2>2, <2>3
  <1>5. CASE Commit
    <2>1. /\ NextUnsent \in Write /\ Apply(NextUnsent)
          /\ ahead \in Nat /\ ahead' = ahead + 1 /\ ahead + 1 \in DOMAIN queue[auth]
          /\ UNCHANGED <<queue, auth>> /\ NextUnsent = queue[auth][ahead + 1]
          /\ queue[auth] \in Seq(Write)
      BY <1>5, UnsentIsWrite DEF Commit, NextUnsent, TypeOK
    <2>2. Placed \subseteq Placed' /\ (NextUnsent.op = "save" => NextUnsent.id \in Placed')
      BY <2>1, ApplyPlaces
    <2>3. ahead' <= Len(queue'[auth'])
      BY <2>1
    <2>4. ASSUME NEW k \in 1 .. ahead', queue[auth][k].op = "save"
          PROVE  queue[auth][k].id \in Placed'
      BY <2>1, <2>2, <2>4 DEF AheadPlaced
    <2> QED
      BY <2>1, <2>3, <2>4 DEF AheadPlaced
  <1>6. CASE Acknowledge
    <2>1. /\ auth \in Owners /\ queue \in [Owners -> Seq(Write)] /\ queue[auth] # << >>
          /\ ahead \in Nat /\ ahead > 0 /\ ahead' = ahead - 1
          /\ queue' = [queue EXCEPT ![auth] = Tail(queue[auth])]
          /\ UNCHANGED <<auth, orderDocs>>
      BY <1>6 DEF Acknowledge, Answer, Connected, TypeOK
    <2>2. /\ queue'[auth] = Tail(queue[auth]) /\ queue[auth] \in Seq(Write)
          /\ Len(queue[auth]) \in Nat /\ ahead <= Len(queue[auth])
      BY <2>1 DEF AheadPlaced
    <2>3. ahead' <= Len(queue'[auth])
      BY <2>1, <2>2
    <2>4. \A k \in 1 .. ahead' : k + 1 \in 1 .. ahead /\ queue'[auth][k] = queue[auth][k + 1]
      BY <2>1, <2>2
    <2> QED
      BY <2>1, <2>3, <2>4 DEF AheadPlaced, Placed
  <1>7. CASE SignOut
    <2>1. CASE auth' = auth
      BY <1>2, <1>7, <2>1 DEF SignOut
    <2>2. CASE auth' # auth
      BY <1>0, <1>7, <2>2, AheadReset DEF SignOut
    <2> QED
      BY <2>1, <2>2
  <1>8. CASE ReadSteps
    BY <1>2, <1>8 DEF ReadSteps, Populate, PopulateFails, ReadEnds
  <1>9. CASE HistoryReturned \/ UpdateReturned \/ SignUpReturned
    BY <1>2, <1>9 DEF HistoryReturned, UpdateReturned, SignUpReturned
  <1>10. CASE Launch \/ Kill \/ UNCHANGED vars
    BY <1>1, <1>2, <1>10 DEF Launch, Kill, vars
  <1>11. ASSUME NEW i \in Items, AddToBasket(i)
         PROVE  AheadPlaced'
    BY <1>2, <1>11 DEF AddToBasket
  <1>12. ASSUME NEW index \in 0 .. MaxItems - 1, RemoveItemAt(index)
         PROVE  AheadPlaced'
    BY <1>1, <1>2, <1>12 DEF RemoveItemAt
  <1> QED
    BY <1>1, <1>4, <1>5, <1>6, <1>7, <1>8, <1>9, <1>10, <1>11, <1>12
    DEF Next, UserSteps, Blocks, Answers, Heard

\* Applying a write that is backed keeps the server's lists backed.
LEMMA ApplyBacked ==
    ASSUME TypeOK, HistoryBacked, Unsent, Apply(NextUnsent)
    PROVE  \A u \in DOMAIN userDocs' : Range(userDocs'[u]) \subseteq Placed'
  <1> DEFINE w == NextUnsent
  <1>1. w \in Write /\ ahead + 1 \in DOMAIN queue[auth] /\ auth \in Owners
    BY UnsentIsWrite DEF TypeOK
  <1>2. w = queue[auth][ahead + 1]
    BY DEF NextUnsent
  <1>3. Placed \subseteq Placed'
    BY <1>1, ApplyPlaces
  <1>4. CASE w.op \in {"history", "signUp"}
    <2>1. Range(w.ids) \subseteq Placed
      BY <1>1, <1>2, <1>4 DEF HistoryBacked, QueueBacked
    <2>2. userDocs' = Put(userDocs, w.user, w.ids)
      BY <1>4 DEF Apply
    <2> QED
      BY <1>3, <2>1, <2>2 DEF Put, HistoryBacked, ListsBacked
  <1>5. CASE w.op \notin {"history", "signUp"}
    <2>1. userDocs' = userDocs
      BY <1>5 DEF Apply
    <2> QED
      BY <1>3, <2>1 DEF HistoryBacked, ListsBacked
  <1> QED
    BY <1>4, <1>5

\* Taking a write off its queue and handing over its block keeps both backed,
\* when the order of a save that succeeded is placed.
LEMMA AnswerBacked ==
    ASSUME TypeOK, HistoryBacked, Connected, NEW ok \in BOOLEAN,
           Answer(Head(queue[auth]), ok), Placed \subseteq Placed',
           Head(queue[auth]).op = "save" /\ ok => Head(queue[auth]).id \in Placed'
    PROVE  QueueBacked' /\ AnswersBacked'
  <1> DEFINE w == Head(queue[auth])
  <1>1. auth \in Owners /\ queue \in [Owners -> Seq(Write)] /\ queue[auth] # << >>
    BY DEF TypeOK, Connected
  <1>2. QueueBacked'
    <2> SUFFICES ASSUME NEW o \in Owners, NEW k \in DOMAIN queue'[o],
                        queue'[o][k].op \in {"history", "signUp"}
                 PROVE  Range(queue'[o][k].ids) \subseteq Placed'
      BY DEF QueueBacked
    <2>1. queue' = [queue EXCEPT ![auth] = Tail(queue[auth])]
      BY DEF Answer
    <2>2. CASE o = auth
      <3>1. Len(queue[auth]) \in Nat /\ DOMAIN queue[auth] = 1 .. Len(queue[auth])
        BY <1>1
      <3>2. k + 1 \in DOMAIN queue[auth] /\ queue'[o][k] = queue[auth][k + 1]
        BY <1>1, <2>1, <2>2, <3>1
      <3> QED
        BY <1>1, <3>2 DEF HistoryBacked, QueueBacked
    <2>3. CASE o # auth
      BY <1>1, <2>1, <2>3 DEF HistoryBacked, QueueBacked
    <2> QED
      BY <2>2, <2>3
  <1>3. AnswersBacked'
    <2>1. callbacks \in Seq(Callback)
      BY DEF TypeOK
    <2>2. CASE callbacks' = callbacks
      BY <2>2 DEF HistoryBacked, AnswersBacked
    <2>3. CASE callbacks' = Append(callbacks, [write |-> w, ok |-> ok])
      BY <2>1, <2>3 DEF HistoryBacked, AnswersBacked
    <2> QED
      BY <2>2, <2>3 DEF Answer
  <1> QED
    BY <1>2, <1>3

\* Queueing a backed list of previous orders keeps the queues backed.
LEMMA EnqueueBacked ==
    ASSUME TypeOK, HistoryBacked, NEW ws \in Seq(Write), Enqueue(ws),
           UNCHANGED orderDocs,
           \A k \in DOMAIN ws :
               ws[k].op \in {"history", "signUp"} => Range(ws[k].ids) \subseteq Placed
    PROVE  QueueBacked'
  <1> SUFFICES ASSUME NEW o \in Owners, NEW k \in DOMAIN queue'[o],
                      queue'[o][k].op \in {"history", "signUp"}
               PROVE  Range(queue'[o][k].ids) \subseteq Placed
    BY DEF QueueBacked, Placed
  <1> QED
    BY EnqueuedOnly DEF HistoryBacked, QueueBacked

\* The end of the process forgets; what stays queued is what was queued.
LEMMA TerminateBacked ==
    ASSUME TypeOK, HistoryBacked, Terminate
    PROVE  HistoryBacked'
  <1>1. QueueBacked'
    <2> SUFFICES ASSUME NEW o \in Owners, NEW k \in DOMAIN queue'[o],
                        queue'[o][k].op \in {"history", "signUp"}
                 PROVE  Range(queue'[o][k].ids) \subseteq Placed'
      BY DEF QueueBacked
    <2>1. queue'[o] = [j \in DOMAIN queue[o] |-> [queue[o][j] EXCEPT !.live = FALSE]]
      BY DEF Terminate
    <2>2. k \in DOMAIN queue[o] /\ queue'[o][k] = [queue[o][k] EXCEPT !.live = FALSE]
      BY <2>1
    <2>3. queue[o][k] \in Write
      BY <2>2 DEF TypeOK
    <2>4. queue'[o][k].op = queue[o][k].op
      BY <2>2, <2>3 DEF Write, OrderWrite, HistoryWrite, SignUpWrite
    <2>5. queue[o][k] \in HistoryWrite \cup SignUpWrite
      BY <2>3, <2>4 DEF Write, OrderWrite
    <2>6. queue'[o][k].ids = queue[o][k].ids
      BY <2>2, <2>5 DEF HistoryWrite, SignUpWrite
    <2> QED
      BY <2>2, <2>4, <2>6 DEF HistoryBacked, QueueBacked, Terminate, server, Placed
  <1>2. OrdersBacked' /\ AnswersBacked'
    BY DEF Terminate, OrdersBacked, AnswersBacked, EmptyOrders, EmptyOrder
  <1>3. ListsBacked'
    BY DEF Terminate, server, HistoryBacked, ListsBacked, Placed, Range
  <1> QED
    BY <1>1, <1>2, <1>3 DEF HistoryBacked

\* The list a read returns is backed: it is the server's, or a queued write's.
LEMMA LocalHistoryBacked ==
    ASSUME TypeOK, HistoryBacked, NEW u \in Users, NEW h \in LocalHistory(u)
    PROVE  Range(h) \subseteq Placed
  BY DEF LocalHistory, HistoryBacked, ListsBacked, QueueBacked, TypeOK, Owners

LEMMA BackedInit == Init => HistoryBacked
  BY DEF Init, HistoryBacked, ListsBacked, QueueBacked, OrdersBacked, AnswersBacked,
         Range, EmptyOrders, EmptyOrder

\* Every step keeps every named order placed.
LEMMA BackedNext ==
    ASSUME TypeOK, HistoryBacked, AheadPlaced, [Next]_vars
    PROVE  HistoryBacked'
  <1> USE DEF session, server
  \* A step that leaves the lists, the queues and the answers alone.
  <1>0. ASSUME UNCHANGED <<orderDocs, userDocs, previousOrders, queue, callbacks>>,
               OrdersBacked'
        PROVE  HistoryBacked'
    BY <1>0 DEF HistoryBacked, ListsBacked, QueueBacked, AnswersBacked, Placed
  <1>1. ASSUME NEW i \in Items, AddToBasket(i)
        PROVE  HistoryBacked'
    <2>1. OrdersBacked'
      BY <1>1 DEF AddToBasket, AddItem, HistoryBacked, OrdersBacked, Placed, TypeOK
    <2> QED
      BY <1>0, <1>1, <2>1 DEF AddToBasket
  <1>2. ASSUME NEW index \in 0 .. MaxItems - 1, RemoveItemAt(index)
        PROVE  HistoryBacked'
    <2>1. CASE Terminate
      BY <2>1, TerminateBacked
    <2>2. CASE ~Terminate
      <3>1. PICK b \in Baskets, at \in Int :
               /\ orders' = [orders EXCEPT ![b] = DropItem(orders[b], at)]
               /\ UNCHANGED <<session, previousOrders, queue, callbacks, server, nextID>>
        <4>1. CafeRows \in Nat
          BY DEF CafeRows, TypeOK, Order, Baskets
        <4>2. BasketAt(index) \in Baskets /\ PositionAt(index) \in Int
          BY <4>1, CheckoutAssumptions DEF BasketAt, PositionAt, Baskets
        <4> QED
          BY <1>2, <2>2, <4>2 DEF RemoveItemAt
      <3>2. OrdersBacked'
        BY <3>1 DEF DropItem, HistoryBacked, OrdersBacked, Placed, TypeOK
      <3> QED
        BY <1>0, <3>1, <3>2
    <2> QED
      BY <2>1, <2>2
  <1>3. CASE Checkout
    <2>1. UNCHANGED <<previousOrders, orders, callbacks, server>>
      BY <1>3 DEF Checkout
    <2>2. PICK ws \in Seq(Write) :
             Enqueue(ws) /\ \A k \in DOMAIN ws : ws[k].op \in {"save", "update"}
      BY <1>3, CheckoutEnqueues DEF OrderWriteTo
    <2>3. QueueBacked'
      BY <2>1, <2>2, EnqueueBacked
    <2> QED
      BY <2>1, <2>3 DEF HistoryBacked, ListsBacked, OrdersBacked, AnswersBacked, Placed
  <1>4. CASE SignUp
    <2>1. CASE Terminate
      BY <2>1, TerminateBacked
    <2>2. CASE ~Terminate
      <3> DEFINE ws == << [op |-> "signUp", user |-> auth, ids |-> << >>,
                           live |-> TRUE] >>
      <3>1. auth \in Users /\ Enqueue(ws)
            /\ UNCHANGED <<previousOrders, orders, callbacks, server>>
        BY <1>4, <2>2 DEF SignUp, TypeOK, Owners
      <3>2. ws \in Seq(Write)
        BY <3>1 DEF Write, SignUpWrite
      <3>3. \A k \in DOMAIN ws : Range(ws[k].ids) = {}
        BY DEF Range
      <3>4. QueueBacked'
        BY <3>1, <3>2, <3>3, EnqueueBacked
      <3> QED
        BY <3>1, <3>4 DEF HistoryBacked, ListsBacked, OrdersBacked, AnswersBacked, Placed
    <2> QED
      BY <2>1, <2>2
  <1>5. CASE SignOut
    BY <1>5 DEF SignOut, HistoryBacked, ListsBacked, QueueBacked, OrdersBacked,
                AnswersBacked, Placed, Range
  <1>6. CASE Kill
    BY <1>6, TerminateBacked DEF Kill
  <1>7. ASSUME Launch \/ \E u \in Users : Authenticate(u)
        PROVE  HistoryBacked'
    BY <1>7, <1>0 DEF Launch, Authenticate, HistoryBacked, OrdersBacked, Placed
  <1>8. CASE SaveReturned
    <2> DEFINE cb  == Head(callbacks)
               b   == cb.write.basket
               id  == SavedID(cb)
               ids == WithOrder(id)
               ws  == << [op |-> "history", basket |-> b, user |-> uid,
                          ids |-> ids, live |-> TRUE] >>
    <2>1. callbacks # << >> /\ callbacks \in Seq(Callback) /\ cb \in Callback
          /\ cb = callbacks[1] /\ 1 \in DOMAIN callbacks /\ cb.write.op = "save"
      BY <1>8, HeadTailProperties DEF SaveReturned, Returned, TypeOK
    <2>2. cb.write \in OrderWrite
      BY <2>1 DEF Callback, Write, HistoryWrite, SignUpWrite
    <2>3. b \in Baskets /\ id \in Placed \cup {NoID}
      BY <2>1, <2>2 DEF SavedID, OrderWrite, HistoryBacked, OrdersBacked, AnswersBacked
    <2>4. callbacks' = Tail(callbacks) /\ UNCHANGED orderDocs => AnswersBacked'
      <3> SUFFICES ASSUME callbacks' = Tail(callbacks), UNCHANGED orderDocs
                   PROVE  AnswersBacked'
        OBVIOUS
      <3>1. \A k \in DOMAIN callbacks' :
               k + 1 \in DOMAIN callbacks /\ callbacks'[k] = callbacks[k + 1]
        BY <2>1
      <3> QED
        BY <3>1 DEF AnswersBacked, HistoryBacked, Placed
    <2>5. CASE id = NoID
      BY <1>8, <2>4, <2>5 DEF SaveReturned, HistoryBacked, ListsBacked, QueueBacked,
                              OrdersBacked, Placed
    <2>6. CASE id # NoID /\ uid = NoUser
      BY <1>8, <2>6, TerminateBacked DEF SaveReturned
    <2>7. CASE id # NoID /\ uid # NoUser
      <3>1. /\ orders' = [orders EXCEPT ![b].orderID = id]
            /\ previousOrders' = ids /\ Enqueue(ws)
            /\ callbacks' = Tail(callbacks)
            /\ UNCHANGED <<session, server, nextID>>
        BY <1>8, <2>7 DEF SaveReturned
      <3>2. id \in Placed /\ id \in OrderIDs /\ uid \in Users
        BY <2>3, <2>7 DEF Placed, TypeOK, Owners
      <3>3. Range(ids) \subseteq Placed
        BY <3>2 DEF WithOrder, Range, HistoryBacked, ListsBacked, TypeOK
      <3>4. ids \in Seq(OrderIDs)
        BY <3>2 DEF WithOrder, TypeOK
      <3>5. ws \in Seq(Write)
        BY <2>3, <3>2, <3>4 DEF Write, HistoryWrite
      <3>6. \A k \in DOMAIN ws : ws[k].ids = ids
        OBVIOUS
      <3>7. QueueBacked'
        BY <3>1, <3>3, <3>5, <3>6, EnqueueBacked
      <3>8. ListsBacked'
        BY <3>1, <3>3 DEF HistoryBacked, ListsBacked, Placed
      <3>9. OrdersBacked'
        BY <2>3, <3>1, <3>2 DEF HistoryBacked, OrdersBacked, Placed, TypeOK, Order
      <3> QED
        BY <2>4, <3>1, <3>7, <3>8, <3>9 DEF HistoryBacked
    <2> QED
      BY <2>5, <2>6, <2>7
  <1>9. CASE HistoryReturned \/ UpdateReturned \/ SignUpReturned
    <2>1. callbacks # << >> /\ callbacks \in Seq(Callback) /\ callbacks' = Tail(callbacks)
      BY <1>9 DEF HistoryReturned, UpdateReturned, SignUpReturned, Returned, TypeOK
    <2>2. \A k \in DOMAIN callbacks' :
             k + 1 \in DOMAIN callbacks /\ callbacks'[k] = callbacks[k + 1]
      BY <2>1
    <2>3. UNCHANGED <<previousOrders, queue, server>>
      BY <1>9 DEF HistoryReturned, UpdateReturned, SignUpReturned
    <2>4. AnswersBacked'
      BY <2>2, <2>3 DEF AnswersBacked, HistoryBacked, Placed
    <2>5. OrdersBacked'
      BY <1>9, <2>3 DEF HistoryReturned, UpdateReturned, SignUpReturned, Reset, EmptyOrder,
                        HistoryBacked, OrdersBacked, Placed, TypeOK
    <2> QED
      BY <2>3, <2>4, <2>5 DEF HistoryBacked, ListsBacked, QueueBacked, Placed
  <1>10. CASE Acknowledge
    <2>1. /\ Connected /\ Answer(Head(queue[auth]), TRUE) /\ Placed' = Placed
          /\ UNCHANGED <<previousOrders, orders, userDocs>>
      BY <1>10 DEF Acknowledge, Placed
    <2>2. Head(queue[auth]).op = "save" => Head(queue[auth]).id \in Placed
      BY <1>10 DEF Acknowledge, AheadPlaced, TypeOK, Connected
    <2>3. QueueBacked' /\ AnswersBacked'
      BY <2>1, <2>2, AnswerBacked
    <2> QED
      BY <2>1, <2>3 DEF HistoryBacked, ListsBacked, OrdersBacked
  <1>11. CASE Refuse
    <2>1. Connected /\ Answer(Head(queue[auth]), FALSE) /\ Placed' = Placed
          /\ UNCHANGED <<previousOrders, orders, userDocs>>
      BY <1>11 DEF Refuse, Unsent, Placed
    <2>2. QueueBacked' /\ AnswersBacked'
      BY <2>1, AnswerBacked
    <2> QED
      BY <2>1, <2>2 DEF HistoryBacked, ListsBacked, OrdersBacked
  <1>12. CASE Commit
    <2>1. NextUnsent \in Write /\ Unsent /\ Apply(NextUnsent)
          /\ UNCHANGED <<previousOrders, orders, queue, callbacks>>
      BY <1>12, UnsentIsWrite DEF Commit
    <2>2. Placed \subseteq Placed'
      BY <2>1, ApplyPlaces
    <2>3. \A u \in DOMAIN userDocs' : Range(userDocs'[u]) \subseteq Placed'
      BY <2>1, ApplyBacked
    <2>4. ListsBacked' /\ OrdersBacked'
      BY <2>1, <2>2, <2>3 DEF HistoryBacked, ListsBacked, OrdersBacked
    <2>5. QueueBacked' /\ AnswersBacked'
      BY <2>1, <2>2 DEF HistoryBacked, QueueBacked, AnswersBacked
    <2> QED
      BY <2>4, <2>5 DEF HistoryBacked
  <1>13. ASSUME NEW r \in reads, Populate(r)
         PROVE  HistoryBacked'
    <2>1. r.user \in Users
      BY DEF TypeOK, Read
    <2>2. PICK h \in LocalHistory(r.user) : previousOrders' = h
      BY <1>13 DEF Populate
    <2>3. Range(previousOrders') \subseteq Placed
      BY <2>1, <2>2, LocalHistoryBacked
    <2> QED
      BY <1>13, <2>3 DEF Populate, ReadEnds, HistoryBacked, ListsBacked, QueueBacked,
                         OrdersBacked, AnswersBacked, Placed
  <1>14. ASSUME NEW r \in reads, PopulateFails(r)
         PROVE  HistoryBacked'
    BY <1>0, <1>14 DEF PopulateFails, ReadEnds, HistoryBacked, OrdersBacked, Placed
  <1>15. CASE ConnectionLost \/ UNCHANGED vars
    BY <1>0, <1>15 DEF ConnectionLost, vars, HistoryBacked, OrdersBacked, Placed
  <1> QED
    BY <1>1, <1>2, <1>3, <1>4, <1>5, <1>6, <1>7, <1>8, <1>9, <1>10, <1>11, <1>12,
       <1>13, <1>14, <1>15
    DEF Next, UserSteps, Blocks, Answers, Heard, ReadSteps

\* Whatever is tapped, refused, killed or answered late, no list of previous
\* orders, on the server or in memory, names an order the server does not have.
THEOREM HistoryNeverDangles == Spec => []NoDanglingHistory
  <1>1. Init => TypeOK /\ HistoryBacked /\ AheadPlaced
    BY TypeInit, BackedInit, AheadInit
  <1>2. (TypeOK /\ HistoryBacked /\ AheadPlaced) /\ [Next]_vars
          => (TypeOK /\ HistoryBacked /\ AheadPlaced)'
    BY TypeNext, BackedNext, AheadNext
  <1>3. HistoryBacked => NoDanglingHistory
    BY DEF HistoryBacked, ListsBacked, NoDanglingHistory
  <1> QED
    BY <1>1, <1>2, <1>3, PTL DEF Spec

(***************************************************************************)
(* A basket that carries an order's id will be reset.  The invariant is    *)
(* inductive given the types: a write moves from its queue to the answers, *)
(* the answers are taken from the front, and the one taken resets.         *)
(***************************************************************************)

\* An answer moves a pending reset from the queue to the main queue at most.
LEMMA AnswerPending ==
    ASSUME TypeOK, Connected, NEW ok \in BOOLEAN,
           Answer(Head(queue[auth]), ok), NEW b \in Baskets, ResetPending(b)
    PROVE  ResetPending(b)'
  <1> DEFINE w == Head(queue[auth])
  <1>1. /\ auth \in Owners /\ queue \in [Owners -> Seq(Write)] /\ queue[auth] # << >>
        /\ callbacks \in Seq(Callback)
    BY DEF TypeOK, Connected
  <1>2. queue' = [queue EXCEPT ![auth] = Tail(queue[auth])]
    BY DEF Answer
  <1>3. \A k \in DOMAIN callbacks :
           k \in DOMAIN callbacks' /\ callbacks'[k] = callbacks[k]
    <2>1. CASE callbacks' = callbacks
      BY <2>1
    <2>2. CASE callbacks' = Append(callbacks, [write |-> w, ok |-> ok])
      BY <1>1, <2>2
    <2> QED
      BY <2>1, <2>2 DEF Answer
  <1>4. CASE \E k \in DOMAIN callbacks :
               callbacks[k].write.op = "history" /\ callbacks[k].write.basket = b
    BY <1>3, <1>4 DEF ResetPending
  <1>5. ASSUME NEW o \in Owners, NEW k \in DOMAIN queue[o],
               queue[o][k].op = "history", queue[o][k].basket = b, queue[o][k].live
        PROVE  ResetPending(b)'
    <2>1. CASE o # auth
      <3>1. queue'[o] = queue[o]
        BY <1>1, <1>2, <2>1
      <3> QED
        BY <1>5, <3>1 DEF ResetPending
    <2>2. CASE o = auth /\ k = 1
      <3>1. w = queue[o][k]
        BY <1>1, <2>2
      <3>2. callbacks' = Append(callbacks, [write |-> w, ok |-> ok])
        BY <1>5, <3>1 DEF Answer
      <3>3. /\ Len(callbacks) + 1 \in DOMAIN callbacks'
            /\ callbacks'[Len(callbacks) + 1].write = w
        BY <1>1, <3>2
      <3> QED
        BY <1>5, <3>1, <3>3 DEF ResetPending
    <2>3. CASE o = auth /\ k # 1
      <3>1. Len(queue[o]) \in Nat /\ k \in 1 .. Len(queue[o]) /\ k # 1
        BY <1>1, <2>3
      <3>2. k - 1 \in DOMAIN queue'[o] /\ queue'[o][k - 1] = queue[o][k]
        BY <1>1, <1>2, <2>3, <3>1
      <3> QED
        BY <1>5, <3>2 DEF ResetPending
    <2> QED
      BY <2>1, <2>2, <2>3
  <1> QED
    BY <1>4, <1>5 DEF ResetPending

\* Running a block that is not the reset of b leaves the reset of b pending.
LEMMA BlockPending ==
    ASSUME TypeOK, callbacks # << >>, callbacks' = Tail(callbacks),
           NEW b \in Baskets, ResetPending(b),
           \A o \in Owners : \A k \in DOMAIN queue[o] :
               k \in DOMAIN queue'[o] /\ queue'[o][k] = queue[o][k],
           ~(Head(callbacks).write.op = "history" /\ Head(callbacks).write.basket = b)
    PROVE  ResetPending(b)'
  <1>1. callbacks \in Seq(Callback)
    BY DEF TypeOK
  <1>2. ASSUME NEW k \in DOMAIN callbacks, callbacks[k].write.op = "history",
               callbacks[k].write.basket = b
        PROVE  ResetPending(b)'
    <2>1. k # 1 /\ k \in 1 .. Len(callbacks) /\ Len(callbacks) \in Nat
      BY <1>1, <1>2
    <2>2. k - 1 \in DOMAIN callbacks' /\ callbacks'[k - 1] = callbacks[k]
      BY <1>1, <2>1
    <2> QED
      BY <1>2, <2>2 DEF ResetPending
  <1>3. ASSUME NEW o \in Owners, NEW k \in DOMAIN queue[o],
               queue[o][k].op = "history", queue[o][k].basket = b, queue[o][k].live
        PROVE  ResetPending(b)'
    BY <1>3 DEF ResetPending
  <1> QED
    BY <1>2, <1>3 DEF ResetPending

\* Every step keeps the reset of a basket with an id pending, or performs it.
LEMMA ResetNext ==
    ASSUME TypeOK, IdentifiedOrderWillReset, [Next]_vars
    PROVE  IdentifiedOrderWillReset'
  <1> USE DEF session, server
  \* A step that sets no id, and after which what was pending still is.
  <1>0. ASSUME \A b \in Baskets : orders'[b].orderID \in {orders[b].orderID, NoID},
               \A b \in Baskets : ResetPending(b) => ResetPending(b)'
        PROVE  IdentifiedOrderWillReset'
    BY <1>0 DEF IdentifiedOrderWillReset
  <1>1. ASSUME UNCHANGED <<queue, callbacks>>
        PROVE  \A b \in Baskets : ResetPending(b) => ResetPending(b)'
    BY <1>1 DEF ResetPending
  <1>2. ASSUME NEW ws \in Seq(Write), Enqueue(ws), UNCHANGED callbacks
        PROVE  \A b \in Baskets : ResetPending(b) => ResetPending(b)'
    BY <1>2, EnqueuePending DEF ResetPending
  <1>3. ASSUME Terminate
        PROVE  IdentifiedOrderWillReset'
    BY <1>3 DEF Terminate, IdentifiedOrderWillReset, EmptyOrders, EmptyOrder
  <1>4. ASSUME NEW i \in Items, AddToBasket(i)
        PROVE  IdentifiedOrderWillReset'
    <2>1. \A b \in Baskets : orders'[b].orderID = orders[b].orderID
      BY <1>4 DEF AddToBasket, AddItem, TypeOK
    <2> QED
      BY <1>0, <1>1, <1>4, <2>1 DEF AddToBasket
  <1>5. ASSUME NEW index \in 0 .. MaxItems - 1, RemoveItemAt(index)
        PROVE  IdentifiedOrderWillReset'
    <2>1. CASE ~Terminate
      <3>1. /\ \A b \in Baskets : orders'[b].orderID = orders[b].orderID
            /\ UNCHANGED <<queue, callbacks>>
        BY <1>5, <2>1 DEF RemoveItemAt, DropItem, TypeOK, Baskets
      <3> QED
        BY <1>0, <1>1, <3>1
    <2> QED
      BY <1>3, <2>1
  <1>6. CASE Checkout
    <2>1. \E ws \in Seq(Write) : Enqueue(ws)
      BY <1>6, CheckoutEnqueues
    <2> QED
      BY <1>0, <1>2, <1>6, <2>1 DEF Checkout
  <1>7. CASE SignUp
    <2> DEFINE ws == << [op |-> "signUp", user |-> auth, ids |-> << >>, live |-> TRUE] >>
    <2>1. CASE ~Terminate
      <3>1. auth \in Users /\ Enqueue(ws) /\ UNCHANGED <<orders, callbacks>>
        BY <1>7, <2>1 DEF SignUp, TypeOK, Owners
      <3>2. ws \in Seq(Write)
        BY <3>1 DEF Write, SignUpWrite
      <3> QED
        BY <1>0, <1>2, <3>1, <3>2
    <2> QED
      BY <1>3, <2>1
  <1>8. ASSUME SignOut \/ Launch \/ (\E u \in Users : Authenticate(u)) \/ ReadSteps
        PROVE  IdentifiedOrderWillReset'
    <2>1. UNCHANGED <<orders, queue, callbacks>>
      BY <1>8 DEF SignOut, Launch, Authenticate, ReadSteps, Populate, PopulateFails, ReadEnds
    <2> QED
      BY <1>0, <1>1, <2>1
  <1>9. CASE Kill
    BY <1>3, <1>9 DEF Kill
  <1>10. CASE SaveReturned
    <2> DEFINE cb  == Head(callbacks)
               c   == cb.write.basket
               id  == SavedID(cb)
               ids == WithOrder(id)
               ws  == << [op |-> "history", basket |-> c, user |-> uid,
                          ids |-> ids, live |-> TRUE] >>
    <2>1. callbacks # << >> /\ cb \in Callback /\ cb.write.op = "save"
      BY <1>10, HeadTailProperties DEF SaveReturned, Returned, TypeOK
    <2>2. cb.write \in OrderWrite
      BY <2>1 DEF Callback, Write, HistoryWrite, SignUpWrite
    <2>3. c \in Baskets /\ id \in Nat
      BY <2>2 DEF SavedID, OrderWrite, OrderIDs, TypeOK, Order
    <2>4. CASE id = NoID
      <3>1. UNCHANGED <<orders, queue>> /\ callbacks' = Tail(callbacks)
        BY <1>10, <2>4 DEF SaveReturned
      <3>2. \A b \in Baskets : ResetPending(b) => ResetPending(b)'
        BY <2>1, <3>1, BlockPending
      <3> QED
        BY <1>0, <3>1, <3>2
    <2>5. CASE id # NoID /\ uid = NoUser
      BY <1>3, <1>10, <2>5 DEF SaveReturned
    <2>6. CASE id # NoID /\ uid # NoUser
      <3>1. /\ orders' = [orders EXCEPT ![c].orderID = id]
            /\ Enqueue(ws) /\ callbacks' = Tail(callbacks)
        BY <1>10, <2>6 DEF SaveReturned
      <3>2. uid \in Users /\ ids \in Seq(OrderIDs)
        BY <2>3, <2>6 DEF WithOrder, TypeOK, Owners, OrderIDs
      <3>3. ws \in Seq(Write)
        BY <2>3, <3>2 DEF Write, HistoryWrite
      <3>4. \A b \in Baskets : ResetPending(b) => ResetPending(b)'
        BY <2>1, <3>1, <3>3, EnqueuePending, BlockPending
      <3>5. PICK d \in Baskets : d = c
        BY <2>3
      <3>6. ResetPending(d)'
        <4>1. auth \in Owners /\ queue \in [Owners -> Seq(Write)]
          BY DEF TypeOK
        <4>2. queue'[auth] = queue[auth] \o ws /\ Len(queue[auth]) \in Nat
          BY <3>1, <4>1 DEF Enqueue
        <4>3. /\ Len(queue[auth]) + 1 \in DOMAIN queue'[auth]
              /\ queue'[auth][Len(queue[auth]) + 1] = ws[1]
          BY <3>3, <4>1, <4>2
        <4>4. ws[1].op = "history" /\ ws[1].basket = d /\ ws[1].live
          BY <3>5
        <4> QED
          BY <4>1, <4>3, <4>4 DEF ResetPending
      <3>7. \A b \in Baskets : b # d => orders'[b].orderID = orders[b].orderID
        BY <3>1, <3>5 DEF TypeOK
      <3> QED
        BY <3>4, <3>6, <3>7 DEF IdentifiedOrderWillReset
    <2> QED
      BY <2>4, <2>5, <2>6
  <1>11. CASE HistoryReturned \/ UpdateReturned
    <2>0. PICK c : c = Head(callbacks).write.basket
      OBVIOUS
    <2>1. /\ callbacks # << >> /\ callbacks' = Tail(callbacks) /\ UNCHANGED queue
          /\ orders' = [orders EXCEPT ![c] = EmptyOrder]
      BY <1>11, <2>0 DEF HistoryReturned, UpdateReturned, Returned, Reset
    <2>2. \A b \in Baskets : b # c /\ ResetPending(b) => ResetPending(b)'
      BY <2>0, <2>1, BlockPending
    <2>3. \A b \in Baskets : IF b = c THEN orders'[b].orderID = NoID
                                      ELSE orders'[b] = orders[b]
      BY <2>1 DEF EmptyOrder, TypeOK
    <2> QED
      BY <2>2, <2>3 DEF IdentifiedOrderWillReset
  <1>12. CASE SignUpReturned
    <2>1. /\ callbacks # << >> /\ callbacks' = Tail(callbacks) /\ UNCHANGED <<queue, orders>>
          /\ Head(callbacks).write.op = "signUp"
      BY <1>12 DEF SignUpReturned, Returned
    <2>2. \A b \in Baskets : ResetPending(b) => ResetPending(b)'
      BY <2>1, BlockPending
    <2> QED
      BY <1>0, <2>1, <2>2
  <1>13. CASE Heard
    <2>1. PICK ok \in BOOLEAN : Answer(Head(queue[auth]), ok)
      BY <1>13 DEF Heard, Acknowledge, Refuse
    <2>2. Connected /\ UNCHANGED orders
      BY <1>13 DEF Heard, Acknowledge, Refuse, Unsent
    <2>3. \A b \in Baskets : ResetPending(b) => ResetPending(b)'
      BY <2>1, <2>2, AnswerPending
    <2> QED
      BY <1>0, <2>2, <2>3
  <1>14. CASE Commit \/ ConnectionLost \/ UNCHANGED vars
    <2>1. UNCHANGED <<orders, queue, callbacks>>
      BY <1>14 DEF Commit, ConnectionLost, vars
    <2> QED
      BY <1>0, <1>1, <2>1
  <1> QED
    BY <1>4, <1>5, <1>6, <1>7, <1>8, <1>9, <1>10, <1>11, <1>12, <1>13, <1>14
    DEF Next, UserSteps, Blocks, Answers

\* A basket never keeps a sent order's id with no block left to reset it, so it
\* cannot go on overwriting that order: for every interleaving of taps, answers,
\* refusals, sign-outs and deaths of the process.
THEOREM SentBasketsReset == Spec => []IdentifiedOrderWillReset
  <1>1. Init => TypeOK /\ IdentifiedOrderWillReset
    BY TypeInit DEF Init, IdentifiedOrderWillReset, EmptyOrders, EmptyOrder
  <1>2. (TypeOK /\ IdentifiedOrderWillReset) /\ [Next]_vars
          => (TypeOK /\ IdentifiedOrderWillReset)'
    BY TypeNext, ResetNext
  <1> QED
    BY <1>1, <1>2, PTL DEF Spec

(***************************************************************************)
(* Deleting takes one row                                                  *)
(***************************************************************************)

\* The rows are the two baskets in a row.
LEMMA RowsType == TypeOK => /\ Rows \in Seq(Items) /\ Len(Rows) \in Nat
                            /\ CafeRows \in Nat
                            /\ orders["cafeOrder"].items \in Seq(Items)
                            /\ orders["barOrder"].items \in Seq(Items)
                            /\ Len(Rows) = CafeRows + Len(orders["barOrder"].items)
                            /\ Len(orders["barOrder"].items) \in Nat
  <1> SUFFICES ASSUME TypeOK PROVE
                            /\ Rows \in Seq(Items) /\ Len(Rows) \in Nat
                            /\ CafeRows \in Nat
                            /\ orders["cafeOrder"].items \in Seq(Items)
                            /\ orders["barOrder"].items \in Seq(Items)
                            /\ Len(Rows) = CafeRows + Len(orders["barOrder"].items)
                            /\ Len(orders["barOrder"].items) \in Nat
    OBVIOUS
  <1>1. /\ orders["cafeOrder"] \in Order /\ orders["barOrder"] \in Order
    BY DEF TypeOK, Baskets
  <1>2. /\ orders["cafeOrder"].items \in Seq(Items) /\ orders["barOrder"].items \in Seq(Items)
    BY <1>1 DEF Order
  <1> QED
    BY <1>2, ConcatProperties, LenProperties DEF Rows, CafeRows

\* removeItemAt takes the row with that index, wherever the index is split.
LEMMA RemoveTakesRow ==
    ASSUME TypeOK, NEW index \in Nat, index < Len(Rows), RemoveItemAt(index)
    PROVE  /\ Rows' = RemoveAt(Rows, index + 1)
           /\ stage' = stage /\ UNCHANGED <<queue, auth, ahead>>
  <1>0. PICK c \in Seq(Items), b \in Seq(Items) :
           c = orders["cafeOrder"].items /\ b = orders["barOrder"].items
    BY RowsType
  <1>1. /\ c \in Seq(Items) /\ b \in Seq(Items) /\ Len(c) \in Nat /\ Len(b) \in Nat
        /\ CafeRows = Len(c) /\ Rows = c \o b /\ Len(Rows) = Len(c) + Len(b)
    BY <1>0, RowsType DEF CafeRows, Rows
  <1>2. /\ orders \in [Baskets -> Order] /\ "cafeOrder" # "barOrder"
        /\ "cafeOrder" \in Baskets /\ "barOrder" \in Baskets
    BY DEF TypeOK, Baskets
  <1>3. CASE index < Len(c)
    <2>1. BasketAt(index) = "cafeOrder" /\ PositionAt(index) = index
      BY <1>1, <1>3 DEF BasketAt, PositionAt
    <2>2. /\ orders' = [orders EXCEPT !["cafeOrder"] = DropItem(@, index)]
          /\ stage' = stage /\ UNCHANGED <<queue, auth, ahead>>
      BY <1>0, <1>3, <2>1 DEF RemoveItemAt, session, server
    <2>3. /\ orders'["cafeOrder"].items = RemoveAt(c, index + 1)
          /\ orders'["barOrder"].items = b
      BY <1>0, <1>2, <2>2 DEF DropItem
    <2>4. Rows' = RemoveAt(c, index + 1) \o b
      BY <2>3 DEF Rows
    <2>5. index + 1 \in 1 .. Len(c) + Len(b) /\ index + 1 <= Len(c)
      BY <1>1, <1>3
    <2>6. RemoveAt(c \o b, index + 1) = RemoveAt(c, index + 1) \o b
      BY <1>1, <2>5, RemoveAtConcat
    <2> QED
      BY <1>1, <2>2, <2>4, <2>6
  <1>4. CASE ~ (index < Len(c))
    <2>1. BasketAt(index) = "barOrder" /\ PositionAt(index) = index - Len(c)
      BY <1>1, <1>4 DEF BasketAt, PositionAt
    <2>2. /\ orders' = [orders EXCEPT !["barOrder"] = DropItem(@, index - Len(c))]
          /\ stage' = stage /\ UNCHANGED <<queue, auth, ahead>>
      <3>1. index - Len(c) < Len(b)
        BY <1>1, <1>4
      <3> QED
        BY <1>0, <2>1, <3>1 DEF RemoveItemAt, session, server
    <2>3. /\ orders'["barOrder"].items = RemoveAt(b, index - Len(c) + 1)
          /\ orders'["cafeOrder"].items = c
      BY <1>0, <1>2, <2>2 DEF DropItem
    <2>4. Rows' = c \o RemoveAt(b, index - Len(c) + 1)
      BY <2>3 DEF Rows
    <2>5. /\ index + 1 \in 1 .. Len(c) + Len(b) /\ ~ (index + 1 <= Len(c))
          /\ index + 1 - Len(c) = index - Len(c) + 1
      BY <1>1, <1>4
    <2>6. PICK i \in 1 .. Len(c) + Len(b) : i = index + 1
      BY <2>5
    <2>7. RemoveAt(c \o b, i) = c \o RemoveAt(b, i - Len(c))
      BY <1>1, <2>5, <2>6, RemoveAtConcat
    <2> QED
      BY <1>1, <2>2, <2>4, <2>5, <2>6, <2>7
  <1> QED
    BY <1>3, <1>4

\* Deleting a row of the basket takes that row and no other, for baskets of any size.
THEOREM DeletesOneRow == Spec => DeleteTakesOneRow
  <1>1. TypeOK => [\A index \in 0 .. MaxItems - 1 :
                      RemoveItemAt(index) /\ index < Len(Rows)
                        => Rows' = RemoveAt(Rows, index + 1)]_vars
    BY RemoveTakesRow, CheckoutAssumptions
  <1> QED
    BY <1>1, TypeCorrect, PTL DEF DeleteTakesOneRow

(***************************************************************************)
(* A basket's running price is the sum over its items, and so is the price *)
(* of every order on the server.  Between the two lies the write queue:    *)
(* the strengthening says the same of every order waiting to be sent, for  *)
(* which the basket may have changed, been reset or died since.            *)
(***************************************************************************)

Priced(w) == w.op \in {"save", "update"} => w.doc.price = Total(w.doc.items)

PricesInv ==
    /\ PricedByItems
    /\ \A o \in Owners : \A k \in DOMAIN queue[o] : Priced(queue[o][k])

\* What an item put in, taken out and a reset do to a basket's sum.
LEMMA EmptyTotal == EmptyOrder.price = Total(EmptyOrder.items)
  <1>1. Price \in [Items -> Int]
    BY CheckoutAssumptions
  <1>2. SumAlong(<< >>, Price) = 0
    BY <1>1, SumOfEmpty
  <1> QED
    BY <1>2 DEF SumAlong, Total, EmptyOrder

LEMMA AddItemPriced ==
    ASSUME NEW order \in Order, NEW i \in Items, order.price = Total(order.items)
    PROVE  AddItem(order, i).price = Total(AddItem(order, i).items)
  <1>1. Price \in [Items -> Int] /\ order.items \in Seq(Items)
    BY CheckoutAssumptions DEF Order
  <1>2. SumAlong(Append(order.items, i), Price) = SumAlong(order.items, Price) + Price[i]
    BY <1>1, SumOfAppend
  <1>3. Total(Append(order.items, i)) = Total(order.items) + Price[i]
    BY <1>2 DEF SumAlong, Total
  <1> QED
    BY <1>3 DEF AddItem

LEMMA DropItemPriced ==
    ASSUME NEW order \in Order, NEW at \in Nat, at < Len(order.items),
           order.price = Total(order.items)
    PROVE  DropItem(order, at).price = Total(DropItem(order, at).items)
  <1>1. Price \in [Items -> Int] /\ order.items \in Seq(Items)
    BY CheckoutAssumptions DEF Order
  <1>2. at + 1 \in 1 .. Len(order.items)
    BY <1>1
  <1>3. SumAlong(RemoveAt(order.items, at + 1), Price)
          = SumAlong(order.items, Price) - Price[order.items[at + 1]]
    BY <1>1, <1>2, SumOfRemoveAt
  <1>4. Total(RemoveAt(order.items, at + 1))
          = Total(order.items) - Price[order.items[at + 1]]
    BY <1>3 DEF SumAlong, Total
  <1> QED
    BY <1>4 DEF DropItem

\* The queues stay priced: more priced writes, the oldest gone, all left behind.
LEMMA EnqueuePriced ==
    ASSUME TypeOK, PricesInv, NEW ws \in Seq(Write), Enqueue(ws),
           \A k \in DOMAIN ws : Priced(ws[k]),
           NEW o \in Owners, NEW k \in DOMAIN queue'[o]
    PROVE  Priced(queue'[o][k])
  BY EnqueuedOnly DEF PricesInv

LEMMA AnswerPriced ==
    ASSUME TypeOK, PricesInv, Connected, NEW ok \in BOOLEAN,
           Answer(Head(queue[auth]), ok),
           NEW o \in Owners, NEW k \in DOMAIN queue'[o]
    PROVE  Priced(queue'[o][k])
  <1>1. auth \in Owners /\ queue \in [Owners -> Seq(Write)] /\ queue[auth] # << >>
    BY DEF TypeOK, Connected
  <1>2. queue' = [queue EXCEPT ![auth] = Tail(queue[auth])]
    BY DEF Answer
  <1>3. CASE o = auth
    <2>1. Len(queue[auth]) \in Nat /\ DOMAIN queue[auth] = 1 .. Len(queue[auth])
      BY <1>1
    <2>2. k + 1 \in DOMAIN queue[auth] /\ queue'[o][k] = queue[auth][k + 1]
      BY <1>1, <1>2, <1>3, <2>1
    <2> QED
      BY <1>1, <2>2 DEF PricesInv
  <1>4. CASE o # auth
    <2>1. queue'[o] = queue[o]
      BY <1>1, <1>2, <1>4
    <2> QED
      BY <2>1 DEF PricesInv
  <1> QED
    BY <1>3, <1>4

LEMMA TerminatePriced ==
    ASSUME TypeOK, PricesInv, Terminate
    PROVE  PricesInv'
  <1>1. ASSUME NEW o \in Owners, NEW k \in DOMAIN queue'[o]
        PROVE  Priced(queue'[o][k])
    <2>1. queue'[o] = [j \in DOMAIN queue[o] |-> [queue[o][j] EXCEPT !.live = FALSE]]
      BY DEF Terminate
    <2>2. k \in DOMAIN queue[o] /\ queue'[o][k] = [queue[o][k] EXCEPT !.live = FALSE]
      BY <1>1, <2>1
    <2>3. queue[o][k] \in Write /\ Priced(queue[o][k])
      BY <2>2 DEF TypeOK, PricesInv
    <2>4. queue'[o][k].op = queue[o][k].op
      BY <2>2, <2>3 DEF Write, OrderWrite, HistoryWrite, SignUpWrite
    <2>5. CASE queue[o][k] \in OrderWrite
      <3>1. queue'[o][k].doc = queue[o][k].doc
        BY <2>2, <2>5 DEF OrderWrite
      <3> QED
        BY <2>3, <2>4, <3>1 DEF Priced
    <2>6. CASE queue[o][k] \notin OrderWrite
      BY <2>3, <2>4, <2>6 DEF Priced, Write, HistoryWrite, SignUpWrite
    <2> QED
      BY <2>5, <2>6
  <1>2. UNCHANGED orderDocs
    BY DEF Terminate, server
  <1>3. \A b \in Baskets : orders'[b] = EmptyOrder
    BY DEF Terminate, EmptyOrders
  <1>4. PricedByItems'
    BY <1>2, <1>3, EmptyTotal DEF PricesInv, PricedByItems, Placed
  <1> QED
    BY <1>1, <1>4 DEF PricesInv

LEMMA ApplyPriced ==
    ASSUME TypeOK, PricesInv, Unsent, Apply(NextUnsent)
    PROVE  \A id \in DOMAIN orderDocs' : orderDocs'[id].price = Total(orderDocs'[id].items)
  <1> DEFINE w == NextUnsent
  <1>1. w \in Write /\ ahead + 1 \in DOMAIN queue[auth] /\ auth \in Owners
    BY UnsentIsWrite DEF TypeOK
  <1>2. Priced(w)
    BY <1>1 DEF NextUnsent, PricesInv
  <1>3. CASE w.op \in {"save", "update"}
    <2>1. orderDocs' = Put(orderDocs, w.id, w.doc)
      BY <1>3 DEF Apply
    <2>2. w.doc.price = Total(w.doc.items)
      BY <1>2, <1>3 DEF Priced
    <2> QED
      BY <2>1, <2>2 DEF Put, PricesInv, PricedByItems, Placed
  <1>4. CASE w.op \notin {"save", "update"}
    BY <1>4 DEF Apply, PricesInv, PricedByItems, Placed
  <1> QED
    BY <1>3, <1>4

LEMMA PricesInit == Init => PricesInv
  <1> SUFFICES ASSUME Init PROVE PricesInv
    OBVIOUS
  <1>1. \A b \in Baskets : orders[b] = EmptyOrder
    BY DEF Init, EmptyOrders
  <1>2. Placed = {} /\ \A o \in Owners : DOMAIN queue[o] = {}
    BY DEF Init, Placed
  <1> QED
    BY <1>1, <1>2, EmptyTotal DEF PricesInv, PricedByItems

LEMMA PricesNext ==
    ASSUME TypeOK, PricesInv, [Next]_vars
    PROVE  PricesInv'
  <1> USE DEF session, server
  <1>1. ASSUME NEW b \in Baskets, UNCHANGED <<queue, orderDocs>>, orders' \in [Baskets -> Order],
               \A c \in Baskets : c # b => orders'[c] = orders[c],
               orders'[b].price = Total(orders'[b].items)
        PROVE  PricesInv'
    BY <1>1 DEF PricesInv, PricedByItems, Placed
  <1>2. ASSUME UNCHANGED <<queue, orders, orderDocs>>
        PROVE  PricesInv'
    BY <1>2 DEF PricesInv, PricedByItems, Placed
  <1>3. ASSUME NEW ws \in Seq(Write), Enqueue(ws), \A k \in DOMAIN ws : Priced(ws[k]),
               UNCHANGED orderDocs,
               \A b \in Baskets : /\ orders'[b].price = orders[b].price
                                  /\ orders'[b].items = orders[b].items
        PROVE  PricesInv'
    <2>1. \A o \in Owners : \A k \in DOMAIN queue'[o] : Priced(queue'[o][k])
      BY <1>3, EnqueuePriced
    <2> QED
      BY <1>3, <2>1 DEF PricesInv, PricedByItems, Placed
  <1>4. ASSUME NEW i \in Items, AddToBasket(i)
        PROVE  PricesInv'
    <2>1. BasketOf(i) \in Baskets
      BY DEF BasketOf, Baskets
    <2>2. orders \in [Baskets -> Order]
      BY DEF TypeOK
    <2>3. /\ orders' = [orders EXCEPT ![BasketOf(i)] = AddItem(orders[BasketOf(i)], i)]
          /\ UNCHANGED <<queue, orderDocs>>
      BY <1>4 DEF AddToBasket
    <2>4. orders[BasketOf(i)].price = Total(orders[BasketOf(i)].items)
      BY <2>1 DEF PricesInv, PricedByItems
    <2>5. /\ AddItem(orders[BasketOf(i)], i) \in Order
          /\ AddItem(orders[BasketOf(i)], i).price = Total(AddItem(orders[BasketOf(i)], i).items)
      BY <2>1, <2>2, <2>4, AddItemType, AddItemPriced
    <2> QED
      BY <1>1, <2>1, <2>2, <2>3, <2>5
  <1>5. ASSUME NEW index \in 0 .. MaxItems - 1, RemoveItemAt(index)
        PROVE  PricesInv'
    <2> DEFINE b  == BasketAt(index)
               at == PositionAt(index)
    <2>1. CASE at < Len(orders[b].items)
      <3>1. b \in Baskets /\ orders \in [Baskets -> Order]
        BY DEF BasketAt, Baskets, TypeOK
      <3>2. at \in Nat
        <4>1. CafeRows \in Nat
          BY DEF CafeRows, Baskets, TypeOK, Order
        <4> QED
          BY <4>1, CheckoutAssumptions DEF PositionAt
      <3>3. orders[b].price = Total(orders[b].items)
        BY <3>1 DEF PricesInv, PricedByItems
      <3>4. /\ DropItem(orders[b], at) \in Order
            /\ DropItem(orders[b], at).price = Total(DropItem(orders[b], at).items)
        BY <2>1, <3>1, <3>2, <3>3, DropItemType, DropItemPriced
      <3>5. /\ orders' = [orders EXCEPT ![b] = DropItem(orders[b], at)]
            /\ UNCHANGED <<queue, orderDocs>>
        BY <1>5, <2>1 DEF RemoveItemAt
      <3> QED
        BY <1>1, <3>1, <3>4, <3>5
    <2>2. CASE ~(at < Len(orders[b].items))
      BY <1>5, <2>2, TerminatePriced DEF RemoveItemAt
    <2> QED
      BY <2>1, <2>2
  <1>6. CASE Checkout
    <2>1. \A b \in Baskets, id \in OrderIDs : Priced(OrderWriteTo(b, id))
      BY DEF OrderWriteTo, DataDictionary, Priced, PricesInv, PricedByItems
    <2>2. \A b \in Baskets, id \in OrderIDs : DocumentID(b, id) \in OrderIDs
      BY DEF DocumentID, TypeOK, Order, OrderIDs
    <2>3. PICK ws \in Seq(Write) : Enqueue(ws) /\ \A k \in DOMAIN ws : Priced(ws[k])
      BY <1>6, <2>1, <2>2, CheckoutEnqueues
    <2> QED
      BY <1>3, <1>6, <2>3 DEF Checkout
  <1>7. CASE SignUp /\ ~Terminate
    <2> DEFINE w  == [op |-> "signUp", user |-> auth, ids |-> << >>, live |-> TRUE]
               ws == << w >>
    <2>1. auth \in Users /\ Enqueue(ws) /\ UNCHANGED <<orders, orderDocs>>
      BY <1>7 DEF SignUp, TypeOK, Owners
    <2>2. ws \in Seq(Write)
      BY <2>1 DEF Write, SignUpWrite
    <2>3. \A k \in DOMAIN ws : Priced(ws[k])
      BY DEF Priced
    <2> HIDE DEF ws
    <2> QED
      BY <1>3, <2>1, <2>2, <2>3
  <1>8. CASE SaveReturned /\ ~Terminate
    <2> DEFINE cb  == Head(callbacks)
               b   == cb.write.basket
               id  == SavedID(cb)
               ids == WithOrder(id)
               w   == [op |-> "history", basket |-> b, user |-> uid, ids |-> ids,
                       live |-> TRUE]
               ws  == << w >>
    <2>1. CASE id = NoID
      BY <1>2, <1>8, <2>1 DEF SaveReturned
    <2>2. CASE id # NoID
      <3>1. cb \in Callback /\ cb.write.op = "save"
        BY <1>8, HeadTailProperties DEF SaveReturned, Returned, TypeOK
      <3>2. cb.write \in OrderWrite
        BY <3>1 DEF Callback, Write, HistoryWrite, SignUpWrite
      <3>3. b \in Baskets /\ id \in Nat
        BY <3>2 DEF SavedID, OrderWrite, OrderIDs, TypeOK, Order
      <3>4. /\ uid # NoUser /\ Enqueue(ws) /\ UNCHANGED orderDocs
            /\ orders' = [orders EXCEPT ![b].orderID = id]
        BY <1>8, <2>2 DEF SaveReturned
      <3>5. uid \in Users /\ ids \in Seq(OrderIDs)
        BY <2>2, <3>3, <3>4 DEF WithOrder, TypeOK, Owners, OrderIDs
      <3>6. ws \in Seq(Write)
        BY <3>3, <3>5 DEF Write, HistoryWrite
      <3>7. \A k \in DOMAIN ws : Priced(ws[k])
        BY DEF Priced
      <3>8. ASSUME NEW c \in Baskets
            PROVE  orders'[c].price = orders[c].price /\ orders'[c].items = orders[c].items
        BY <3>3, <3>4 DEF TypeOK, Order
      <3> HIDE DEF ws
      <3> QED
        BY <1>3, <3>4, <3>6, <3>7, <3>8
    <2> QED
      BY <2>1, <2>2
  <1>9. CASE HistoryReturned \/ UpdateReturned
    <2>1. /\ callbacks # << >> /\ Head(callbacks) \in Callback
          /\ Head(callbacks).write.op \in {"history", "update"}
          /\ Reset(Head(callbacks).write.basket) /\ UNCHANGED <<queue, orderDocs>>
      BY <1>9, HeadTailProperties DEF HistoryReturned, UpdateReturned, Returned, TypeOK
    <2>5. Head(callbacks).write \in OrderWrite \cup HistoryWrite
      BY <2>1 DEF Callback, Write, SignUpWrite
    <2>2. Head(callbacks).write.basket \in Baskets
      BY <2>5 DEF OrderWrite, HistoryWrite
    <2>3. orders \in [Baskets -> Order] /\ EmptyOrder \in Order
      BY DEF TypeOK, EmptyOrder, Order
    <2>4. orders' = [orders EXCEPT ![Head(callbacks).write.basket] = EmptyOrder]
      BY <2>1 DEF Reset
    <2> QED
      BY <1>1, <2>1, <2>2, <2>3, <2>4, EmptyTotal
  <1>10. CASE Heard
    <2>1. PICK ok \in BOOLEAN : Answer(Head(queue[auth]), ok)
      BY <1>10 DEF Heard, Acknowledge, Refuse
    <2>2. Connected /\ UNCHANGED <<orders, orderDocs>>
      BY <1>10 DEF Heard, Acknowledge, Refuse, Unsent
    <2>3. \A o \in Owners : \A k \in DOMAIN queue'[o] : Priced(queue'[o][k])
      BY <2>1, <2>2, AnswerPriced
    <2> QED
      BY <2>2, <2>3 DEF PricesInv, PricedByItems, Placed
  <1>11. CASE Commit
    <2>1. Unsent /\ Apply(NextUnsent) /\ UNCHANGED <<orders, queue>>
      BY <1>11 DEF Commit
    <2>2. \A id \in DOMAIN orderDocs' : orderDocs'[id].price = Total(orderDocs'[id].items)
      BY <2>1, ApplyPriced
    <2> QED
      BY <2>1, <2>2 DEF PricesInv, PricedByItems, Placed
  <1>12. CASE SignOut \/ Launch \/ SignUpReturned \/ ConnectionLost \/ UNCHANGED vars
    BY <1>2, <1>12 DEF SignOut, Launch, SignUpReturned, ConnectionLost, vars
  <1>13. ASSUME NEW u \in Users, Authenticate(u)
         PROVE  PricesInv'
    BY <1>2, <1>13 DEF Authenticate
  <1>14. CASE ReadSteps
    BY <1>2, <1>14 DEF ReadSteps, Populate, PopulateFails, ReadEnds
  <1>15. CASE Terminate
    BY <1>15, TerminatePriced
  <1>16. Kill => Terminate
    BY DEF Kill
  <1> QED
    BY <1>4, <1>5, <1>6, <1>7, <1>8, <1>9, <1>10, <1>11, <1>12, <1>13, <1>14, <1>15, <1>16
    DEF Next, UserSteps, Blocks, Answers, Heard

\* Through every item added or deleted, every answer that comes back after the
\* basket was changed, and every death of the process, the price kept beside a
\* basket, and the price in every order sent, is the sum over its items.
THEOREM PriceIsTheSum == Spec => []PricedByItems
  <1>1. Init => TypeOK /\ PricesInv
    BY TypeInit, PricesInit
  <1>2. TypeOK /\ PricesInv /\ [Next]_vars => TypeOK' /\ PricesInv'
    BY TypeNext, PricesNext
  <1>3. PricesInv => PricedByItems
    BY DEF PricesInv
  <1> QED
    BY <1>1, <1>2, <1>3, PTL DEF Spec

(***************************************************************************)
(* The app's view of the Firestore client is that of WriteQueue.  The same *)
(* WriteQueue is implemented by WritePipeline (PromiseProofs): what        *)
(* Checkout assumes of the client is what the client keeps.                *)
(***************************************************************************)

\* The queues as WriteQueue sees them: without the completion blocks.
Queued == [o \in Owners |-> [k \in DOMAIN queue[o] |-> Same(queue[o][k])]]

Sames(q) == [k \in DOMAIN q |-> Same(q[k])]

ClientStep == [Client!Next]_(Client!vars)

\* Without their blocks the writes of a queue are a sequence as long.
LEMMA SamesAreSequence ==
    ASSUME NEW q \in Seq(Write)
    PROVE  /\ Sames(q) \in Seq({Same(w) : w \in Write}) /\ Len(Sames(q)) = Len(q)
           /\ \A k \in 1 .. Len(q) : Sames(q)[k] = Same(q[k])
  <1>1. Sames(q) = [k \in 1 .. Len(q) |-> Same(q[k])]
    BY DEF Sames
  <1>2. \A k \in 1 .. Len(q) : q[k] \in Write
    OBVIOUS
  <1> HIDE DEF Same
  <1> QED
    BY <1>1, <1>2

\* Forgetting the blocks commutes with taking the oldest write ...
LEMMA SamesOfTail ==
    ASSUME NEW q \in Seq(Write), q # << >>
    PROVE  Sames(q) # << >> /\ Sames(Tail(q)) = Tail(Sames(q))
  <1> DEFINE S == {Same(w) : w \in Write}
  <1>1. Tail(q) \in Seq(Write) /\ Len(Tail(q)) = Len(q) - 1 /\ Len(q) \in Nat
        /\ \A k \in 1 .. Len(q) - 1 : Tail(q)[k] = q[k + 1]
    BY HeadTailProperties
  <1>2. /\ Sames(q) \in Seq(S) /\ Len(Sames(q)) = Len(q)
        /\ \A k \in 1 .. Len(q) : Sames(q)[k] = Same(q[k])
    BY SamesAreSequence
  <1>3. /\ Sames(Tail(q)) \in Seq(S) /\ Len(Sames(Tail(q))) = Len(q) - 1
        /\ \A k \in 1 .. Len(q) - 1 : Sames(Tail(q))[k] = Same(Tail(q)[k])
    BY <1>1, SamesAreSequence
  <1> HIDE DEF S, Sames, Same
  <1>4. Len(q) # 0 /\ Sames(q) # << >>
    BY <1>1, <1>2, EmptySeq
  <1>5. /\ Tail(Sames(q)) \in Seq(S) /\ Len(Tail(Sames(q))) = Len(q) - 1
        /\ \A k \in 1 .. Len(q) - 1 : Tail(Sames(q))[k] = Sames(q)[k + 1]
    BY <1>2, <1>4, HeadTailProperties
  <1>6. \A k \in 1 .. Len(q) - 1 : Sames(Tail(q))[k] = Tail(Sames(q))[k]
    BY <1>1, <1>2, <1>3, <1>5
  <1> QED
    BY <1>3, <1>4, <1>5, <1>6, SeqEqual

\* ... and with adding new ones.
LEMMA SamesOfConcat ==
    ASSUME NEW q \in Seq(Write), NEW ws \in Seq(Write), ws # << >>
    PROVE  Client!IsStrictPrefix(Sames(q), Sames(q \o ws))
  <1> DEFINE S == {Same(w) : w \in Write}
  <1>1. /\ q \o ws \in Seq(Write) /\ Len(q \o ws) = Len(q) + Len(ws)
        /\ Len(q) \in Nat /\ Len(ws) \in Nat /\ Len(ws) # 0
        /\ \A k \in 1 .. Len(q) : (q \o ws)[k] = q[k]
    BY ConcatProperties, EmptySeq
  <1>2. /\ Sames(q) \in Seq(S) /\ Len(Sames(q)) = Len(q)
        /\ \A k \in 1 .. Len(q) : Sames(q)[k] = Same(q[k])
    BY SamesAreSequence
  <1>3. /\ Sames(q \o ws) \in Seq(S) /\ Len(Sames(q \o ws)) = Len(q) + Len(ws)
        /\ \A k \in 1 .. Len(q \o ws) : Sames(q \o ws)[k] = Same((q \o ws)[k])
    BY <1>1, SamesAreSequence
  <1> HIDE DEF S, Sames, Same
  <1>4. \A k \in 1 .. Len(q) : Sames(q \o ws)[k] = Sames(q)[k]
    BY <1>1, <1>2, <1>3
  <1>5. PICK s \in Seq(S) : s = Sames(q)
    BY <1>2
  <1>6. PICK t \in Seq(S) : t = Sames(q \o ws)
    BY <1>3
  <1>7. Len(s) <= Len(t) /\ s # t /\ Len(s) \in Nat /\ Len(t) \in Nat
    BY <1>1, <1>2, <1>3, <1>5, <1>6
  <1>8. \A k \in 1 .. Len(s) : s[k] = t[k]
    BY <1>2, <1>4, <1>5, <1>6
  <1>9. SubSeq(s, 1, Len(s)) = SubSeq(t, 1, Len(s))
    <2>1. /\ SubSeq(s, 1, Len(s)) \in Seq(S) /\ Len(SubSeq(s, 1, Len(s))) = Len(s)
          /\ \A k \in 1 .. Len(s) : SubSeq(s, 1, Len(s))[k] = s[k]
      BY <1>7, SubSeqProperties
    <2>2. /\ SubSeq(t, 1, Len(s)) \in Seq(S) /\ Len(SubSeq(t, 1, Len(s))) = Len(s)
          /\ \A k \in 1 .. Len(s) : SubSeq(t, 1, Len(s))[k] = t[k]
      BY <1>7, SubSeqProperties
    <2> QED
      BY <1>8, <2>1, <2>2, SeqEqual
  <1> QED
    BY <1>5, <1>6, <1>7, <1>9 DEF Client!IsStrictPrefix, Client!IsPrefix

\* A queue that grows is an Enqueue.
LEMMA GrowsIsEnqueue ==
    ASSUME TypeOK, NEW ws \in Seq(Write), Enqueue(ws), queue' # queue,
           UNCHANGED <<auth, ahead>>
    PROVE  Client!Enqueue
  <1>1. auth \in Owners /\ queue \in [Owners -> Seq(Write)]
    BY DEF TypeOK
  <1>2. PICK q \in Seq(Write) : q = queue[auth]
    BY <1>1
  <1>3. queue' = [queue EXCEPT ![auth] = q \o ws]
    BY <1>2 DEF Enqueue
  <1>4. ws # << >>
    BY <1>1, <1>2, <1>3, ConcatEmptySeq
  <1>5. \A o \in Owners : queue'[o] = IF o = auth THEN q \o ws ELSE queue[o]
    BY <1>1, <1>3
  <1>6. /\ Queued[auth] = Sames(q) /\ Queued'[auth] = Sames(q \o ws)
        /\ \A o \in Owners \ {auth} : Queued'[o] = Queued[o]
        /\ DOMAIN Queued' = Owners
    BY <1>1, <1>2, <1>5 DEF Queued, Sames
  <1>7. Client!IsStrictPrefix(Queued[auth], Queued'[auth])
    BY <1>4, <1>6, SamesOfConcat
  <1> QED
    BY <1>6, <1>7 DEF Client!Enqueue, Queued

\* The oldest write of the account in use leaves its queue.
LEMMA AnswerIsLeave ==
    ASSUME TypeOK, Connected, NEW ok, Answer(Head(queue[auth]), ok)
    PROVE  Queued[auth] # << >> /\ Queued' = [Queued EXCEPT ![auth] = Tail(@)]
  <1>1. auth \in Owners /\ queue \in [Owners -> Seq(Write)] /\ queue[auth] # << >>
    BY DEF TypeOK, Connected
  <1>2. PICK q \in Seq(Write) : q = queue[auth]
    BY <1>1
  <1>3. queue' = [queue EXCEPT ![auth] = Tail(q)]
    BY <1>2 DEF Answer
  <1>4. \A o \in Owners : queue'[o] = IF o = auth THEN Tail(q) ELSE queue[o]
    BY <1>1, <1>3
  <1>5. Sames(q) # << >> /\ Sames(Tail(q)) = Tail(Sames(q))
    BY <1>1, <1>2, SamesOfTail
  <1>6. Queued[auth] = Sames(q)
    BY <1>1, <1>2 DEF Queued, Sames
  <1>7. Queued' = [Queued EXCEPT ![auth] = Sames(Tail(q))]
    BY <1>4 DEF Queued, Sames
  <1> QED
    BY <1>5, <1>6, <1>7

\* The process ends: blocks are lost, the queues are not, the connection is.
LEMMA TerminateIsReconnect ==
    ASSUME TypeOK, Terminate
    PROVE  Client!Reconnect
  <1>1. auth \in Owners /\ queue \in [Owners -> Seq(Write)]
    BY DEF TypeOK
  <1>2. ASSUME NEW w \in Write
        PROVE  Same([w EXCEPT !.live = FALSE]) = Same(w)
    BY DEF Same, Write, OrderWrite, HistoryWrite, SignUpWrite
  <1>3. queue' = [o \in Owners |->
                    [k \in DOMAIN queue[o] |-> [queue[o][k] EXCEPT !.live = FALSE]]]
    BY DEF Terminate
  <1>4. ASSUME NEW o \in Owners
        PROVE  Queued'[o] = Queued[o]
    <2>1. DOMAIN queue'[o] = DOMAIN queue[o]
      BY <1>3
    <2>2. \A k \in DOMAIN queue[o] : queue[o][k] \in Write
      BY <1>1
    <2>3. \A k \in DOMAIN queue[o] : Same(queue'[o][k]) = Same(queue[o][k])
      BY <1>2, <1>3, <2>2
    <2> QED
      BY <2>1, <2>3 DEF Queued
  <1>5. Queued' = Queued
    BY <1>4 DEF Queued
  <1>6. ahead' = 0 /\ auth' = auth
    BY DEF Terminate
  <1> QED
    BY <1>1, <1>5, <1>6 DEF Client!Reconnect, Queued

\* Every step of the app is one of the promised steps, or none.
LEMMA StepUsesClient == TypeOK /\ [Next]_vars => ClientStep
  <1> SUFFICES ASSUME TypeOK, [Next]_vars PROVE ClientStep
    OBVIOUS
  <1> USE DEF session, server
  <1>0. auth \in Owners /\ ahead \in Nat /\ queue \in [Owners -> Seq(Write)]
    BY DEF TypeOK
  <1>1. CASE UNCHANGED <<queue, auth, ahead>>
    BY <1>1 DEF ClientStep, Client!vars
  <1>2. CASE Terminate
    BY <1>2, TerminateIsReconnect DEF ClientStep, Client!Next
  <1>3. ASSUME NEW ws \in Seq(Write), Enqueue(ws), UNCHANGED <<auth, ahead>>
        PROVE  ClientStep
    BY <1>1, <1>3, GrowsIsEnqueue DEF ClientStep, Client!Next
  <1>4. CASE \/ Checkout
             \/ SignUp /\ ~ Terminate
             \/ SaveReturned /\ ~ Terminate /\ queue' # queue
    <2>1. UNCHANGED <<auth, ahead>>
      BY <1>4 DEF Checkout, SignUp, SaveReturned
    <2>2. \E ws \in Seq(Write) : Enqueue(ws)
      BY <1>4, CheckoutEnqueues, SignUpEnqueues, SaveEnqueues
    <2> QED
      BY <1>3, <2>1, <2>2
  <1>5. CASE SaveReturned /\ ~ Terminate /\ queue' = queue
    <2>1. UNCHANGED <<queue, auth, ahead>>
      BY <1>5 DEF SaveReturned
    <2> QED
      BY <1>1, <2>1
  <1>6. ASSUME queue' = queue, ahead' = 0, auth' \in Owners
        PROVE  ClientStep
    <2>1. Client!Reconnect
      BY <1>6 DEF Client!Reconnect
    <2> QED
      BY <2>1 DEF ClientStep, Client!Next
  <1>7. CASE ConnectionLost \/ \E u \in Users : Authenticate(u)
    <2>1. queue' = queue /\ ahead' = 0 /\ auth' \in Owners
      BY <1>0, <1>7 DEF ConnectionLost, Authenticate, Owners
    <2> QED
      BY <1>6, <2>1
  <1>8. CASE SignOut
    <2>1. queue' = queue /\ auth' \in Owners /\ (ahead' = 0 \/ UNCHANGED <<auth, ahead>>)
      BY <1>0, <1>8 DEF SignOut, Owners
    <2> QED
      BY <1>1, <1>6, <2>1
  <1>9. CASE Commit
    <2>1. /\ ahead < Len(queue[auth]) /\ ahead' = ahead + 1 /\ UNCHANGED <<queue, auth>>
      BY <1>9 DEF Commit, Unsent
    <2>2. Len(Sames(queue[auth])) = Len(queue[auth]) /\ Queued[auth] = Sames(queue[auth])
      BY <1>0, SamesAreSequence DEF Queued, Sames
    <2>3. Client!Commit
      BY <2>1, <2>2 DEF Client!Commit, Queued
    <2> QED
      BY <2>3 DEF ClientStep, Client!Next
  <1>10. CASE Acknowledge
    <2>1. /\ Connected /\ ahead > 0 /\ ahead' = ahead - 1 /\ auth' = auth
          /\ Answer(Head(queue[auth]), TRUE)
      BY <1>10 DEF Acknowledge
    <2>2. Queued' = [Queued EXCEPT ![auth] = Tail(@)]
      BY <2>1, AnswerIsLeave
    <2>3. Client!Hear
      BY <2>1, <2>2 DEF Client!Hear, Client!Leave, Queued
    <2> QED
      BY <2>3 DEF ClientStep, Client!Next
  <1>11. CASE Refuse
    <2>1. /\ Connected /\ ahead' = 0 /\ auth' = auth
          /\ Answer(Head(queue[auth]), FALSE)
      BY <1>11 DEF Refuse, Unsent
    <2>2. Queued[auth] # << >> /\ Queued' = [Queued EXCEPT ![auth] = Tail(@)]
      BY <2>1, AnswerIsLeave
    <2>3. Client!Refuse
      BY <2>1, <2>2 DEF Client!Refuse, Client!Leave, Queued
    <2> QED
      BY <2>3 DEF ClientStep, Client!Next
  <1>12. CASE UNCHANGED vars
    BY <1>1, <1>12 DEF vars
  <1>13. ASSUME NEW index \in 0 .. MaxItems - 1, RemoveItemAt(index)
         PROVE  ClientStep
    <2>1. Terminate \/ UNCHANGED <<queue, auth, ahead>>
      BY <1>13 DEF RemoveItemAt
    <2> QED
      BY <1>1, <1>2, <2>1
  <1>14. ASSUME \/ \E i \in Items : AddToBasket(i)
                \/ Launch \/ HistoryReturned \/ UpdateReturned \/ SignUpReturned
                \/ ReadSteps
         PROVE  ClientStep
    <2>1. UNCHANGED <<queue, auth, ahead>>
      BY <1>14 DEF AddToBasket, Launch, HistoryReturned, UpdateReturned,
                   SignUpReturned, ReadSteps, Populate, PopulateFails, ReadEnds
    <2> QED
      BY <1>1, <2>1
  <1>15. CASE Kill
    BY <1>2, <1>15 DEF Kill
  <1>16. CASE UserSteps
    BY <1>2, <1>4, <1>7, <1>8, <1>13, <1>14, <1>15, <1>16 DEF UserSteps
  <1>17. CASE Blocks
    BY <1>2, <1>4, <1>5, <1>14, <1>17 DEF Blocks
  <1>18. CASE Answers
    BY <1>9, <1>10, <1>11, <1>18 DEF Answers, Heard
  <1> QED
    BY <1>7, <1>12, <1>14, <1>16, <1>17, <1>18 DEF Next

\* Through every tap, sign-out, lost connection and death of the process, the app
\* uses the Firestore client as WriteQueue promises it: nothing that Checkout shows
\* rests on more than that.
THEOREM AssumesOnlyThePromise == Spec => UsesWriteQueue
  <1>1. Init => Client!Init
    <2> SUFFICES ASSUME Init PROVE Client!Init
      OBVIOUS
    <2>1. auth \in Owners /\ ahead = 0
      BY DEF Init, Owners
    <2>2. Queued = [o \in Owners |-> << >>]
      <3>1. queue = [o \in Owners |-> << >>]
        BY DEF Init
      <3>2. \A o \in Owners : Sames(queue[o]) = << >>
        <4>1. << >> \in Seq(Write) /\ Len(<< >>) = 0
          OBVIOUS
        <4>2. Sames(<< >>) = << >>
          BY <4>1, SamesAreSequence, EmptySeq
        <4> QED
          BY <3>1, <4>2
      <3> QED
        BY <3>2 DEF Queued, Sames
    <2> QED
      BY <2>1, <2>2 DEF Client!Init, Queued
  <1> QED
    BY <1>1, TypeCorrect, StepUsesClient, PTL
       DEF Spec, UsesWriteQueue, Client!Spec, ClientStep
=============================================================================
