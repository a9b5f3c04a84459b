------------------------------ MODULE Checkout ------------------------------
(***************************************************************************)
(* The ordering core of the app: the one global `currentUser` with its two *)
(* baskets (User.swift, Order.swift), the screens that decide who is       *)
(* signed in, and the Firestore client through which every order and every *)
(* list of previous orders reaches the server.                             *)
(*                                                                         *)
(* All Swift code runs on the main queue: a step is one handler or one     *)
(* completion block, run to its end.  What interleaves is the blocks: a    *)
(* write only joins the signed-in account's persistent FIFO queue, its     *)
(* answer comes any number of steps later, and the block waiting for it    *)
(* runs later still, on whatever state the user has made in between.  Of   *)
(* the Firestore client this module has what WriteQueue promises;          *)
(* WritePipeline shows how the client keeps it.                            *)
(***************************************************************************)
EXTENDS Integers, Sequences, SequencesExt, FiniteSets

CONSTANTS
    Users,         \* Firebase accounts that may use this device
    NoUser,        \* nil, as a uid and as Auth.auth().currentUser
    Members,       \* accounts that already have a user document
    Items,         \* what can be put in a basket (an orderItem, once built)
    Price,         \* orderItem.price of each, in pence
    Venue,         \* orderItem.location of each
    ReadErrors,    \* may reading the user's document fail?
    Refusals,      \* may the server refuse a write?
    Kills,         \* may the app be killed?
    MaxItems,      \* bound: rows in the two baskets together
    MaxOrders,     \* bound: documents ever created in "orders"
    MaxQueue,      \* bound: writes waiting when the user asks for more
    MaxSignUps     \* bound: sign-up writes waiting or answered at a time

Baskets == {"cafeOrder", "barOrder"}
Venues  == {"Cafe", "Bar", "Buttery", "both"}  \* "both": on every menu
NoID    == 0                       \* orderID = nil
Owners  == Users \cup {NoUser}     \* whose credentials a write is sent with

ASSUME CheckoutAssumptions ==
    /\ NoUser \notin Users
    /\ Members \subseteq Users
    /\ Price \in [Items -> Nat]
    /\ Venue \in [Items -> Venues]
    /\ ReadErrors \in BOOLEAN /\ Refusals \in BOOLEAN /\ Kills \in BOOLEAN
    /\ MaxItems \in Nat /\ MaxOrders \in Nat
    /\ MaxQueue \in Nat /\ MaxSignUps \in Nat

VARIABLES
    stage,           \* the root view controller
    auth,            \* Auth.auth().currentUser, kept across launches
    accounts,        \* accounts Firebase Auth has seen before
    reads,           \* user documents being read, and from which screen
    uid,             \* currentUser.uid
    previousOrders,  \* currentUser.previousOrders
    orders,          \* currentUser.cafeOrder and currentUser.barOrder
    queue,           \* the write queue of each account, kept across launches
    callbacks,       \* completion blocks handed to the main queue
    orderDocs,       \* server: collection "orders"
    userDocs,        \* server: collection "users", its previous_orders
    ahead,           \* writes the server applied and the client awaits
    nextID           \* the next document id

server  == <<orderDocs, userDocs, ahead>>
session == <<stage, auth, accounts, reads, uid>>
vars    == <<session, previousOrders, orders, queue, callbacks, server, nextID>>

-----------------------------------------------------------------------------
(* What the data is *)

OrderIDs == Nat \ {NoID}
Order    == [items : Seq(Items), price : Int, orderID : Nat]
OrderDoc == [items : Seq(Items), price : Int, location : Venues, user : Owners]

OrderWrite   == [op : {"save", "update"}, basket : Baskets, id : OrderIDs,
                 doc : OrderDoc, live : BOOLEAN]
HistoryWrite == [op : {"history"}, basket : Baskets, user : Users,
                 ids : Seq(OrderIDs), live : BOOLEAN]
SignUpWrite  == [op : {"signUp"}, user : Users, ids : {<< >>}, live : BOOLEAN]
Write        == OrderWrite \cup HistoryWrite \cup SignUpWrite
Callback     == [write : Write, ok : BOOLEAN]

Stages == {"launching", "signIn", "signUp", "main", "dead"}
Read   == [user : Users, from : {"launch", "signIn"}]

Put(f, k, v) == [x \in DOMAIN f \cup {k} |-> IF x = k THEN v ELSE f[x]]

-----------------------------------------------------------------------------
(* The two baskets *)

EmptyOrder  == [items |-> << >>, price |-> 0, orderID |-> NoID]
EmptyOrders == [b \in Baskets |-> EmptyOrder]

BasketOf(i) == IF Venue[i] = "Cafe" THEN "cafeOrder" ELSE "barOrder"

AddItem(order, i) ==
    [items   |-> Append(order.items, i),
     price   |-> order.price + Price[i],
     orderID |-> order.orderID]

DropItemKeepsPrice(order, index) ==
    [order EXCEPT !.items = RemoveAt(order.items, index + 1)]

DropItem(order, index) ==
    [items   |-> RemoveAt(order.items, index + 1),
     price   |-> order.price - Price[order.items[index + 1]],
     orderID |-> order.orderID]

\* The rows of the basket screen are the cafe's items, then the bar's.
Rows == orders["cafeOrder"].items \o orders["barOrder"].items

CafeRows == Len(orders["cafeOrder"].items)

BasketAtOffByOne(index) == IF index <= CafeRows THEN "cafeOrder" ELSE "barOrder"

BasketAt(index) == IF index < CafeRows THEN "cafeOrder" ELSE "barOrder"

PositionAt(index) == IF index < CafeRows THEN index ELSE index - CafeRows

\* What is sent: the location is that of the last item looked at.
DataDictionary(order) ==
    [items |-> order.items, price |-> order.price,
     location |-> Venue[Last(order.items)], user |-> uid]

\* What checkout() queues for one basket; `id` is the id of a new document.
OrderWriteTo(b, id) ==
    [op     |-> IF orders[b].orderID = NoID THEN "save" ELSE "update",
     basket |-> b,
     id     |-> id,
     doc    |-> DataDictionary(orders[b]),
     live   |-> TRUE]

DocumentIDUnset(b, id) == orders[b].orderID

DocumentID(b, id) == IF orders[b].orderID = NoID THEN id ELSE orders[b].orderID

OrderWrites(b, id) ==
    IF orders[b].items = << >> THEN << >>
    ELSE << OrderWriteTo(b, DocumentID(b, id)) >>

NewDocs(b) ==
    IF orders[b].items # << >> /\ orders[b].orderID = NoID THEN 1 ELSE 0

-----------------------------------------------------------------------------
(* The Firestore client *)

\* What reading users/u returns: the server's document seen through the writes
\* to it still in the account's queue.  Empty when there is no document.
LocalHistory(u) ==
    LET touching == {k \in DOMAIN queue[u] :
                        /\ queue[u][k].op \in {"history", "signUp"}
                        /\ queue[u][k].user = u}
        latest   == {k \in touching : \A j \in touching : j <= k}
        present  == \/ u \in DOMAIN userDocs
                    \/ \E k \in touching : queue[u][k].op = "signUp"
    IN  IF ~present THEN {}
        ELSE IF touching = {} THEN {userDocs[u]}
        ELSE {queue[u][k].ids : k \in latest}

\* updateData fails on a document that is not there.
Applicable(w) ==
    /\ w.op = "update"  => w.id \in DOMAIN orderDocs
    /\ w.op = "history" => w.user \in DOMAIN userDocs

Apply(w) ==
    /\ orderDocs' = IF w.op \in {"save", "update"}
                    THEN Put(orderDocs, w.id, w.doc) ELSE orderDocs
    /\ userDocs'  = IF w.op \in {"history", "signUp"}
                    THEN Put(userDocs, w.user, w.ids) ELSE userDocs

Enqueue(ws) == queue' = [queue EXCEPT ![auth] = @ \o ws]

AnswerDropsNewest(w, ok) ==
    /\ queue' = [queue EXCEPT ![auth] = Front(@)]
    /\ callbacks' = IF w.live THEN Append(callbacks, [write |-> w, ok |-> ok])
                    ELSE callbacks

Answer(w, ok) ==
    /\ queue' = [queue EXCEPT ![auth] = Tail(@)]
    /\ callbacks' = IF w.live THEN Append(callbacks, [write |-> w, ok |-> ok])
                    ELSE callbacks

Connected == stage # "dead" /\ queue[auth] # << >>

Unsent == Connected /\ ahead < Len(queue[auth])

NextUnsent == queue[auth][ahead + 1]

\* The server applies the next write; several are sent before one is answered.
Commit ==
    /\ Unsent
    /\ Applicable(NextUnsent) /\ Apply(NextUnsent)
    /\ ahead' = ahead + 1
    /\ UNCHANGED <<session, previousOrders, orders, queue, callbacks, nextID>>

\* The client hears that the oldest write was applied.
Acknowledge ==
    /\ Connected /\ ahead > 0
    /\ Answer(Head(queue[auth]), TRUE)
    /\ ahead' = ahead - 1
    /\ UNCHANGED <<session, previousOrders, orders, orderDocs, userDocs, nextID>>

\* The server refuses the next write for good (rules, missing document), and the
\* client gives up the oldest: another one, if answers before it were lost.
Refuse ==
    /\ Unsent
    /\ Refusals \/ ~Applicable(NextUnsent)
    /\ Answer(Head(queue[auth]), FALSE)
    /\ ahead' = 0
    /\ UNCHANGED <<session, previousOrders, orders, orderDocs, userDocs, nextID>>

\* The connection breaks: what the client has not heard of is sent again, so an
\* older write may be applied after a newer one.
ConnectionLost ==
    /\ stage # "dead" /\ ahead > 0
    /\ ahead' = 0
    /\ UNCHANGED <<session, previousOrders, orders, queue, callbacks, orderDocs,
                   userDocs, nextID>>

-----------------------------------------------------------------------------
(* Filling the baskets *)

AddToBasket(i) ==
    /\ stage = "main"
    /\ Len(Rows) < MaxItems
    /\ orders' = [orders EXCEPT ![BasketOf(i)] = AddItem(@, i)]
    /\ UNCHANGED <<session, previousOrders, queue, callbacks, server, nextID>>

\* The process ends, by a trap or from outside: what is in memory is lost; the
\* write queues stay on disk, without their completion blocks.
Terminate ==
    /\ stage' = "dead" /\ uid' = NoUser /\ previousOrders' = << >>
    /\ orders' = EmptyOrders /\ callbacks' = << >> /\ reads' = {}
    /\ queue' = [o \in Owners |->
                   [k \in DOMAIN queue[o] |-> [queue[o][k] EXCEPT !.live = FALSE]]]
    /\ ahead' = 0
    /\ UNCHANGED <<auth, accounts, orderDocs, userDocs, nextID>>

\* The index was fixed when the row was drawn: the baskets may have shrunk.
RemoveItemAt(index) ==
    LET b  == BasketAt(index)
        at == PositionAt(index)
    IN  /\ stage = "main"
        /\ IF at < Len(orders[b].items)
           THEN /\ orders' = [orders EXCEPT ![b] = DropItem(@, at)]
                /\ UNCHANGED <<session, previousOrders, queue, callbacks,
                               server, nextID>>
           ELSE Terminate

\* User.checkout: one write per basket that has items, cafe first.
Checkout ==
    LET barID  == nextID + NewDocs("cafeOrder")
        writes == OrderWrites("cafeOrder", nextID) \o OrderWrites("barOrder", barID)
    IN  /\ stage = "main"
        /\ writes # << >>
        /\ Len(queue[auth]) + Len(callbacks) + Len(writes) <= MaxQueue
        /\ barID + NewDocs("barOrder") <= MaxOrders + 1
        /\ Enqueue(writes)
        /\ nextID' = barID + NewDocs("barOrder")
        /\ UNCHANGED <<session, previousOrders, orders, callbacks, server>>

-----------------------------------------------------------------------------
(* Completion blocks, in the order the answers came *)

Returned(op) == callbacks # << >> /\ Head(callbacks).write.op = op

ResetKeepsID(b) ==
    orders' = [orders EXCEPT ![b] = [EmptyOrder EXCEPT !.orderID = orders[b].orderID]]

Reset(b) == orders' = [orders EXCEPT ![b] = EmptyOrder]

\* The orderID once saveOrder's block has looked at its error.
SavedIDAnyway(cb) == cb.write.id

SavedID(cb) == IF cb.ok THEN cb.write.id ELSE orders[cb.write.basket].orderID

WithOrderForgotten(id) == previousOrders
WithOrderOnly(id)      == << id >>

WithOrder(id) == Append(previousOrders, id)

\* saveOrder's block, then addToPreviousOrders: without an orderID that one
\* returns; without a uid it traps, the id already appended in memory.
SaveReturned ==
    /\ Returned("save")
    /\ LET b   == Head(callbacks).write.basket
           id  == SavedID(Head(callbacks))
           ids == WithOrder(id)
       IN  \/ /\ id = NoID
              /\ callbacks' = Tail(callbacks)
              /\ UNCHANGED <<session, previousOrders, orders, queue, server, nextID>>
           \/ /\ id # NoID /\ uid = NoUser
              /\ Terminate
           \/ /\ id # NoID /\ uid # NoUser
              /\ orders' = [orders EXCEPT ![b].orderID = id]
              /\ previousOrders' = ids
              /\ Enqueue(<< [op |-> "history", basket |-> b, user |-> uid,
                             ids |-> ids, live |-> TRUE] >>)
              /\ callbacks' = Tail(callbacks)
              /\ UNCHANGED <<session, server, nextID>>

\* The blocks of addToPreviousOrders and of updateOrder look at no error.
HistoryReturned ==
    /\ Returned("history")
    /\ Reset(Head(callbacks).write.basket)
    /\ callbacks' = Tail(callbacks)
    /\ UNCHANGED <<session, previousOrders, queue, server, nextID>>

UpdateReturned ==
    /\ Returned("update")
    /\ Reset(Head(callbacks).write.basket)
    /\ callbacks' = Tail(callbacks)
    /\ UNCHANGED <<session, previousOrders, queue, server, nextID>>

\* make's block: whatever the answer, the user is now the one who signed up.
SignUpReturned ==
    /\ Returned("signUp")
    /\ uid' = Head(callbacks).write.user
    /\ stage' = "main"
    /\ callbacks' = Tail(callbacks)
    /\ UNCHANGED <<auth, accounts, reads, previousOrders, orders, queue, server, nextID>>

-----------------------------------------------------------------------------
(* Who is signed in *)

\* scene(_:willConnectTo:)
Launch ==
    /\ stage = "dead"
    /\ IF auth # NoUser
       THEN stage' = "launching" /\ reads' = {[user |-> auth, from |-> "launch"]}
       ELSE stage' = "signIn" /\ UNCHANGED reads
    /\ UNCHANGED <<auth, accounts, uid, previousOrders, orders, queue, callbacks,
                   server, nextID>>

\* Google or Apple signs u in to Firebase: a new account goes to the sign-up
\* page, a known one has its document read first.
Authenticate(u) ==
    /\ stage = "signIn"
    /\ reads = {}
    /\ auth' = u
    /\ accounts' = accounts \cup {u}
    /\ IF u \notin accounts
       THEN stage' = "signUp" /\ UNCHANGED reads
       ELSE reads' = {[user |-> u, from |-> "signIn"]} /\ UNCHANGED stage
    /\ ahead' = 0
    /\ UNCHANGED <<uid, previousOrders, orders, queue, callbacks, orderDocs, userDocs,
                   nextID>>

\* The screen shown when the read is over, from the uid found then.
ScreenAfter(from, id) ==
    IF id # NoUser THEN "main" ELSE IF from = "launch" THEN "signIn" ELSE "signUp"

\* The block of populateAsCurrentUser, with the uid it leaves.
ReadEnds(r, id) ==
    /\ stage # "dead"
    /\ r \in reads
    /\ uid' = id
    /\ stage' = ScreenAfter(r.from, id)
    /\ reads' = reads \ {r}
    /\ UNCHANGED <<auth, accounts, orders, queue, callbacks, server, nextID>>

PopulateKeepsList(r) ==
    /\ ReadEnds(r, r.user)
    /\ LocalHistory(r.user) # {}
    /\ UNCHANGED previousOrders

\* A document was found: populate takes over what it says.
Populate(r) ==
    /\ ReadEnds(r, r.user)
    /\ \E history \in LocalHistory(r.user) : previousOrders' = history

\* No document, or an error: the block goes on with the uid it had.
PopulateFails(r) ==
    /\ ReadErrors \/ LocalHistory(r.user) = {}
    /\ ReadEnds(r, uid)
    /\ UNCHANGED previousOrders

SignUpsPending ==
    Cardinality({k \in DOMAIN queue[auth] :
                    queue[auth][k].op = "signUp" /\ queue[auth][k].live})
      + Cardinality({k \in DOMAIN callbacks : callbacks[k].write.op = "signUp"})

\* make: the whole document is set, so a list of previous orders goes.  It traps
\* when nobody is signed in to Firebase.
SignUp ==
    /\ stage = "signUp"
    /\ \/ auth = NoUser /\ Terminate
       \/ /\ auth # NoUser
          /\ SignUpsPending < MaxSignUps
          /\ Len(queue[auth]) + Len(callbacks) < MaxQueue
          /\ Enqueue(<< [op |-> "signUp", user |-> auth, ids |-> << >>,
                         live |-> TRUE] >>)
          /\ UNCHANGED <<session, previousOrders, orders, callbacks, server, nextID>>

\* signOut: populate(data: [:]) clears who the user is, not the two baskets.
\* Firebase's own sign-out may throw, and then the account stays.
SignOut ==
    /\ stage = "main"
    /\ stage' = "signIn" /\ uid' = NoUser /\ previousOrders' = << >>
    /\ auth' \in {auth, NoUser}
    /\ ahead' = IF auth' = auth THEN ahead ELSE 0
    /\ UNCHANGED <<accounts, reads, orders, queue, callbacks, orderDocs, userDocs,
                   nextID>>

Kill == Kills /\ stage # "dead" /\ Terminate

-----------------------------------------------------------------------------
Init ==
    /\ stage = "dead" /\ auth = NoUser /\ accounts = Members /\ reads = {}
    /\ uid = NoUser /\ previousOrders = << >> /\ orders = EmptyOrders
    /\ queue = [o \in Owners |-> << >>] /\ callbacks = << >>
    /\ orderDocs = << >> /\ userDocs = [u \in Members |-> << >>] /\ ahead = 0
    /\ nextID = 1

UserSteps ==
    \/ \E i \in Items : AddToBasket(i)
    \/ \E index \in 0 .. MaxItems - 1 : RemoveItemAt(index)
    \/ Checkout \/ SignUp \/ SignOut \/ Kill \/ Launch
    \/ \E u \in Users : Authenticate(u)

Blocks == SaveReturned \/ HistoryReturned \/ UpdateReturned \/ SignUpReturned

Heard == Acknowledge \/ Refuse

Answers == Heard \/ Commit

ReadSteps == \E r \in reads : Populate(r) \/ PopulateFails(r)

Next == UserSteps \/ Blocks \/ Answers \/ ConnectionLost \/ ReadSteps

Spec == Init /\ [][Next]_vars

\* The main queue runs what it is given, and a server that can be reached again
\* and again is heard in the end; nothing obliges the user, or the system that
\* kills the app.
Fairness == WF_vars(Blocks) /\ WF_vars(Commit) /\ SF_vars(Heard)

FairSpec == Spec /\ Fairness

-----------------------------------------------------------------------------
(* Properties *)

TypeOK ==
    /\ stage \in Stages /\ auth \in Owners /\ accounts \subseteq Users
    /\ reads \subseteq Read
    /\ uid \in Owners /\ previousOrders \in Seq(OrderIDs)
    /\ orders \in [Baskets -> Order]
    /\ queue \in [Owners -> Seq(Write)]
    /\ callbacks \in Seq(Callback)
    /\ DOMAIN orderDocs \subseteq OrderIDs
    /\ \A id \in DOMAIN orderDocs : orderDocs[id] \in OrderDoc
    /\ DOMAIN userDocs \subseteq Users
    /\ \A u \in DOMAIN userDocs : userDocs[u] \in Seq(OrderIDs)
    /\ ahead \in Nat /\ nextID \in OrderIDs

Placed == DOMAIN orderDocs

\* No list of previous orders, on the server or in memory, names an order that
\* the server does not have: addToPreviousOrders runs only in the block of a
\* save that succeeded, whatever was tapped, refused or killed since.
NoDanglingHistory ==
    /\ \A u \in DOMAIN userDocs : Range(userDocs[u]) \subseteq Placed
    /\ Range(previousOrders) \subseteq Placed

\* The block that will reset basket b is still to come: it waits for the answer
\* to a list of previous orders, or for its turn on the main queue.
ResetPending(b) ==
    \/ \E o \in Owners : \E k \in DOMAIN queue[o] :
          LET w == queue[o][k] IN w.op = "history" /\ w.basket = b /\ w.live
    \/ \E k \in DOMAIN callbacks :
          LET w == callbacks[k].write IN w.op = "history" /\ w.basket = b

\* A basket that carries the id of a saved order (and would therefore overwrite
\* that document) is one whose history write is still on its way, so that its
\* block will reset the basket: no path leaves a sent order behind as a basket
\* that keeps updating an old document.
IdentifiedOrderWillReset ==
    \A b \in Baskets : orders[b].orderID # NoID => ResetPending(b)

Total(s) == FoldLeft(LAMBDA sum, i : Price[i] + sum, 0, s)

\* The running price of a basket, and the price of every order sent, is the sum
\* over its items: addItem, removeItemAt and resetOrder keep the two in step.
PricedByItems ==
    /\ \A b \in Baskets : orders[b].price = Total(orders[b].items)
    /\ \A id \in Placed : orderDocs[id].price = Total(orderDocs[id].items)

\* Deleting row k of the basket takes away row k and nothing else, although the
\* rows are two lists and removeItemAt splits the index between them.
DeleteTakesOneRow ==
    [][\A index \in 0 .. MaxItems - 1 :
          RemoveItemAt(index) /\ index < Len(Rows)
            => Rows' = RemoveAt(Rows, index + 1)]_vars

\* While a user is signed in, what a reader of the user's document would see is
\* an earlier state of the list in memory, so that the next write of the whole
\* array loses nothing.
HistoryIsPrefix ==
    stage = "main" => \A h \in LocalHistory(uid) : IsPrefix(h, previousOrders)

\* The server's two collections are the abstract order book: orders stay, and a
\* list of previous orders is only ever extended or, while a broken connection
\* is made good, cut back, and only names orders that are there.
Book == INSTANCE OrderBook WITH People <- Users, IDs <- 1 .. MaxOrders,
                                placed <- DOMAIN orderDocs, filed <- userDocs
ImplementsOrderBook == Book!Spec

\* What the app sees of the Firestore client is what WriteQueue promises, through
\* every tap, sign-out and death of the process; whether the completion block of
\* a write is still there makes no difference to the queue.
Same(w) == [w EXCEPT !.live = TRUE]
Client == INSTANCE WriteQueue WITH
            Accounts <- Owners, who <- auth, ahead <- ahead,
            pending <- [o \in Owners |-> [k \in DOMAIN queue[o] |-> Same(queue[o][k])]]
UsesWriteQueue == Client!Spec

\* As long as the session lasts, an order the server has accepted comes into the
\* list of previous orders ...
AcceptedOrderIsListed ==
    \A id \in 1 .. MaxOrders :
        (\E k \in DOMAIN callbacks :
            callbacks[k].write.op = "save" /\ callbacks[k].ok /\ callbacks[k].write.id = id)
        ~> (id \in Range(previousOrders) \/ stage # "main")

\* ... and its basket is emptied: the chain save, history, reset is not dropped
\* at any of its early returns.
AcceptedOrderLeavesBasket ==
    \A b \in Baskets :
        (\E k \in DOMAIN callbacks :
            callbacks[k].write.op = "save" /\ callbacks[k].ok /\ callbacks[k].write.basket = b)
        ~> (orders[b] = EmptyOrder \/ stage # "main")

-----------------------------------------------------------------------------
(* What the code's comments and the app's texts say, and the code does not do *)

\* "Ensures that the order is set to the correct location" (Order.swift:146):
\* the location of an order is where each of its items is sold.
OrderGoesToItsLocation ==
    \A id \in Placed : \A k \in DOMAIN orderDocs[id].items :
        Venue[orderDocs[id].items[k]] = orderDocs[id].location

\* "This is a new order" (User.swift:108): a basket is saved as a new order only
\* when no save of it is still unanswered.
UnansweredSave(w, b) == w.op = "save" /\ w.basket = b /\ w.live
NewOrderIsNew ==
    \A o \in Owners : \A b \in Baskets : \A j, k \in DOMAIN queue[o] :
        UnansweredSave(queue[o][j], b) /\ UnansweredSave(queue[o][k], b) => j = k

\* "Order Confirmed" (Main.storyboard:724): the confirmation shown when a basket
\* is reset means that what it held is in an order on the server.
ConfirmedItemsWereSent ==
    [][HistoryReturned \/ UpdateReturned =>
        LET held == orders[Head(callbacks).write.basket].items
        IN  held = << >> \/ \E id \in Placed : orderDocs[id].items = held]_vars

\* "This is a new user" (SignInViewController.swift:126): whoever is set up as a
\* new user has no previous orders to lose.
NewUserHasNoHistory ==
    [][SignUp => LocalHistory(auth) \subseteq {<< >>}]_vars
=============================================================================
