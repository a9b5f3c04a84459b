# A TLA+ model of the QADS Cafe and Bar app

QADS Cafe and Bar is an iOS app with which the members of a college order from the cafe, the bar
and the buttery. Its own code is about 3,200 lines of Swift under
`src/QADS Cafe and Bar/QADS Cafe and Bar/`. It stands on the Firestore client, whose C++ sources are
in the repository, under `src/QADS Cafe and Bar/Pods/FirebaseFirestore/Firestore/core/src/`. The
rest of `Pods/` is other vendored code, and `functions/src/index.ts` is an empty stub. There is no
test suite. Paths of Swift files below are relative to the first directory, paths of C++ files to
the second.

All Swift code runs on the main queue. What makes it hard is that almost nothing it starts is over
when the handler returns. An order is written to Firestore, whose client queues the write on disk,
sends it when it can, and calls a completion block any number of user actions later; that block
starts the next write, and the block of that one empties the basket and shows the confirmation. In
between the user adds, deletes, orders again, switches tabs, signs out, or the process ends. The
client below has a worker queue, the main queue and the network to keep in step, and answers that
carry no name. The models are about those interleavings, on both sides of the client's interface.

## 1. Inventory

| Component | State it keeps | Operations | Hard behaviour | What makes it correct |
|---|---|---|---|---|
| **User and baskets** (`Helpers/User.swift`, `Helpers/Order.swift`) | the global `currentUser`: `uid`, names, `previousOrders`, `cafeOrder`, `barOrder`; each order has `items`, running `price`, `orderID` | `addItem`, `removeItemAt`, `checkout`, `saveOrder`, `updateOrder`, `addToPreviousOrders`, `resetOrder`, `populate`, `make`, `signIn`, `signOut` | a chain of up to three completion blocks per order, each acting on the basket as it is *then*; whole-array write of the history; early returns that drop the completion | prices follow items; nothing in a history that was not placed; histories only grow; a basket that carries the id of a sent order is reset; an accepted order leaves the basket |
| **Firestore write path** (`core/sync_engine.cc`, `local/leveldb_mutation_queue.cc`, `remote/remote_store.cc`, `remote/write_stream.cc`, `remote/stream.cc`) | a mutation queue per user on disk, ids, completion callbacks, the write pipeline, the stream and its timers | write, fill the pipeline, handshake, answer, refuse, back off, idle, restart for another user or network, start again after a crash | three queues; answers without names; ids used again; whole pipeline re-sent; tokens that arrive late | the pipeline is the front of the queue; an answer is about its front; a block hears of its own write, once; opened as the user whose queue it is; every write leaves in the end |
| **Firestore read path** (`core/event_manager.cc`, `core/query_listener.cc`, `core/sync_engine.cc`, `core/view.cc`, `remote/watch_change.cc`, `remote/online_state_tracker.cc`, `remote/remote_store.cc`, `api/`) | registries of listeners, views and targets; requests not yet answered; on-line state with a ten-second timer | `getDocument`, `getDocuments`: listen, first answer, remove | responses to a listen that was given up cross the next one for the same query; the removal is a task of its own; rejections | registries agree; stale responses are told from fresh ones; every read is answered, exactly once |
| **Credentials of the client** (`auth/firebase_credentials_provider_apple.mm`) | token counter, current user | announce a user, get a token | announcements and tokens on two queues | never another user's token |
| **Launch and sign-in screens** (`SceneDelegate.swift`, `Sign In Controllers/`) | root view controller, Firebase Auth's user | launch, Google/Apple sign-in, sign-up, root change | reading the user document decides between tabs and sign-up; an error looks like "no document" | nobody with a history is treated as new; the list in memory extends what the server has |
| **Basket screen** (`BasketViewController`, `OrderItemsCollectionViewCell`, `OrderConfirmationViewController`) | rows as drawn, row index captured by the alert, what is presented | open, delete, order, confirm, dismiss | rows are redrawn in three places only; UIKit ignores `present` on a covered controller | a confirmed delete takes the row seen; the confirmation of an accepted order is shown |
| **Item detail screens** (`Item Detail/`, `class orderItem` in `Order.swift`) | the `orderItem` being built, rows as drawn, `UIStepper` values in reused cells, price on the button | select, step, set quantity, pick allergies, add to basket, cancel | the same fact in four places; reused cells; allergies arriving late | the price follows the choice, rows show it, one choice per type, charged as shown |
| **Venue screens** (`Tab Bar Controllers/`) | `isOpen`, banner text, categories | load, refresh, open item list, sign out | open status read once and used at a later tap | no ordering from a venue known to be closed; every refresh ends |
| **Menu loading** (`Item.swift`, `CategoryList.swift`, `ItemsViewController.swift`) | lists of categories and items | load by location and category | a list is cleared when asked for and filled when the answer comes | each item listed once, in the order of its category |
| **Image loading** (`Helpers/extensions.swift`) | cache, the image wanted by each reused cell | load, set | late downloads for reused cells | a cell never shows another item's image |
| **App delegate**, **layout cells and constants**, **cloud functions stub**, **other Pods** | none that orders or accounts depend on | - | - | - |

How they interact: the venue screens push item lists, whose items open the item screen; *Add to
Basket* appends the built `orderItem` to one of the two baskets of `currentUser`; the basket
screen, which each tab can push, shows both baskets as one list and calls `checkout`; `checkout`
hands blocks to Firestore, and the last block presents the confirmation on the basket screen that
started it. Sign-in, sign-up and sign-out replace the root view controller and change who
`currentUser` is, while blocks of the session before may still be waiting. In the client, the app's
calls become tasks of the worker queue; the worker queue alone touches the engine, the store and the
streams; completion blocks and Auth's announcements cross the main queue.

The hazards of this code, each at its line, are listed in `PROJECT.json`.

## 2. Modules

| Module | What it is | Code |
|---|---|---|
| `Checkout` | the core: `currentUser`, the session, and the client as the app sees it | `User.swift`, `Order.swift`, `SceneDelegate.swift`, sign-in and sign-up |
| `OrderBook` | abstract specification of the two collections on the server | what `checkout` and `addToPreviousOrders` are for |
| `BasketScreen` | the basket screen, composed with all of `Checkout` | `BasketViewController.swift` and its cells |
| `ItemDetail` | the item screen and the construction and pricing of an `orderItem` | `Item Detail/`, `Order.swift` 132-164 and 192-316 |
| `WriteQueue` | abstract specification of what the client promises of writes | the interface between the two halves |
| `WritePipeline` | how a write reaches the server | the write path and the credentials |
| `WatchTargets` | how a read is answered | the read path |
| `Stream` | the states of a gRPC stream, used by both | `remote/stream.cc` |
| `DataLemmas` | sequences, prefixes and running sums, proved | the operators used |
| `CheckoutProofs`, `HistoryProofs`, `ScreenProofs`, `DetailProofs`, `WritePipelineProofs`, `AnswerProofs`, `WatchProofs` | theorems | |
| `MCCheckout`, `MCBasketScreen`, `MCItemDetail`, `MCWritePipeline`, `MCWatchTargets` | constants for TLC | |

`WriteQueue` is where the two halves meet. `Checkout` is shown to use no more of the client than
`WriteQueue` (`UsesWriteQueue`), `WritePipeline` is shown to implement it (`ImplementsWriteQueue`),
and both are theorems.

### Checkout

One action is one handler or one completion block, run to its end.

| Variable | Code |
|---|---|
| `stage` | which root view controller is in the window; `"dead"`: no process |
| `auth`, `accounts` | `Auth.auth().currentUser`, and whether Firebase calls a sign-in new |
| `reads` | calls of `populateAsCurrentUser` not yet answered |
| `uid`, `previousOrders`, `orders` | the fields of `currentUser`; `orders[b].orderID = NoID` is `nil` |
| `queue[o]` | the mutation queue of account `o`; `live` says whether the block waiting for the write still exists |
| `ahead` | how many writes at the front of the queue the server has applied and the client has not heard of |
| `callbacks` | blocks handed to the main queue, with the write and whether it succeeded |
| `orderDocs`, `userDocs`, `nextID` | the server's collections; ids of `addDocument` |

`AddToBasket`, `RemoveItemAt(index)`, `Checkout`, `SignUp`, `SignOut`, `Authenticate`, `Launch` are
the user's handlers. `SaveReturned` is the block of `saveOrder` together with the whole of
`addToPreviousOrders` that it calls; `HistoryReturned` and `UpdateReturned` are the blocks in which
`checkout` resets a basket; `SignUpReturned` is that of `make`; `Populate` and `PopulateFails` are
the block of `populateAsCurrentUser` up to the choice of the next screen. `Commit` (the server applies
the next write it was sent), `Acknowledge` (the client hears that the oldest was applied), `Refuse`
and `ConnectionLost` are the client and the server: several writes are on their way at once, and
what was applied and not heard of is sent and applied again, so that for a while the server may
fall back to an older list. A refusal gives up the oldest write even when an earlier one was
applied and its answer lost, as `WritePipeline` shows the client to do. `Kill` ends the process:
memory and blocks are lost, the queues and Firebase's session are not. Traps of the Swift code
(`self.uid!` after a sign-out, an array index that no longer exists) are steps to `"dead"`.

An *item* is whatever was in the basket row, with its price and location fixed: `ItemDetail` is about
how it got them. A sent document keeps items, price, location and user; the order's note, date and
flags, and the names, are left out, as no property depends on them. A read sees the server's
document through the queued writes (`LocalHistory`).

### OrderBook

`placed` (ids of orders) only grows. `filed` holds the list of each user who has joined: it names
only orders that are placed, and of two lists that follow each other one is the beginning of the
other. It cannot say that a list only grows: a write sent again after a lost answer puts an older
list back until the newer one is sent again too. What never happens is that two lists disagree.

### BasketScreen

Extends `Checkout` with what is on the glass: `at` (the basket or another place in the tabs), `over`
(alert, confirmation being presented, confirmation), `basket` (the controller: not made, pushed in a
tab, or popped), `rows` (as last drawn), `picked` (index captured by the delete alert). Each step of
this screen is at most one step of `Checkout`. The rows are drawn by `viewDidLoad`, by a confirmed
delete, and when a confirmation has been presented; by nothing else. `Present` is UIKit's rule that
`present` is ignored on a controller that is covered or not in the window; for a basket screen in an
unselected tab the model allows both outcomes.

### ItemDetail

The `orderItem` (`item`, `picks`, `quantity`, `price`, `offered`, `chosen`) and four copies of parts
of it: `shown` (each row's tick or count as drawn), `steppers` and `countStepper` (values inside
cells), `label` (price on the button as drawn), `visible` (whether the checkout cell is on the screen,
the condition of `optionTapped`). `Portion` and `ConfigureItems` say what is sent. Money is in pence;
the rounding in `updatePrice` only removes the error of adding `Double`s and does nothing to pence.
A redraw may use the same cell or a new one, whose stepper starts at its minimum.

### WritePipeline

| Variable | Code |
|---|---|
| `signedIn`, `main`, `tokens`, `asked` | FIRAuth's user; announcements and tokens dispatched to the main queue; the provider's `token_counter`; calls of `GetToken` not yet answered |
| `worker` | tasks of the worker queue: a write, another user, a token |
| `user`, `queue`, `nextBatch`, `callbacks` | `SyncEngine::current_user_`, the batches on disk by user, `next_batch_id_`, `mutation_callbacks_` |
| `pipeline`, `stream`, `shaken` | `RemoteStore::write_pipeline_`; the stream's `state_`, `close_count_` and idle timer; `handshake_complete_` |
| `sent`, `answers`, `openedAs`, `refused` | what is on the stream each way, whose token opened it, and the write with which the server ended it |
| `committed`, `told` | for the properties: what the server has applied, and what blocks were told |

Each task, timer, response and block is an action with all it calls: `MutationResult`, say, is
`OnWriteStreamMutationResult` with the removal from disk, the call of the completion block, the
refilling of the pipeline, the batch that joins it being written, and the idle timer if the pipeline
is now empty. `LoadNextBatchId` is the scan of all users' queues, so that ids are used again within one
run of the app, as the code does. `Relaunch` is a crash or kill with the start that follows.
A failing write cancels the read that waits for its answer (`remote/grpc_stream.cc:231`), so a
refusal may be read with up to `LostAnswers` answers before it unread.

### WatchTargets

Every read of the app is one `getDocument` or `getDocuments`: a listener that waits for the server
while that may be online, is given one answer, and is removed.

| Variable | Code |
|---|---|
| `asks`, `main`, `muted`, `told` | reads asked for; answers on the main queue; `AsyncEventListener::muted_`; what the app was given |
| `listeners`, `raised` | `EventManager::queries_`, `QueryListener::raised_initial_event_` |
| `views`, `current`, `cache` | `query_views_by_query_`, `View::current_`, the documents of the local store by version |
| `targets`, `stream`, `tokens`, `tracker` | `listen_targets_`, the watch stream, its calls of `GetToken`, `OnlineStateTracker` |
| `states`, `docs` | `target_states_` with `outstanding_responses_`, `pending_document_updates_` |
| `sent`, `answers`, `serving`, `version` | the stream each way, and the server |
| `since` | for the properties: the server's version when the view was made |

A query stands for its target id, since a query listened to again in one run of the app keeps it.
The server brings a target up to date with its documents, CURRENT if the target is new, and a
snapshot, in one go: the protocol puts no snapshot between a target's first documents and its CURRENT.
The rules reject a query always or never; if they changed their mind a late `Added` would make
`outstanding_responses_` negative, since a rejection forgets the count. The answers of one event are
posted in any order of the queries, and for one query in the order of its reads.

## 3. Runs and what they show

| Run | Instance | Shows |
|---|---|---|
| `orders` | 1 account, 2 items (cafe, bar), 3 rows, 2 orders, all faults on, fairness (776 thousand states) | types, `NoDanglingHistory`, `IdentifiedOrderWillReset`, `PricedByItems`, `DeleteTakesOneRow`, `ImplementsOrderBook`, `AcceptedOrderIsListed`, `AcceptedOrderLeavesBasket` |
| `accounts` | 2 accounts, one still to sign up; 1 row, 2 orders, kills, lost connections (2.9 million) | `HistoryIsPrefix`, `ImplementsOrderBook`, `UsesWriteQueue` across sign-outs, with writes of either account waiting |
| `screen` | 1 account that signs up, 2 rows, 2 orders, refusals, kills (1.1 million) | `ScreenType`, `ImplementsCheckout`, `FreshRowIsDeleted`, `AcceptedOrderIsConfirmed` |
| `detail` | a coffee with a repeatable extra, 2 single extras, 2 sizes; a plain cake | `DetailType`, `PriceFollowsChoices`, `OneChoicePerList`, `RowsShowChoices`, `AddedAtShownPrice` |
| `writes` | 3 writes of 2 users, a pipeline of 2, 1 sign-in, 1 fault, 1 lost answer, fairness (330 thousand) | types, `PipelineIsQueueFront`, `AnswersMatchPipeline`, `AssertionsHold`, `OpenAsCurrentUser`, `BlocksWaitForTheirWrite`, `SuccessMeansCommitted`, `ToldOnce`, `CommitsInOrder`, `ImplementsWriteQueue`, `EveryWriteLeaves` |
| `watch` | 2 reads of 2 queries, one rejected by the rules, 1 change of the data, 1 fault, fairness (850 thousand) | `WatchType`, `AssertionsHold`, `RegistriesAgree`, `OwedIsOnItsWay`, `ServerWillAgree`, `SyncedIsFresh`, `AnsweredOnce`, `NoReadIsForgotten`, `EveryGetAnswered` |
| `location` | a bar and a buttery item | **violated**: an order has one location, that of its last item (`Order.swift:146`) |
| `twice` | order confirmed twice | **violated**: the same basket becomes two new orders (`User.swift:107`) |
| `confirmed` | a basket changed while its save is in flight, or a refused update | **violated**: a basket is reset and confirmed although what it held was not sent (`User.swift:111`) |
| `newuser` | the user document cannot be read | **violated**: a user with a history is sent to sign up, which overwrites it (`SignInViewController.swift:124`) |
| `stale` | a basket screen left in a tab | **violated**: a confirmed delete takes another item than the one drawn (`BasketViewController.swift:99`) |
| `allergies` | the same item twice, once with an allergy | **violated**: allergies are not sent (`Order.swift:142`, against the comment at 203) |

The `findings` in `PROJECT.json` quote what each violated property is taken from.

What the properties of the client are about:

- *Assertions.* `AssertionsHold`, in both halves, states the `HARD_ASSERT`s that end the process where
  they are reached; each depends on what other tasks did before.
- *Answers without names.* `AnswersMatchPipeline` says that what is on its way, both ways, is the
  pipeline in its order; `OwedIsOnItsWay` that the client's count of unanswered requests is what is
  on its way. On them rest `SuccessMeansCommitted`, `ToldOnce` and `SyncedIsFresh`.
- *Registries.* `PipelineIsQueueFront`, `BlocksWaitForTheirWrite`, `RegistriesAgree` and
  `ServerWillAgree` relate copies of one fact that different tasks change.
- *Users.* `OpenAsCurrentUser`: the two guards of the code, `close_count_` and the token counter, are
  each enough for it, so only `close_count_` is needed for `AssertionsHold` and only the counter for
  the proof of `OpenAsCurrentUser`.
- *Endings.* `EveryWriteLeaves` and `EveryGetAnswered`. `NoReadIsForgotten` is what the second rests on
  in every state, and needs no fairness: a read without an answer has its task or its answer in a
  queue, or what will answer it is under way. It fails if a reopened stream does not ask for a token,
  if a broken one is not reopened, or if a target's count is off by one.

**Conditions under which the histories are safe.** `HistoryIsPrefix` and `ImplementsOrderBook` are
checked, and proved, with `ReadErrors = FALSE` and `MaxSignUps = 1`. Neither condition is decoration:
with a read error the `newuser` path rewrites the document, and with two sign-up writes in flight (the
button stays enabled) the answer to the second one puts the user back in the tabs after a sign-out,
with an empty list in memory; TLC finds `HistoryIsPrefix` violated for `MaxSignUps = 2`. `accounts` has
no refusals only to keep it small; `orders` has them.

**`AddedAtShownPrice`** is checked with `KeepsCells = FALSE`: a checkout cell that comes back to the
screen is drawn again. A cell which UIKit has kept or fetched ahead is not, and then the price on the
button is old: TLC finds the property violated with `KeepsCells = TRUE`.

**A comment of the client that holds only in part.** `HandleWriteError` says of the front of the
pipeline that it is the write that was refused (`remote/remote_store.cc:513`). That holds when no
answer is lost (`LostAnswers = 0`). With one lost answer the front may be a write that was applied: it
is reported as refused and given up, which is the truth about the disk but not about the server, and
the write that was refused is sent again. `SuccessMeansCommitted` and `ToldOnce` hold either way; it
is why `Checkout!Refuse` gives up the oldest write whichever was refused.

**Bounds.** `MaxItems`, `MaxOrders`, `MaxQueue`, `MaxSignUps`, `MaxAdded` in the app's models, and
`MaxWrites`, `MaxSwitches`, `MaxFaults`, `MaxGets`, `MaxChanges` in the client's, are constants in
guards of actions of the user, of Auth and of the environment only, so that they never cut off an
answer, a block or a task. Two orders and two pending writes are what it takes for a cafe and a bar
order at once, for an order sent twice, and for a save and an update of the same basket; three rows
give a basket of two items next to one of one, so that the split index of the rows matters. Two
accounts are needed for writes left behind by one and read by the other. One process shows one basket
controller, which is enough for rows to go stale. In `ItemDetail` two single extras and two sizes are
the least for deselection, and a stepper range of 0 to 2 has an inside and both ends. Three writes
over a pipeline of two make it full, so that refilling matters; one switch of users and one fault
meet at any moment. Two reads are enough for a listen to cross the end of the one before.
`kMaxPendingWrites` is 10 in the code; it is a constant of the model and of the proofs. Larger
instances were run by hand and passed: `WritePipeline` with (writes, switches, faults) = (3, 2, 1),
(3, 1, 2) and (2, 2, 1), up to 11 million states; `WatchTargets` with two faults and with three
reads, up to 12 million. No state constraint and no symmetry is used. `writes` and `watch` switch the
deadlock check off, because those systems do stop: when every write and read allowed was made and
answered.

**Fairness.** `Checkout!Fairness` is `WF(Blocks)` (the main queue runs the blocks it was given),
`WF(Commit)` (the server, while it is sent something, applies it or refuses) and `SF(Heard)`: the
connection may break again and again, but it does not break for ever just before each answer.
`ConnectionLost`, the user, `Kill`, `Launch` and reads have no fairness. `BasketScreen` states the same
of its own versions of these steps and adds the end of UIKit's animation. In `WritePipeline` and
`WatchTargets` the queues run what they are given, timers that back off elapse, Auth answers, and the
server answers on a connection that does not fail; nobody has to write, read or sign in, nothing is
asked of the idle timer or the ten-second timer, and faults, which would starve anything, are bounded.
The liveness properties of the app are for a session that lasts (`stage = "main"`) and, for the
confirmation, a user who stays on the screen and opens no alert. `EveryGetAnswered` does not need the
ten-second timer in the model because a stream that is being opened opens or fails; in the code it is
gRPC's keepalive that sees to it.

## 4. What is proved

All for arbitrary sets of accounts, items, rows, prices and queries and any bounds, from the named
assumptions on constants only. Each invariant was checked with TLC before it was proved.

`DataLemmas`. Facts about the operators used: prefixes (pointwise; reflexive, transitive, and two
beginnings of one sequence agree), `RemoveAt`, and the community modules' folds. What a fold over a
sequence or a set returns is shown without an induction over operators: the set of counterexample
lengths has a least element (`WFMin`), which the fold's own equation rules out.

`CheckoutProofs`
- `TypeCorrect`: `Spec => []TypeOK`, inductive.
- `HistoryNeverDangles`: `Spec => []NoDanglingHistory`. Not inductive alone, because a list is on its way
  for a while. `HistoryBacked` says the same of every place an id can be: lists on the server and in
  memory, lists waiting in any queue, ids carried by a basket, and saves answered with success;
  `AheadPlaced` says that a save the server has applied and the client not heard of is placed, which is
  what an answer then reports.
- `SentBasketsReset`: `Spec => []IdentifiedOrderWillReset`. The id is set in the same block that queues
  the list whose block resets the basket; everything that destroys blocks destroys the baskets too.
- `DeletesOneRow`: `Spec => DeleteTakesOneRow`, with the pointwise lemma about `RemoveAt`.
- `PriceIsTheSum`: `Spec => []PricedByItems`. `PricesInv` adds that order writes in the queues, and the
  writes in the blocks, are priced by their items.
- `AssumesOnlyThePromise`: `Spec => UsesWriteQueue`, each step a step of `WriteQueue` or a stutter.

`HistoryProofs`, assuming `~ReadErrors` and `MaxSignUps <= 1`
- `ListsOnlyGrow`: `Spec => []HistoryIsPrefix`. The property is about one list and the list in memory;
  what is inductive is the whole chain: on the server, then in the queue, then in memory, each list the
  beginning of the next (`ChainInv`, `MemoryInv`). A sign-up in the queue breaks the chain, as it
  files an empty list, so that the rest is about sign-ups: one is pending only on the sign-up page, as
  the last write (`SignUpInv`), there is no document of that user yet but its own (`PageInv`), only
  accounts Auth has seen have writes or documents (`OwnInv`), what was applied has found a document
  (`AheadHasDoc`), and `uid`, `auth`, `stage` and the reads agree (`SessionInv`).
- `KeepsTheOrderBook`: `Spec => ImplementsOrderBook`. A list that is applied and the list on the server
  are both beginnings of the latest list waiting, so one begins the other; `HistoryBacked` gives that
  its orders are placed; and `IdsInv` that ids are those given out.

`ScreenProofs`
- `ScreenImplements`: `ScreenSpec => Spec` of `Checkout`, and with it every invariant above.
- `DeletesTheRowSeen`: `FreshRowIsDeleted`, and `ScreenTypes`, from `ScreenInv`: at most `MaxItems` rows are
  drawn, and while the alert is open the row it captured is one of those drawn.

`DetailProofs`
- `OneChoice`, `RowsShow`: from `RowsInv` (types, one choice per list, rows drawn as chosen).
  `SwitchKeepsOne` is about `switchSelectedTo`: it leaves at most one row of the list chosen, and
  changes only rows whose indexes it returns.
- `PriceIsOfTheChoices`, `DetailTypes`: from `DetailInv`, with the lemmas about sums.
- `ShownPriceIsCharged`: assuming `~KeepsCells`, from `ButtonInv` (while the cell is on the screen its
  label is the price).

`WritePipelineProofs`
- `TypeCorrect` and `PipelineIsFront`: `Spec => []TypeOK` and `Spec => []PipelineIsQueueFront`, from
  `QueueInv`, which adds that ids ascend along every queue and that the next one is above them all.
  Without it `FillWritePipeline`, which asks for the batch after the last id in the pipeline, could
  skip a write or take one twice (`NewFollowsPipeline`).
- `BlocksFindTheirWrite`: `Spec => []BlocksWaitForTheirWrite`, although ids are used again.
- `OpenedAsTheCurrentUser`: `Spec => []OpenAsCurrentUser`, from `TokenInv`. It follows a token on its way
  through Auth, the main queue and the worker's queue: one in the worker's queue is of whom the worker
  serves when it comes to it (`TokensInTurn`); one that the counter will let pass is of whom the worker
  will serve last (`AskedForLast`, `AnsweredForLast`); and who is signed in is known to that queue or
  announced on the main queue (`SignedInIsAnnounced`). The stream's close count is never used.

`AnswerProofs`
- `AnswersMatch`: `Spec => []AnswersMatchPipeline`, from `AnswerInv` (that property, and that a stream
  marked idle is open with an empty pipeline).
- `NoAssertionFails`: `Spec => []AssertionsHold`. For the token that finds its stream starting,
  `StartInv` says that of all the tokens on their way at most one is of the stream's latest start.
- `SuccessIsCommitted`: `Spec => []SuccessMeansCommitted`, through `AnswersCommitted`.
- `ToldOnceOnly`: `Spec => []ToldOnce`, from `OnceInv`: a write waits for the worker once, is in one
  queue once, or has left (`WaitsOnce`, `StoredOnce`, `WaitsOrStored`), and what a block was told of has
  left (`ToldIsGone`).
- `CommitsFollowQueue`: `Spec => CommitsInOrder`. What the server applies is the next of the pipeline
  (`CommitIsNext`); `StoredOnce` gives its place in the queue, and `AnswersCommitted` those before it.
- `KeepsItsPromise`: `Spec => ImplementsWriteQueue`. With `AssumesOnlyThePromise`, the `WriteQueue` that
  the client keeps is the one the app's model relies on.

`WatchProofs`, for any finite set of queries
- `WatchTypes`: `Spec => []WatchType`, from `WatchInv`: types, and every task and answer is of a read that
  was asked for. `ReadsStep` sums the 24 actions up in the six things a step can do to the reads; what
  follows is proved of those.
- `AnsweredAtMostOnce`: `Spec => []AnsweredOnce`, from `OnceInv`: a read whose task to listen waits was not
  touched (`ListensFirst`); an error on its way is the last thing posted to its read (`ErrorsLast`); and
  a read that was told is muted, or was told an error after which nothing comes (`ToldLast`).
- `NoAssertionFails`: `Spec => []AssertionsHold`, from `TokensInv` (at most one token on its way is of the
  stream as it is, and then the stream is starting) and `HealthInv` (idle timer, ten-second timer, online
  state and stream).
- `RegistriesHold`: `Spec => []RegistriesAgree`, from these and `AnsweredWillGo`.
- `OwedIsCounted`: `Spec => []OwedIsOnItsWay`, and `ServerAgrees`: `Spec => []ServerWillAgree`, from
  `StreamInv`. Neither is inductive alone. When a request about a query is taken by the server, the
  *next* request about it must still say what the client wants, so that `Agrees` speaks of the last one
  on its way, or of the server if there is none; a count can only be of what is on its way if a stream
  that is down has nothing on its way and no counts (`BareWhenDown`); and a rejection, which forgets the
  count, is only read of a query that is forbidden (`DecidedInv`). `StreamWays` sums up what a step can
  do to the stream. What is about a query is a set of places in a sequence (`About`), and how its
  cardinality changes when something is put at the end or the head is taken is shown once (`AboutMore`,
  `AboutLess`), the latter with a bijection.
- `SyncedReadsAreFresh`: `Spec => []SyncedIsFresh`, from `FreshInv`, on top of the two before. The
  property is of what the app was told; the invariant follows documents to it: those the server sends are
  no older than the view, as the view was made before (`since[q] <= version[q]`); on the stream, a
  document after the last answer to a request is fresh, and so is the one just before a mark of being
  current (`AnswersFresh`); what a counting target has changed is fresh, in the cache or about to go
  there (`HandFresh`); so is what a current view has in the cache. `OwedIsOnItsWay` is what makes it
  go through: a message that counts is one that no answer to a request follows.
- `NoReadForgotten`: `Spec => []NoReadIsForgotten`, from `UnderWayInv`, on top of all of the above. It has
  four parts. `Accounted`: a read that was asked for has its task, was replied to, or is listened to and
  was not raised; an answer on the main queue that is dropped is of a read that was told before
  (`MutedGot`). `TokenInv`: a stream that is starting has its token asked for or in the worker's queue.
  `WaitInv`: who listens and was not raised listens to a query that is not current, and the client does
  not believe it is offline, so that a later snapshot or broadcast will raise it. `SyncInv`: on an open
  stream each target that is not forbidden is in sync for good (`Synced`, which asks that the ten-second
  timer is off, as its broadcast takes the mark away) or will be (`ToBeSynced`). That a mark read at a
  moment when something is owed could be wasted is the danger; `StreamInv` rules it out. It is the
  safety half of `EveryGetAnswered`; that what is under way arrives is left to fairness and to TLC.

Only model-checked: liveness (`AcceptedOrderIsListed`, `AcceptedOrderLeavesBasket`,
`AcceptedOrderIsConfirmed`, `EveryWriteLeaves`, `EveryGetAnswered`), which is out of the prover's reach.
Every invariant and every action property that a passing run checks, and every refinement, is proved.

## 5. What is not modelled

*The app.* Venue screens: `isOpen`, banner and refresh show what was last read and change no state
that orders or accounts share; only their sign-out is modelled. Menu loading: each list is a query read
once for the screen that shows it. Image loading: a cache of its own; the late download for a reused
cell (`Helpers/extensions.swift:57`) stays a hazard without a property. The order's note (its text
field is commented out) and constant fields; push-message topics; errors of Google and Firebase
sign-in, which end the process; a second device of the same user, so the histories are proved for one;
rows drawn late by scrolling, and a second basket controller in another tab; the table of an options
cell reused for another list; the out-of-stock label, which does not stop an item from being added.
That sign-out leaves the baskets (`User.swift:168`) is in the model, but no text says whose a basket is,
so that no property is stated.

*The client.* What the app never calls: `disableNetwork`, `waitForPendingWrites`, transactions, batches
of several documents, bundles, persistent listeners. Malformed responses. In the read path limbo
documents, existence filters, resets of a target by the server, events from local writes and resume
tokens; views are versions of a query's documents. In the write path the stream token's contents, which
the client keeps and the server does not check here. A write that the process loses because it is
killed before the worker queue runs it was never promised: `Checkout` does not tell the two moments
apart. The bodies of Firebase Auth, gRPC, leveldb and the rest of `Pods/` (BoringSSL, abseil,
GoogleSignIn and others) are third-party code below the interfaces modelled, and so are the other
parts of Firestore, such as indexing, serialisation and the query engine.

*Share of the code.* `Pods/` makes up almost all of the repository's 4480 files. The definitions of
the models cover the app's own order, basket, item and sign-in code, and the control flow of the
client's write and read paths; against all vendored C and C++ that is a small share.

## 6. What is left

1. `ImageLoader`: cells reused while downloads are in flight; `Menu`: open status, refresh and late
   results of one venue screen.
2. Two devices of one account over one server, composing two clients: which orders a history may lose.
3. In `WatchTargets` targets that the server resets, and rules that change their mind.

To check: `tlc -config MCCheckout_orders.cfg MCCheckout`, and the same for the other configurations;
`tlapm` on each of the proof modules.
