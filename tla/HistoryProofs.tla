---------------------------- MODULE HistoryProofs ----------------------------
(***************************************************************************)
(* Theorems about the lists of previous orders in Checkout: when reading a *)
(* user's document does not fail, and no second sign-up is sent before the *)
(* first is answered, no list of previous orders ever loses one, and the   *)
(* server's two collections are the abstract order book.                   *)
(***************************************************************************)
EXTENDS CheckoutProofs

(***************************************************************************)
(* Who is signed in                                                        *)
(***************************************************************************)

\* Outside the tabs nobody is the current user, and a read belongs to the screen
\* that started it.
SessionInv ==
    /\ stage = "main" => uid = auth /\ auth # NoUser
    /\ stage # "main" => uid = NoUser /\ previousOrders = << >>
    /\ \A r \in reads :
          /\ r.user = auth
          /\ stage = IF r.from = "launch" THEN "launching" ELSE "signIn"
    /\ stage = "signUp" => auth # NoUser
    /\ auth # NoUser => auth \in accounts

\* A sign-up that somebody waits for is the last write of the queue, and its
\* block is run on the sign-up page.
SignUpInv ==
    /\ \A o \in Owners : \A k \in DOMAIN queue[o] :
          queue[o][k].op = "signUp" /\ queue[o][k].live
            => stage = "signUp" /\ o = auth /\ k = Len(queue[o])
    /\ \A k \in DOMAIN callbacks :
          callbacks[k].write.op = "signUp"
            => stage = "signUp" /\ callbacks[k].write.user = auth /\ queue[auth] = << >>
    /\ \A j, k \in DOMAIN callbacks :
          callbacks[j].write.op = "signUp" /\ callbacks[k].write.op = "signUp" => j = k

(***************************************************************************)
(* The chain                                                               *)
(***************************************************************************)

Touches(w) == w.op \in {"history", "signUp"}

\* No sign-up comes after the write at k.
Survives(q, k) == \A j \in DOMAIN q : j > k => q[j].op # "signUp"

Latest(q, k) == Touches(q[k]) /\ \A j \in DOMAIN q : Touches(q[j]) => j <= k

OwnInv ==
    /\ DOMAIN userDocs \subseteq accounts
    /\ \A o \in Owners : queue[o] # << >> => o \in accounts
    /\ \A o \in Owners : \A k \in DOMAIN queue[o] :
          Touches(queue[o][k]) => queue[o][k].user = o

\* The lists of one queue grow, from the sign-up on ...
QueueChained(q) ==
    /\ \A j, k \in DOMAIN q : q[j].op = "signUp" /\ q[k].op = "signUp" => j = k
    /\ \A j, k \in DOMAIN q :
          j < k /\ Touches(q[j]) /\ Touches(q[k]) /\ Survives(q, j)
            => IsPrefix(q[j].ids, q[k].ids)

\* ... and the document, if there is one, does not go beyond the latest.
DocChained(q, doc) ==
    /\ \A k \in DOMAIN q : q[k].op = "history" => Survives(q, k)
    /\ \A k \in DOMAIN q : Latest(q, k) => IsPrefix(doc, q[k].ids)

ChainInv ==
    \A u \in Users :
        /\ QueueChained(queue[u])
        /\ u \in DOMAIN userDocs => DocChained(queue[u], userDocs[u])

\* What is applied and not heard of has found, or made, a document.
AheadHasDoc ==
    \A k \in 1 .. ahead : Touches(queue[auth][k]) => auth \in DOMAIN userDocs

\* The list in memory is the end of the chain.
MemoryInv ==
    stage = "main" =>
        /\ \A k \in DOMAIN queue[auth] :
              Touches(queue[auth][k]) /\ Survives(queue[auth], k)
                => IsPrefix(queue[auth][k].ids, previousOrders)
        /\ auth \in DOMAIN userDocs => IsPrefix(userDocs[auth], previousOrders)

\* On the sign-up page there is no document but that of the sign-up under way.
PageInv ==
    stage = "signUp" =>
        /\ \A k \in DOMAIN queue[auth] : queue[auth][k].op = "signUp" => queue[auth][k].live
        /\ auth \in DOMAIN userDocs =>
              /\ userDocs[auth] = << >>
              /\ \/ \E k \in DOMAIN queue[auth] : queue[auth][k].op = "signUp"
                 \/ \E k \in DOMAIN callbacks : callbacks[k].write.op = "signUp"

HistoryInv ==
    /\ TypeOK /\ AheadPlaced
    /\ SessionInv /\ SignUpInv /\ OwnInv /\ ChainInv /\ AheadHasDoc /\ MemoryInv /\ PageInv

(***************************************************************************)
(* What becomes of a chain when writes join and leave the queue            *)
(***************************************************************************)

\* What is left of a chain when the oldest write goes.
LEMMA TailWrites ==
    ASSUME NEW q \in Seq(Write), q # << >>
    PROVE  /\ Tail(q) \in Seq(Write)
           /\ \A k \in DOMAIN Tail(q) : k + 1 \in DOMAIN q /\ Tail(q)[k] = q[k + 1]
           /\ \A k \in DOMAIN q : k > 1 => k - 1 \in DOMAIN Tail(q) /\ Tail(q)[k - 1] = q[k]
  <1>1. PICK n \in Nat : n = Len(q) /\ n # 0 /\ DOMAIN q = 1 .. n
    OBVIOUS
  <1>2. Tail(q) \in Seq(Write) /\ Len(Tail(q)) = n - 1
    BY <1>1
  <1>3. DOMAIN Tail(q) = 1 .. n - 1
    BY <1>1, <1>2
  <1>4. \A k \in 1 .. n - 1 : Tail(q)[k] = q[k + 1]
    BY <1>1
  <1>5. \A k \in 2 .. n : k - 1 \in 1 .. n - 1 /\ (k - 1) + 1 = k
    BY <1>1
  <1> QED
    BY <1>1, <1>2, <1>3, <1>4, <1>5

\* Taking the oldest write away does not change which of the others survive.
LEMMA SurvivesTail ==
    ASSUME NEW q \in Seq(Write), q # << >>, NEW k \in DOMAIN Tail(q)
    PROVE  /\ k \in Int /\ k + 1 \in DOMAIN q /\ Tail(q)[k] = q[k + 1]
           /\ Survives(Tail(q), k) => Survives(q, k + 1)
           /\ Survives(q, k + 1) => Survives(Tail(q), k)
           /\ Latest(Tail(q), k) => Latest(q, k + 1)
  <1> DEFINE t == Tail(q)
  <1>1. /\ t \in Seq(Write)
        /\ \A j \in DOMAIN t : j + 1 \in DOMAIN q /\ t[j] = q[j + 1]
        /\ \A j \in DOMAIN q : j > 1 => j - 1 \in DOMAIN t /\ t[j - 1] = q[j]
    BY TailWrites
  <1>2. /\ \A j \in DOMAIN t : j \in Nat /\ j >= 1
        /\ \A j \in DOMAIN q : j \in Nat /\ j >= 1
    BY <1>1
  <1> HIDE DEF t
  <1>3. k \in DOMAIN t
    BY DEF t
  <1>4. Survives(t, k) => Survives(q, k + 1)
    <2> SUFFICES ASSUME Survives(t, k), NEW j \in DOMAIN q, j > k + 1
                 PROVE  q[j].op # "signUp"
      BY DEF Survives
    <2>1. j > 1 /\ j - 1 > k
      BY <1>2, <1>3
    <2>2. j - 1 \in DOMAIN t /\ t[j - 1] = q[j]
      BY <1>1, <2>1
    <2> QED
      BY <2>1, <2>2 DEF Survives
  <1>5. Survives(q, k + 1) => Survives(t, k)
    BY <1>1, <1>2, <1>3 DEF Survives
  <1>6. ASSUME Latest(t, k), NEW j \in DOMAIN q, Touches(q[j])
        PROVE  j <= k + 1
    <2>1. CASE j > 1
      <3>1. j - 1 \in DOMAIN t /\ Touches(t[j - 1])
        BY <1>1, <1>6, <2>1
      <3>2. j - 1 <= k
        BY <1>6, <3>1 DEF Latest
      <3> QED
        BY <1>2, <1>3, <3>2
    <2>2. CASE ~(j > 1)
      BY <1>2, <1>3, <2>2
    <2> QED
      BY <2>1, <2>2
  <1>7. Latest(t, k) => Latest(q, k + 1)
    BY <1>1, <1>3, <1>6 DEF Latest
  <1> QED
    BY <1>1, <1>2, <1>3, <1>4, <1>5, <1>7 DEF t

\* A chain without its oldest write is a chain, and so is the document with it.
LEMMA ChainOfTail ==
    ASSUME NEW q \in Seq(Write), q # << >>, QueueChained(q)
    PROVE  /\ QueueChained(Tail(q))
           /\ \A doc : DocChained(q, doc) => DocChained(Tail(q), doc)
  <1>1. ASSUME NEW k \in DOMAIN Tail(q)
        PROVE  /\ k \in Int /\ k + 1 \in DOMAIN q /\ Tail(q)[k] = q[k + 1]
               /\ Survives(Tail(q), k) => Survives(q, k + 1)
               /\ Survives(q, k + 1) => Survives(Tail(q), k)
               /\ Latest(Tail(q), k) => Latest(q, k + 1)
    BY <1>1, SurvivesTail
  <1>2. ASSUME NEW j \in DOMAIN Tail(q), NEW k \in DOMAIN Tail(q)
        PROVE  /\ (j < k <=> j + 1 < k + 1) /\ (j = k <=> j + 1 = k + 1)
    BY <1>1
  <1>3. QueueChained(Tail(q))
    BY <1>1, <1>2 DEF QueueChained
  <1>4. ASSUME NEW doc, DocChained(q, doc)
        PROVE  DocChained(Tail(q), doc)
    BY <1>1, <1>4 DEF DocChained
  <1> QED
    BY <1>3, <1>4

\* A chain looks at what the writes do and at their lists, not at who waits.
LEMMA ChainOfSame ==
    ASSUME NEW p, NEW q, DOMAIN p = DOMAIN q,
           \A k \in DOMAIN q : p[k].op = q[k].op /\ (Touches(q[k]) => p[k].ids = q[k].ids)
    PROVE  /\ QueueChained(q) => QueueChained(p)
           /\ \A doc : DocChained(q, doc) => DocChained(p, doc)
  <1>1. \A k \in DOMAIN q : /\ Survives(p, k) <=> Survives(q, k)
                            /\ Touches(p[k]) <=> Touches(q[k])
    BY DEF Survives, Touches
  <1>2. \A k \in DOMAIN q : Latest(p, k) <=> Latest(q, k)
    BY <1>1 DEF Latest
  <1>3. QueueChained(q) => QueueChained(p)
    BY <1>1 DEF QueueChained
  <1>4. \A k \in DOMAIN q : Latest(q, k) => Touches(q[k])
    BY DEF Latest
  <1>5. ASSUME NEW doc, DocChained(q, doc)
        PROVE  DocChained(p, doc)
    BY <1>1, <1>2, <1>4, <1>5 DEF DocChained
  <1> QED
    BY <1>3, <1>5

\* Writes of orders, at the end, make no difference.
Lengthens(p, q) ==
    /\ \A k \in DOMAIN q : k \in DOMAIN p /\ p[k] = q[k]
    /\ \A k \in DOMAIN p : k \in DOMAIN q \/ \A j \in DOMAIN q : j < k

\* Order writes join a chain without a mark on it.
LEMMA ChainWithOrders ==
    ASSUME NEW p \in Seq(Write), NEW q \in Seq(Write), Lengthens(p, q),
           \A k \in DOMAIN p : k \in DOMAIN q \/ ~Touches(p[k])
    PROVE  /\ \A k \in DOMAIN q : Survives(p, k) <=> Survives(q, k)
           /\ QueueChained(q) => QueueChained(p)
           /\ \A doc : DocChained(q, doc) => DocChained(p, doc)
  <1>1. \A k \in DOMAIN q : Survives(p, k) <=> Survives(q, k)
    BY DEF Survives, Lengthens, Touches
  <1>2. \A k \in DOMAIN p : Touches(p[k]) => k \in DOMAIN q /\ p[k] = q[k]
    BY DEF Lengthens
  <1>3. \A k \in DOMAIN p : Latest(p, k) => k \in DOMAIN q /\ Latest(q, k)
    BY <1>2 DEF Latest, Lengthens
  <1>4. \A k \in DOMAIN p : p[k].op \in {"history", "signUp"} => Touches(p[k])
    BY DEF Touches
  <1>5. QueueChained(q) => QueueChained(p)
    BY <1>1, <1>2, <1>4 DEF QueueChained
  <1>6. ASSUME NEW doc, DocChained(q, doc)
        PROVE  DocChained(p, doc)
    <2>1. \A k \in DOMAIN p : p[k].op = "history" => Survives(p, k)
      BY <1>1, <1>2, <1>4, <1>6 DEF DocChained
    <2>2. \A k \in DOMAIN p : Latest(p, k) => k \in DOMAIN q /\ Latest(q, k) /\ p[k] = q[k]
      BY <1>2, <1>3 DEF Latest
    <2> QED
      BY <1>6, <2>1, <2>2 DEF DocChained
  <1> QED
    BY <1>1, <1>5, <1>6

\* A list that goes beyond all that survive prolongs the chain.
LEMMA ChainWithHistory ==
    ASSUME NEW p \in Seq(Write), NEW q \in Seq(Write), Lengthens(p, q), QueueChained(q),
           NEW n \in DOMAIN p, n \notin DOMAIN q, \A k \in DOMAIN p : k \in DOMAIN q \/ k = n,
           p[n].op = "history",
           \A k \in DOMAIN q : Touches(q[k]) /\ Survives(q, k) => IsPrefix(q[k].ids, p[n].ids)
    PROVE  /\ QueueChained(p)
           /\ \A doc : DocChained(q, doc) /\ IsPrefix(doc, p[n].ids) => DocChained(p, doc)
  <1>0. n \in Nat /\ \A k \in DOMAIN q : k \in Nat /\ k < n /\ k \in DOMAIN p /\ p[k] = q[k]
    BY DEF Lengthens
  <1>1. \A k \in DOMAIN q : Survives(p, k) <=> Survives(q, k)
    BY <1>0 DEF Survives
  <1>2. Touches(p[n]) /\ Survives(p, n)
    BY <1>0 DEF Survives, Touches
  <1>3. \A k \in DOMAIN p : Latest(p, k) => k = n
    BY <1>0, <1>2 DEF Latest
  <1>4. QueueChained(p)
    <2>1. ASSUME NEW j \in DOMAIN p, NEW k \in DOMAIN p,
                 p[j].op = "signUp", p[k].op = "signUp"
          PROVE  j = k
      BY <1>0, <2>1 DEF QueueChained
    <2>2. ASSUME NEW j \in DOMAIN p, NEW k \in DOMAIN p,
                 j < k, Touches(p[j]), Touches(p[k]), Survives(p, j)
          PROVE  IsPrefix(p[j].ids, p[k].ids)
      <3>1. j \in DOMAIN q
        BY <1>0, <2>2
      <3>2. CASE k = n
        BY <1>0, <1>1, <2>2, <3>1, <3>2
      <3>3. CASE k # n
        BY <1>0, <1>1, <2>2, <3>1, <3>3 DEF QueueChained
      <3> QED
        BY <3>2, <3>3
    <2> QED
      BY <2>1, <2>2 DEF QueueChained
  <1>5. ASSUME NEW doc, DocChained(q, doc), IsPrefix(doc, p[n].ids)
        PROVE  DocChained(p, doc)
    <2>1. \A k \in DOMAIN p : p[k].op = "history" => Survives(p, k)
      BY <1>0, <1>1, <1>2, <1>5 DEF DocChained
    <2> QED
      BY <1>3, <1>5, <2>1 DEF DocChained
  <1> QED
    BY <1>4, <1>5

\* A sign-up starts another chain, if there is neither a sign-up nor a document.
LEMMA ChainWithSignUp ==
    ASSUME NEW p \in Seq(Write), NEW q \in Seq(Write), Lengthens(p, q), QueueChained(q),
           NEW n \in DOMAIN p, n \notin DOMAIN q, \A k \in DOMAIN p : k \in DOMAIN q \/ k = n,
           p[n].op = "signUp", \A k \in DOMAIN q : q[k].op # "signUp"
    PROVE  QueueChained(p)
  <1>0. n \in Nat /\ \A k \in DOMAIN q : k \in Nat /\ k < n /\ k \in DOMAIN p /\ p[k] = q[k]
    BY DEF Lengthens
  <1>1. \A k \in DOMAIN q : ~Survives(p, k)
    BY <1>0 DEF Survives
  <1>2. \A j, k \in DOMAIN p : j < k => j \in DOMAIN q
    BY <1>0
  <1> QED
    BY <1>0, <1>1, <1>2 DEF QueueChained

(***************************************************************************)
(* The session                                                             *)
(***************************************************************************)

\* A read is the only one, and while it lasts nobody is the current user.
LEMMA OneRead ==
    ASSUME TypeOK, SessionInv, NEW r \in reads
    PROVE  /\ reads \ {r} = {} /\ r.user = auth /\ auth \in Users
           /\ stage = IF r.from = "launch" THEN "launching" ELSE "signIn"
           /\ stage # "main" /\ stage # "signUp" /\ uid = NoUser /\ previousOrders = << >>
  <1>1. ASSUME NEW x \in reads
        PROVE  /\ x \in Read /\ x.user = auth /\ x.from \in {"launch", "signIn"}
               /\ stage = IF x.from = "launch" THEN "launching" ELSE "signIn"
    BY <1>1 DEF TypeOK, SessionInv, Read
  <1>2. \A x \in reads : x = r
    BY <1>1 DEF Read
  <1>3. reads \ {r} = {}
    BY <1>2
  <1>4. stage # "main" /\ stage # "signUp"
    BY <1>1
  <1>5. r.user \in Users
    BY <1>1 DEF Read
  <1> QED
    BY <1>1, <1>3, <1>4, <1>5 DEF SessionInv

\* One write joins: what a queue then holds is of before, or that write.
LEMMA OneEnqueued ==
    ASSUME TypeOK, NEW w \in Write, Enqueue(<< w >>), NEW o \in Owners,
           NEW k \in DOMAIN queue'[o]
    PROVE  \/ k \in DOMAIN queue[o] /\ queue'[o][k] = queue[o][k]
           \/ queue'[o][k] = w
  <1> DEFINE j == k - Len(queue[o])
  <1>1. << w >> \in Seq(Write) /\ \A i \in DOMAIN << w >> : << w >>[i] = w
    OBVIOUS
  <1>2. \/ k \in DOMAIN queue[o] /\ queue'[o][k] = queue[o][k]
        \/ j \in DOMAIN << w >> /\ queue'[o][k] = << w >>[j]
    BY <1>1, EnqueuedOnly
  <1> HIDE DEF j
  <1> QED
    BY <1>1, <1>2

\* Who is signed in, through every step.
LEMMA SessionNext ==
    ASSUME TypeOK, SessionInv, SignUpInv, [Next]_vars
    PROVE  SessionInv'
  <1> USE DEF session, server
  <1>1. CASE Terminate
    BY <1>1 DEF Terminate, SessionInv
  <1>2. ASSUME UNCHANGED <<session, previousOrders>>
        PROVE  SessionInv'
    BY <1>2 DEF SessionInv
  <1>3. CASE SaveReturned /\ ~Terminate
    <2>1. CASE UNCHANGED previousOrders
      BY <1>2, <1>3, <2>1 DEF SaveReturned
    <2>2. CASE ~ UNCHANGED previousOrders
      <3>1. uid # NoUser /\ UNCHANGED session
        BY <1>3, <2>2 DEF SaveReturned
      <3>2. stage = "main"
        BY <3>1 DEF SessionInv
      <3> QED
        BY <3>1, <3>2 DEF SessionInv
    <2> QED
      BY <2>1, <2>2
  <1>4. CASE SignUpReturned
    <2>1. /\ callbacks # << >> /\ Head(callbacks).write.op = "signUp"
          /\ uid' = Head(callbacks).write.user /\ stage' = "main"
          /\ UNCHANGED <<auth, accounts, reads, previousOrders>>
      BY <1>4 DEF SignUpReturned, Returned
    <2>2. 1 \in DOMAIN callbacks /\ Head(callbacks) = callbacks[1]
      BY <2>1 DEF TypeOK
    <2>3. stage = "signUp" /\ uid' = auth
      BY <2>1, <2>2 DEF SignUpInv
    <2>4. auth # NoUser /\ auth \in accounts /\ reads = {}
      BY <2>3 DEF SessionInv
    <2> QED
      BY <2>1, <2>3, <2>4 DEF SessionInv
  <1>5. CASE Launch
    <2>1. stage = "dead" /\ UNCHANGED <<auth, accounts, uid, previousOrders>>
      BY <1>5 DEF Launch
    <2>2. reads = {} /\ uid = NoUser /\ previousOrders = << >>
      BY <2>1 DEF SessionInv
    <2>3. CASE auth # NoUser
      <3>1. stage' = "launching" /\ reads' = {[user |-> auth, from |-> "launch"]}
        BY <1>5, <2>3 DEF Launch
      <3> QED
        BY <2>1, <2>2, <3>1 DEF SessionInv
    <2>4. CASE auth = NoUser
      <3>1. stage' = "signIn" /\ reads' = {}
        BY <1>5, <2>2, <2>4 DEF Launch
      <3> QED
        BY <2>1, <2>2, <2>4, <3>1 DEF SessionInv
    <2> QED
      BY <2>3, <2>4
  <1>6. ASSUME NEW u \in Users, Authenticate(u)
        PROVE  SessionInv'
    <2>1. /\ stage = "signIn" /\ reads = {} /\ auth' = u /\ u \in accounts'
          /\ UNCHANGED <<uid, previousOrders>>
      BY <1>6 DEF Authenticate
    <2>2. u # NoUser /\ uid = NoUser /\ previousOrders = << >>
      BY <2>1, CheckoutAssumptions DEF SessionInv
    <2>3. CASE u \notin accounts
      <3>1. stage' = "signUp" /\ reads' = {}
        BY <1>6, <2>1, <2>3 DEF Authenticate
      <3> QED
        BY <2>1, <2>2, <3>1 DEF SessionInv
    <2>4. CASE u \in accounts
      <3>1. stage' = "signIn" /\ reads' = {[user |-> u, from |-> "signIn"]}
        BY <1>6, <2>1, <2>4 DEF Authenticate
      <3> QED
        BY <2>1, <2>2, <3>1 DEF SessionInv
    <2> QED
      BY <2>3, <2>4
  <1>7. CASE SignOut
    <2>1. /\ stage = "main" /\ stage' = "signIn" /\ uid' = NoUser /\ previousOrders' = << >>
          /\ auth' \in {auth, NoUser} /\ UNCHANGED <<accounts, reads>>
      BY <1>7 DEF SignOut
    <2>2. reads = {} /\ auth \in accounts
      BY <2>1 DEF SessionInv
    <2> QED
      BY <2>1, <2>2 DEF SessionInv
  <1>8. ASSUME NEW r \in reads, Populate(r)
        PROVE  SessionInv'
    <2>1. /\ uid' = r.user /\ stage' = ScreenAfter(r.from, r.user) /\ reads' = reads \ {r}
          /\ UNCHANGED <<auth, accounts>>
      BY <1>8 DEF Populate, ReadEnds
    <2>2. reads' = {} /\ r.user = auth /\ auth # NoUser /\ auth \in accounts
      BY <2>1, OneRead, CheckoutAssumptions DEF SessionInv
    <2>3. stage' = "main"
      BY <2>1, <2>2 DEF ScreenAfter
    <2> QED
      BY <2>1, <2>2, <2>3 DEF SessionInv
  <1>9. ASSUME NEW r \in reads, PopulateFails(r)
        PROVE  SessionInv'
    <2>1. /\ uid' = uid /\ stage' = ScreenAfter(r.from, uid) /\ reads' = reads \ {r}
          /\ UNCHANGED <<auth, accounts, previousOrders>>
      BY <1>9 DEF PopulateFails, ReadEnds
    <2>2. /\ reads' = {} /\ uid = NoUser /\ previousOrders = << >>
          /\ auth # NoUser /\ auth \in accounts
      BY <2>1, OneRead, CheckoutAssumptions DEF SessionInv
    <2>3. stage' \in {"signIn", "signUp"}
      BY <2>1, <2>2 DEF ScreenAfter
    <2> QED
      BY <2>1, <2>2, <2>3 DEF SessionInv
  <1>10. CASE Checkout \/ HistoryReturned \/ UpdateReturned \/ Heard \/ Commit
              \/ ConnectionLost \/ UNCHANGED vars
    BY <1>2, <1>10 DEF Checkout, HistoryReturned, UpdateReturned, Heard, Acknowledge,
                       Refuse, Commit, ConnectionLost, vars
  <1>11. ASSUME NEW i \in Items, AddToBasket(i)
         PROVE  SessionInv'
    BY <1>2, <1>11 DEF AddToBasket
  <1>12. ASSUME NEW index \in 0 .. MaxItems - 1, RemoveItemAt(index)
         PROVE  SessionInv'
    BY <1>1, <1>2, <1>12 DEF RemoveItemAt
  <1>13. CASE SignUp
    BY <1>1, <1>2, <1>13 DEF SignUp
  <1>14. Kill => Terminate
    BY DEF Kill
  <1> QED
    BY <1>1, <1>3, <1>4, <1>5, <1>6, <1>7, <1>8, <1>9, <1>10, <1>11, <1>12, <1>13, <1>14
    DEF Next, UserSteps, Blocks, Answers, ReadSteps

(***************************************************************************)
(* The sign-up under way                                                   *)
(***************************************************************************)

WaitsForSignUp(w) == w.op = "signUp" /\ w.live

\* The blocks that are left when the first has run.
LEMMA TailBlocks ==
    ASSUME TypeOK, callbacks # << >>
    PROVE  /\ 1 \in DOMAIN callbacks /\ Head(callbacks) = callbacks[1]
           /\ \A k \in DOMAIN Tail(callbacks) :
                 /\ k \in Int /\ k >= 1 /\ k + 1 \in DOMAIN callbacks
                 /\ Tail(callbacks)[k] = callbacks[k + 1]
  <1>1. PICK n \in Nat : n = Len(callbacks) /\ n # 0 /\ DOMAIN callbacks = 1 .. n
    BY DEF TypeOK
  <1>2. callbacks \in Seq(Callback)
    BY DEF TypeOK
  <1>3. Len(Tail(callbacks)) = n - 1 /\ DOMAIN Tail(callbacks) = 1 .. n - 1
    BY <1>1, <1>2
  <1>4. \A k \in 1 .. n - 1 : Tail(callbacks)[k] = callbacks[k + 1]
    BY <1>1, <1>2
  <1> QED
    BY <1>1, <1>2, <1>3, <1>4

\* What may happen to the sign-ups of a queue and among the blocks.
LEMMA SignUpKept ==
    ASSUME SignUpInv, UNCHANGED <<stage, auth, queue>>,
           \A k \in DOMAIN callbacks' : /\ k \in Int /\ k + 1 \in DOMAIN callbacks
                                        /\ callbacks'[k] = callbacks[k + 1]
    PROVE  SignUpInv'
  <1>1. ASSUME NEW j \in DOMAIN callbacks', NEW k \in DOMAIN callbacks',
               callbacks'[j].write.op = "signUp", callbacks'[k].write.op = "signUp"
        PROVE  j = k
    <2>1. j + 1 = k + 1
      BY <1>1 DEF SignUpInv
    <2> QED
      BY <2>1
  <1> QED
    BY <1>1 DEF SignUpInv

\* A step after which nobody waits for a sign-up keeps the invariant.
LEMMA SignUpNone ==
    ASSUME \A o \in Owners : \A k \in DOMAIN queue'[o] : ~WaitsForSignUp(queue'[o][k]),
           \A k \in DOMAIN callbacks' : callbacks'[k].write.op # "signUp"
    PROVE  SignUpInv'
  BY DEF SignUpInv, WaitsForSignUp

\* Away from the sign-up page nobody waits for a sign-up.
LEMMA NoneOffThePage ==
    ASSUME SignUpInv, stage # "signUp"
    PROVE  /\ \A o \in Owners : \A k \in DOMAIN queue[o] : ~WaitsForSignUp(queue[o][k])
           /\ \A k \in DOMAIN callbacks : callbacks[k].write.op # "signUp"
  BY DEF SignUpInv, WaitsForSignUp

\* When the block of a save queues a list, the tabs are shown and the list is the
\* one in memory with the order at its end.
LEMMA SaveLists ==
    ASSUME TypeOK, SessionInv, SaveReturned, ~Terminate, SavedID(Head(callbacks)) # NoID
    PROVE  /\ stage = "main" /\ auth \in Users /\ previousOrders' \in Seq(OrderIDs)
           /\ UNCHANGED <<session, server>> /\ IsPrefix(previousOrders, previousOrders')
           /\ \E w \in Write : /\ Enqueue(<< w >>) /\ w.op = "history" /\ w.user = auth
                               /\ w.ids = previousOrders'
           /\ callbacks # << >> /\ callbacks' = Tail(callbacks)
  <1> DEFINE cb  == Head(callbacks)
             id  == SavedID(cb)
             ids == WithOrder(id)
             w   == [op |-> "history", basket |-> cb.write.basket, user |-> uid,
                     ids |-> ids, live |-> TRUE]
  <1>1. callbacks # << >> /\ cb \in Callback /\ cb.write.op = "save"
    BY HeadTailProperties DEF SaveReturned, Returned, TypeOK
  <1>2. cb.write \in OrderWrite
    BY <1>1 DEF Callback, Write, HistoryWrite, SignUpWrite
  <1>3. cb.write.basket \in Baskets /\ id \in Nat
    BY <1>2 DEF SavedID, OrderWrite, OrderIDs, TypeOK, Order
  <1>4. /\ id # NoID /\ uid # NoUser /\ Enqueue(<< w >>) /\ previousOrders' = ids
        /\ callbacks' = Tail(callbacks) /\ UNCHANGED <<session, server>>
    BY DEF SaveReturned, session, server
  <1>5. stage = "main" /\ uid = auth /\ auth \in Users
    BY <1>4 DEF SessionInv, TypeOK, Owners
  <1>6. previousOrders \in Seq(OrderIDs) /\ id \in OrderIDs
    BY <1>3, <1>4 DEF TypeOK, OrderIDs
  <1>7. ids \in Seq(OrderIDs) /\ ids = Append(previousOrders, id)
    BY <1>6 DEF WithOrder
  <1>8. IsPrefix(previousOrders, previousOrders)
    BY <1>6, PrefixPointwise
  <1>9. IsPrefix(previousOrders, ids)
    BY <1>6, <1>7, <1>8, PrefixAppend
  <1>10. w \in Write
    BY <1>3, <1>5, <1>7 DEF Write, HistoryWrite
  <1> QED
    BY <1>1, <1>4, <1>5, <1>7, <1>9, <1>10

\* A second sign-up is not sent while one is waited for.
LEMMA NonePending ==
    ASSUME TypeOK, MaxSignUps <= 1, SignUpsPending < MaxSignUps
    PROVE  /\ \A k \in DOMAIN queue[auth] : ~WaitsForSignUp(queue[auth][k])
           /\ \A k \in DOMAIN callbacks : callbacks[k].write.op # "signUp"
  <1> DEFINE L == {k \in DOMAIN queue[auth] : queue[auth][k].op = "signUp" /\ queue[auth][k].live}
             C == {k \in DOMAIN callbacks : callbacks[k].write.op = "signUp"}
  <1>1. IsFiniteSet(L)
    <2>1. DOMAIN queue[auth] = 1 .. Len(queue[auth]) /\ Len(queue[auth]) \in Nat
      BY DEF TypeOK
    <2>2. IsFiniteSet(DOMAIN queue[auth]) /\ L \subseteq DOMAIN queue[auth]
      BY <2>1, FS_Interval
    <2> HIDE DEF L
    <2> QED
      BY <2>2, FS_Subset
  <1>2. IsFiniteSet(C)
    <2>1. DOMAIN callbacks = 1 .. Len(callbacks) /\ Len(callbacks) \in Nat
      BY DEF TypeOK
    <2>2. IsFiniteSet(DOMAIN callbacks) /\ C \subseteq DOMAIN callbacks
      BY <2>1, FS_Interval
    <2> HIDE DEF C
    <2> QED
      BY <2>2, FS_Subset
  <1>3. Cardinality(L) + Cardinality(C) < MaxSignUps
    BY DEF SignUpsPending
  <1> HIDE DEF L, C
  <1>4. Cardinality(L) \in Nat /\ Cardinality(C) \in Nat
    BY <1>1, <1>2, FS_CardinalityType
  <1>5. Cardinality(L) = 0 /\ Cardinality(C) = 0
    BY <1>3, <1>4, CheckoutAssumptions
  <1>6. L = {} /\ C = {}
    BY <1>1, <1>2, <1>5, FS_EmptySet
  <1> QED
    BY <1>6 DEF L, C, WaitsForSignUp

\* A sign-up that is answered was the last of its queue, and the only one.
LEMMA SignUpAnswered ==
    ASSUME TypeOK, SignUpInv, OwnInv, Connected, NEW ok \in BOOLEAN,
           Answer(Head(queue[auth]), ok), UNCHANGED <<stage, auth>>
    PROVE  SignUpInv'
  <1> DEFINE w == Head(queue[auth])
             q == queue[auth]
  <1>1. /\ auth \in Owners /\ queue \in [Owners -> Seq(Write)] /\ q \in Seq(Write) /\ q # << >>
        /\ callbacks \in Seq(Callback)
    BY DEF TypeOK, Connected
  <1>2. /\ w = q[1] /\ 1 \in DOMAIN q
        /\ Tail(q) \in Seq(Write) /\ Len(Tail(q)) = Len(q) - 1 /\ Len(q) \in Nat
        /\ \A k \in DOMAIN Tail(q) : k \in Nat /\ k + 1 \in DOMAIN q /\ Tail(q)[k] = q[k + 1]
    BY <1>1, TailWrites
  <1>3. /\ queue'[auth] = Tail(q)
        /\ \A o \in Owners : o # auth => queue'[o] = queue[o]
    BY <1>1 DEF Answer
  <1>4. ASSUME NEW o \in Owners, NEW k \in DOMAIN queue'[o],
               queue'[o][k].op = "signUp", queue'[o][k].live
        PROVE  stage = "signUp" /\ o = auth /\ k = Len(queue'[o])
    <2>1. CASE o = auth
      <3>1. k + 1 \in DOMAIN q /\ queue'[o][k] = q[k + 1] /\ k \in Nat
        BY <1>2, <1>3, <2>1
      <3>2. stage = "signUp" /\ k + 1 = Len(q)
        BY <1>1, <1>4, <3>1 DEF SignUpInv
      <3>3. Len(queue'[o]) = Len(q) - 1
        BY <1>2, <1>3, <2>1
      <3>4. k = Len(q) - 1
        BY <1>2, <3>1, <3>2
      <3> QED
        BY <2>1, <3>2, <3>3, <3>4
    <2>2. CASE o # auth
      BY <1>3, <1>4, <2>2 DEF SignUpInv
    <2> QED
      BY <2>1, <2>2
  <1>5. ASSUME NEW k \in DOMAIN callbacks, callbacks[k].write.op = "signUp"
        PROVE  FALSE
    BY <1>1, <1>5 DEF SignUpInv
  <1>6. CASE callbacks' = callbacks
    BY <1>4, <1>5, <1>6 DEF SignUpInv
  <1>7. CASE w.live /\ callbacks' = Append(callbacks, [write |-> w, ok |-> ok])
    <2>1. \A k \in DOMAIN callbacks' :
             \/ k \in DOMAIN callbacks /\ callbacks'[k] = callbacks[k]
             \/ k = Len(callbacks) + 1 /\ callbacks'[k].write = w
      BY <1>1, <1>7
    <2>2. \A k \in DOMAIN callbacks' : callbacks'[k].write.op = "signUp"
             => k = Len(callbacks) + 1 /\ callbacks'[k].write = w
      BY <1>5, <2>1
    <2>3. ASSUME w.op = "signUp"
          PROVE  stage = "signUp" /\ w.user = auth /\ queue'[auth] = << >>
      <3>1. stage = "signUp" /\ Len(q) = 1
        BY <1>1, <1>2, <1>7, <2>3 DEF SignUpInv
      <3>2. w.user = auth
        BY <1>1, <1>2, <2>3 DEF OwnInv, Touches
      <3>3. Tail(q) = << >>
        BY <1>2, <3>1
      <3> QED
        BY <1>3, <3>1, <3>2, <3>3
    <2> QED
      BY <1>4, <2>2, <2>3 DEF SignUpInv
  <1> QED
    BY <1>6, <1>7 DEF Answer

\* The sign-up somebody waits for stays the last write, on its page.
LEMMA SignUpNext ==
    ASSUME TypeOK, SessionInv, SignUpInv, OwnInv, MaxSignUps <= 1, [Next]_vars
    PROVE  SignUpInv'
  <1> USE DEF session, server
  <1>1. CASE Terminate
    <2>1. ASSUME NEW o \in Owners, NEW k \in DOMAIN queue'[o]
          PROVE  ~WaitsForSignUp(queue'[o][k])
      <3>1. queue'[o] = [j \in DOMAIN queue[o] |-> [queue[o][j] EXCEPT !.live = FALSE]]
        BY <1>1 DEF Terminate
      <3>2. k \in DOMAIN queue[o] /\ queue'[o][k] = [queue[o][k] EXCEPT !.live = FALSE]
        BY <2>1, <3>1
      <3>3. queue[o][k] \in Write
        BY <3>2 DEF TypeOK
      <3>4. queue'[o][k].live = FALSE
        BY <3>2, <3>3 DEF Write, OrderWrite, HistoryWrite, SignUpWrite
      <3> QED
        BY <3>4 DEF WaitsForSignUp
    <2>2. callbacks' = << >>
      BY <1>1 DEF Terminate
    <2> QED
      BY <2>1, <2>2, SignUpNone
  <1>2. ASSUME UNCHANGED <<stage, auth, queue, callbacks>>
        PROVE  SignUpInv'
    BY <1>2 DEF SignUpInv
  <1>3. ASSUME stage # "signUp", UNCHANGED <<queue, callbacks>>
        PROVE  SignUpInv'
    BY <1>3, NoneOffThePage, SignUpNone
  <1>4. CASE Checkout
    <2>1. stage # "signUp" /\ UNCHANGED callbacks
      BY <1>4 DEF Checkout
    <2>2. PICK ws \in Seq(Write) : Enqueue(ws) /\ \A k \in DOMAIN ws : ~Touches(ws[k])
      BY <1>4, CheckoutEnqueues DEF OrderWriteTo, Touches
    <2>3. ASSUME NEW o \in Owners, NEW k \in DOMAIN queue'[o]
          PROVE  ~WaitsForSignUp(queue'[o][k])
      BY <2>1, <2>2, <2>3, EnqueuedOnly, NoneOffThePage DEF WaitsForSignUp, Touches
    <2> QED
      BY <2>1, <2>3, NoneOffThePage, SignUpNone
  <1>5. ASSUME callbacks # << >>, callbacks' = Tail(callbacks), UNCHANGED <<stage, auth, queue>>
        PROVE  SignUpInv'
    BY <1>5, TailBlocks, SignUpKept
  <1>6. CASE SaveReturned /\ ~Terminate
    <2>1. CASE SavedID(Head(callbacks)) = NoID
      BY <1>5, <1>6, <2>1 DEF SaveReturned, Returned
    <2>2. CASE SavedID(Head(callbacks)) # NoID
      <3>1. /\ stage = "main" /\ callbacks # << >> /\ callbacks' = Tail(callbacks)
            /\ \E w \in Write : Enqueue(<< w >>) /\ w.op = "history"
        BY <1>6, <2>2, SaveLists
      <3>2. PICK w \in Write : Enqueue(<< w >>) /\ w.op = "history"
        BY <3>1
      <3>4. ASSUME NEW o \in Owners, NEW k \in DOMAIN queue'[o]
            PROVE  ~WaitsForSignUp(queue'[o][k])
        <4>1. CASE k \in DOMAIN queue[o] /\ queue'[o][k] = queue[o][k]
          BY <3>1, <4>1, NoneOffThePage
        <4>2. CASE queue'[o][k] = w
          BY <3>2, <4>2 DEF WaitsForSignUp
        <4> QED
          BY <3>2, <3>4, <4>1, <4>2, OneEnqueued
      <3>5. \A k \in DOMAIN callbacks' : callbacks'[k].write.op # "signUp"
        BY <3>1, TailBlocks, NoneOffThePage
      <3> QED
        BY <3>4, <3>5, SignUpNone
    <2> QED
      BY <2>1, <2>2
  <1>7. CASE SignUp /\ ~Terminate
    <2> DEFINE w == [op |-> "signUp", user |-> auth, ids |-> << >>, live |-> TRUE]
    <2>1. /\ stage = "signUp" /\ auth \in Users /\ auth \in Owners
          /\ Enqueue(<< w >>) /\ SignUpsPending < MaxSignUps
          /\ UNCHANGED <<stage, auth, callbacks>>
      BY <1>7 DEF SignUp, TypeOK, Owners
    <2>2. w \in Write
      BY <2>1 DEF Write, SignUpWrite
    <2>3. /\ \A k \in DOMAIN queue[auth] : ~WaitsForSignUp(queue[auth][k])
          /\ \A k \in DOMAIN callbacks : callbacks[k].write.op # "signUp"
      BY <2>1, NonePending
    <2>4. << w >> \in Seq(Write) /\ \A k \in DOMAIN << w >> : k = 1
      BY <2>2
    <2>5. queue[auth] \in Seq(Write) /\ queue'[auth] = queue[auth] \o << w >>
      BY <2>1 DEF Enqueue, TypeOK
    <2>6. Len(queue[auth]) \in Nat /\ Len(queue'[auth]) = Len(queue[auth]) + 1
      BY <2>4, <2>5, ConcatProperties
    <2>7. ASSUME NEW o \in Owners, NEW k \in DOMAIN queue'[o],
                 queue'[o][k].op = "signUp", queue'[o][k].live
          PROVE  o = auth /\ k = Len(queue'[o])
      <3>1. CASE k \in DOMAIN queue[o] /\ queue'[o][k] = queue[o][k]
        <4>1. o = auth
          BY <2>7, <3>1 DEF SignUpInv
        <4> QED
          BY <2>3, <2>7, <3>1, <4>1 DEF WaitsForSignUp
      <3>2. CASE o = auth /\ k - Len(queue[o]) \in DOMAIN << w >>
        <4>1. k - Len(queue[auth]) = 1 /\ k \in Int
          <5>1. k - Len(queue[auth]) = 1
            BY <2>4, <3>2
          <5>2. DOMAIN queue'[auth] = 1 .. Len(queue'[auth])
            BY <2>4, <2>5, ConcatProperties
          <5> QED
            BY <2>6, <2>7, <3>2, <5>1, <5>2
        <4> QED
          BY <2>6, <3>2, <4>1
      <3> QED
        BY <2>1, <2>4, <2>7, <3>1, <3>2, EnqueuedOnly
    <2> QED
      BY <2>1, <2>3, <2>7 DEF SignUpInv
  <1>8. CASE HistoryReturned \/ UpdateReturned
    BY <1>5, <1>8 DEF HistoryReturned, UpdateReturned, Returned
  <1>9. CASE SignUpReturned
    <2>1. /\ callbacks # << >> /\ Head(callbacks).write.op = "signUp"
          /\ callbacks' = Tail(callbacks) /\ UNCHANGED <<auth, queue>>
      BY <1>9 DEF SignUpReturned, Returned
    <2>2. /\ 1 \in DOMAIN callbacks /\ callbacks[1].write.op = "signUp"
          /\ \A k \in DOMAIN callbacks' : /\ k \in Int /\ k >= 1 /\ k + 1 \in DOMAIN callbacks
                                          /\ callbacks'[k] = callbacks[k + 1]
      BY <2>1, TailBlocks
    <2>3. \A k \in DOMAIN callbacks' : callbacks'[k].write.op # "signUp"
      <3>1. \A k \in DOMAIN callbacks' : k + 1 # 1
        BY <2>2
      <3> QED
        BY <2>2, <3>1 DEF SignUpInv
    <2>4. ASSUME NEW o \in Owners, NEW k \in DOMAIN queue'[o]
          PROVE  ~WaitsForSignUp(queue'[o][k])
      <3>1. queue[auth] = << >>
        BY <2>2 DEF SignUpInv
      <3>2. WaitsForSignUp(queue[o][k]) => o = auth /\ k \in DOMAIN queue[auth]
        BY <2>1, <2>4 DEF SignUpInv, WaitsForSignUp
      <3> QED
        BY <2>1, <3>1, <3>2
    <2> QED
      BY <2>3, <2>4, SignUpNone
  <1>10. CASE Heard
    <2>1. PICK ok \in BOOLEAN : Answer(Head(queue[auth]), ok)
      BY <1>10 DEF Heard, Acknowledge, Refuse
    <2>2. Connected /\ UNCHANGED <<stage, auth>>
      BY <1>10 DEF Heard, Acknowledge, Refuse, Unsent
    <2> QED
      BY <2>1, <2>2, SignUpAnswered
  <1>11. CASE Launch \/ SignOut
    BY <1>3, <1>11 DEF Launch, SignOut
  <1>12. ASSUME NEW u \in Users, Authenticate(u)
         PROVE  SignUpInv'
    BY <1>3, <1>12 DEF Authenticate
  <1>13. CASE ReadSteps
    <2>1. PICK r \in reads : Populate(r) \/ PopulateFails(r)
      BY <1>13 DEF ReadSteps
    <2>2. stage # "signUp"
      BY OneRead
    <2> QED
      BY <1>3, <2>1, <2>2 DEF Populate, PopulateFails, ReadEnds
  <1>14. CASE Commit \/ ConnectionLost \/ UNCHANGED vars
    BY <1>2, <1>14 DEF Commit, ConnectionLost, vars
  <1>15. ASSUME NEW i \in Items, AddToBasket(i)
         PROVE  SignUpInv'
    BY <1>2, <1>15 DEF AddToBasket
  <1>16. ASSUME NEW index \in 0 .. MaxItems - 1, RemoveItemAt(index)
         PROVE  SignUpInv'
    BY <1>1, <1>2, <1>16 DEF RemoveItemAt
  <1>17. Kill => Terminate
    BY DEF Kill
  <1> QED
    BY <1>1, <1>4, <1>6, <1>7, <1>8, <1>9, <1>10, <1>11, <1>12, <1>13, <1>14, <1>15,
       <1>16, <1>17
    DEF Next, UserSteps, Blocks, Answers

(***************************************************************************)
(* The steps, by what they do to queues and lists                          *)
(***************************************************************************)

\* Neither a queue nor a list changes; at most the first block is gone.
Still ==
    /\ UNCHANGED <<stage, auth, accounts, previousOrders, queue, userDocs>>
    /\ ahead' \in {ahead, 0}
    /\ \/ UNCHANGED callbacks
       \/ /\ callbacks # << >> /\ Head(callbacks).write.op # "signUp"
          /\ callbacks' = Tail(callbacks)

\* Orders are queued ...
OrdersQueued ==
    /\ stage = "main"
    /\ UNCHANGED <<stage, auth, accounts, previousOrders, callbacks, userDocs, ahead>>
    /\ \E ws \in Seq(Write) : Enqueue(ws) /\ \A k \in DOMAIN ws : ~Touches(ws[k])

\* ... a list ...
ListQueued ==
    /\ stage = "main" /\ auth \in Users /\ previousOrders' \in Seq(OrderIDs)
    /\ UNCHANGED <<stage, auth, accounts, userDocs, ahead>>
    /\ IsPrefix(previousOrders, previousOrders')
    /\ \E w \in Write : /\ Enqueue(<< w >>) /\ w.op = "history" /\ w.user = auth
                        /\ w.ids = previousOrders'

\* ... or a sign-up.
SignUpQueued ==
    /\ stage = "signUp" /\ SignUpsPending < MaxSignUps
    /\ UNCHANGED <<stage, auth, accounts, previousOrders, callbacks, userDocs, ahead>>
    /\ \E w \in Write : /\ Enqueue(<< w >>) /\ w.op = "signUp" /\ w.user = auth
                        /\ w.ids = << >> /\ w.live

\* The oldest write is answered.
Answered ==
    /\ Connected
    /\ \E ok \in BOOLEAN : Answer(Head(queue[auth]), ok)
    /\ \/ ahead' = 0
       \/ ahead > 0 /\ ahead' = ahead - 1
    /\ UNCHANGED <<stage, auth, accounts, previousOrders, userDocs>>

\* Somebody else looks at the screen, or another screen is shown.
Turned ==
    \/ SignUpReturned \/ Launch \/ SignOut \/ ReadSteps
    \/ \E u \in Users : Authenticate(u)

\* As far as the lists of previous orders go, there are eight kinds of step.
LEMMA Kinds ==
    ASSUME TypeOK, SessionInv, [Next]_vars
    PROVE  \/ Terminate \/ Still \/ OrdersQueued \/ ListQueued \/ SignUpQueued
           \/ Answered \/ Commit \/ Turned
  <1> USE DEF session, server
  <1>1. CASE Checkout
    <2>1. /\ stage = "main"
          /\ UNCHANGED <<stage, auth, accounts, previousOrders, callbacks, userDocs, ahead>>
      BY <1>1 DEF Checkout
    <2>2. \E ws \in Seq(Write) : Enqueue(ws) /\ \A k \in DOMAIN ws : ~Touches(ws[k])
      BY <1>1, CheckoutEnqueues DEF OrderWriteTo, Touches
    <2> QED
      BY <2>1, <2>2 DEF OrdersQueued
  <1>2. CASE SaveReturned /\ ~Terminate
    <2>1. CASE SavedID(Head(callbacks)) = NoID
      BY <1>2, <2>1 DEF SaveReturned, Returned, Still
    <2>2. CASE SavedID(Head(callbacks)) # NoID
      BY <1>2, <2>2, SaveLists DEF ListQueued
    <2> QED
      BY <2>1, <2>2
  <1>3. CASE SignUp /\ ~Terminate
    <2> DEFINE w == [op |-> "signUp", user |-> auth, ids |-> << >>, live |-> TRUE]
    <2>1. /\ stage = "signUp" /\ SignUpsPending < MaxSignUps
          /\ UNCHANGED <<stage, auth, accounts, previousOrders, callbacks, userDocs, ahead>>
          /\ Enqueue(<< w >>) /\ auth \in Users
      BY <1>3 DEF SignUp, TypeOK, Owners
    <2>2. w \in Write
      BY <2>1 DEF Write, SignUpWrite
    <2>3. /\ w.op = "signUp" /\ w.user = auth /\ w.ids = << >> /\ w.live
      OBVIOUS
    <2> HIDE DEF w
    <2> QED
      BY <2>1, <2>2, <2>3 DEF SignUpQueued
  <1>4. CASE HistoryReturned \/ UpdateReturned
    BY <1>4 DEF HistoryReturned, UpdateReturned, Returned, Still
  <1>5. CASE Heard
    BY <1>5 DEF Heard, Acknowledge, Refuse, Unsent, Answered
  <1>6. CASE ConnectionLost \/ UNCHANGED vars
    BY <1>6 DEF ConnectionLost, vars, Still
  <1>7. ASSUME NEW i \in Items, AddToBasket(i)
        PROVE  Still
    BY <1>7 DEF AddToBasket, Still
  <1>8. ASSUME NEW index \in 0 .. MaxItems - 1, RemoveItemAt(index)
        PROVE  Still \/ Terminate
    BY <1>8 DEF RemoveItemAt, Still
  <1>9. Kill => Terminate
    BY DEF Kill
  <1> QED
    BY <1>1, <1>2, <1>3, <1>4, <1>5, <1>6, <1>7, <1>8, <1>9
    DEF Next, UserSteps, Blocks, Answers, Turned

\* A queue that grows keeps what it holds; what joins it is of the new writes.
LEMMA QueueGrows ==
    ASSUME TypeOK, NEW ws \in Seq(Write), Enqueue(ws), NEW o \in Owners
    PROVE  /\ queue[o] \in Seq(Write) /\ queue'[o] \in Seq(Write)
           /\ Lengthens(queue'[o], queue[o])
           /\ \A k \in DOMAIN queue'[o] :
                 \/ k \in DOMAIN queue[o]
                 \/ o = auth /\ k - Len(queue[o]) \in DOMAIN ws
                    /\ queue'[o][k] = ws[k - Len(queue[o])]
  <1>1. queue \in [Owners -> Seq(Write)] /\ auth \in Owners
    BY DEF TypeOK
  <1>2. queue' = [queue EXCEPT ![auth] = queue[auth] \o ws]
    BY DEF Enqueue
  <1>3. queue'[o] \in Seq(Write)
    BY <1>1, <1>2, ConcatProperties
  <1>4. \A k \in DOMAIN queue[o] : k \in DOMAIN queue'[o] /\ queue'[o][k] = queue[o][k]
    BY EnqueuePending
  <1>5. \A k \in DOMAIN queue'[o] : k \in DOMAIN queue[o] \/ \A j \in DOMAIN queue[o] : j < k
    BY EnqueuedOnly
  <1> QED
    BY <1>1, <1>3, <1>4, <1>5, EnqueuedOnly DEF Lengthens

\* One write joins behind the others.
LEMMA QueueGrowsByOne ==
    ASSUME TypeOK, NEW w \in Write, Enqueue(<< w >>)
    PROVE  /\ \E n \in DOMAIN queue'[auth] :
                 /\ n \notin DOMAIN queue[auth] /\ queue'[auth][n] = w
                 /\ \A k \in DOMAIN queue'[auth] : k \in DOMAIN queue[auth] \/ k = n
           /\ \A o \in Owners : o # auth => queue'[o] = queue[o]
           /\ << w >> \in Seq(Write)
  <1>1. queue \in [Owners -> Seq(Write)] /\ auth \in Owners
    BY DEF TypeOK
  <1>2. queue' = [queue EXCEPT ![auth] = queue[auth] \o << w >>]
    BY DEF Enqueue
  <1>3. PICK m \in Nat : m = Len(queue[auth]) /\ DOMAIN queue[auth] = 1 .. m
    BY <1>1
  <1>4. << w >> \in Seq(Write) /\ Len(<< w >>) = 1 /\ << w >>[1] = w
    OBVIOUS
  <1>5. queue'[auth] = queue[auth] \o << w >> /\ queue[auth] \in Seq(Write)
    BY <1>1, <1>2
  <1>6. DOMAIN queue'[auth] = 1 .. m + 1 /\ queue'[auth][m + 1] = w
    BY <1>3, <1>4, <1>5, ConcatProperties
  <1>7. /\ m + 1 \in DOMAIN queue'[auth] /\ m + 1 \notin DOMAIN queue[auth]
        /\ \A k \in DOMAIN queue'[auth] : k \in DOMAIN queue[auth] \/ k = m + 1
    BY <1>3, <1>6
  <1> QED
    BY <1>1, <1>2, <1>4, <1>6, <1>7

\* What the server does with the next write, as far as the lists go.
LEMMA CommitFiles ==
    ASSUME TypeOK, OwnInv, Commit
    PROVE  /\ auth \in Owners /\ auth \in accounts /\ queue[auth] \in Seq(Write)
           /\ UNCHANGED <<stage, auth, accounts, previousOrders, queue, callbacks>>
           /\ ahead \in Nat /\ ahead' = ahead + 1 /\ ahead + 1 \in DOMAIN queue[auth]
           /\ LET w == queue[auth][ahead + 1]
              IN  \/ ~Touches(w) /\ UNCHANGED userDocs
                  \/ /\ Touches(w)
                     /\ w.op = "history" => auth \in DOMAIN userDocs
                     /\ w.op = "signUp" => w.ids = << >>
                     /\ DOMAIN userDocs' = DOMAIN userDocs \cup {auth}
                     /\ userDocs'[auth] = w.ids
                     /\ \A u \in DOMAIN userDocs : u # auth => userDocs'[u] = userDocs[u]
  <1> USE DEF session
  <1> DEFINE w == queue[auth][ahead + 1]
  <1>1. /\ NextUnsent \in Write /\ Apply(NextUnsent) /\ Applicable(NextUnsent)
        /\ ahead \in Nat /\ ahead' = ahead + 1 /\ ahead + 1 \in DOMAIN queue[auth]
        /\ UNCHANGED <<stage, auth, accounts, previousOrders, queue, callbacks>>
        /\ NextUnsent = w
        /\ queue[auth] \in Seq(Write) /\ auth \in Owners
    BY UnsentIsWrite DEF Commit, NextUnsent, TypeOK
  <1>2. queue[auth] # << >>
    BY <1>1
  <1>3. auth \in accounts
    BY <1>1, <1>2 DEF OwnInv
  <1> HIDE DEF w
  <1>4. CASE Touches(w)
    <2>1. w.user = auth
      BY <1>1, <1>4 DEF OwnInv, w
    <2>2. w.op \in {"history", "signUp"}
      BY <1>4 DEF Touches
    <2>3. userDocs' = Put(userDocs, auth, w.ids)
      BY <1>1, <2>1, <2>2 DEF Apply
    <2>4. w.op = "history" => auth \in DOMAIN userDocs
      BY <1>1, <2>1 DEF Applicable
    <2>5. w.op = "signUp" => w.ids = << >>
      BY <1>1 DEF Write, OrderWrite, HistoryWrite, SignUpWrite
    <2>6. /\ DOMAIN userDocs' = DOMAIN userDocs \cup {auth}
          /\ userDocs'[auth] = w.ids
          /\ \A u \in DOMAIN userDocs : u # auth => userDocs'[u] = userDocs[u]
      BY <2>3 DEF Put
    <2> QED
      BY <1>1, <1>3, <1>4, <2>4, <2>5, <2>6 DEF w
  <1>5. CASE ~Touches(w)
    <2>1. w.op \notin {"history", "signUp"}
      BY <1>5 DEF Touches
    <2>2. UNCHANGED userDocs
      BY <1>1, <2>1 DEF Apply
    <2> QED
      BY <1>1, <1>3, <1>5, <2>2 DEF w
  <1> QED
    BY <1>4, <1>5

\* The oldest write leaves.
LEMMA AnsweredTail ==
    ASSUME TypeOK, Answered
    PROVE  /\ auth \in Owners /\ queue[auth] \in Seq(Write) /\ queue[auth] # << >>
           /\ queue'[auth] = Tail(queue[auth])
           /\ \A o \in Owners : o # auth => queue'[o] = queue[o]
           /\ \A k \in DOMAIN queue'[auth] :
                 k \in Nat /\ k + 1 \in DOMAIN queue[auth] /\ queue'[auth][k] = queue[auth][k + 1]
  <1>1. /\ auth \in Owners /\ queue \in [Owners -> Seq(Write)]
        /\ queue[auth] \in Seq(Write) /\ queue[auth] # << >>
        /\ queue' = [queue EXCEPT ![auth] = Tail(queue[auth])]
    BY DEF Answered, Answer, Connected, TypeOK
  <1>2. queue'[auth] = Tail(queue[auth]) /\ \A o \in Owners : o # auth => queue'[o] = queue[o]
    BY <1>1
  <1>3. \A k \in DOMAIN Tail(queue[auth]) :
            k + 1 \in DOMAIN queue[auth] /\ Tail(queue[auth])[k] = queue[auth][k + 1]
    BY <1>1, TailWrites
  <1>4. \A k \in DOMAIN Tail(queue[auth]) : k \in Nat
    BY <1>1
  <1> QED
    BY <1>1, <1>2, <1>3, <1>4

\* In the next life of the process the queues say what they said.
LEMMA TerminateSame ==
    ASSUME TypeOK, Terminate, NEW o \in Owners
    PROVE  /\ DOMAIN queue'[o] = DOMAIN queue[o]
           /\ \A k \in DOMAIN queue[o] :
                 /\ queue'[o][k].op = queue[o][k].op
                 /\ Touches(queue[o][k]) => /\ queue'[o][k].ids = queue[o][k].ids
                                            /\ queue'[o][k].user = queue[o][k].user
                 /\ ~Touches(queue[o][k]) => queue'[o][k].id = queue[o][k].id
           /\ queue[o] = << >> => queue'[o] = << >>
  <1>1. queue'[o] = [k \in DOMAIN queue[o] |-> [queue[o][k] EXCEPT !.live = FALSE]]
    BY DEF Terminate
  <1>2. ASSUME NEW k \in DOMAIN queue[o]
        PROVE  /\ queue'[o][k].op = queue[o][k].op
               /\ Touches(queue[o][k]) => /\ queue'[o][k].ids = queue[o][k].ids
                                          /\ queue'[o][k].user = queue[o][k].user
               /\ ~Touches(queue[o][k]) => queue'[o][k].id = queue[o][k].id
    <2>1. queue[o][k] \in Write /\ queue'[o][k] = [queue[o][k] EXCEPT !.live = FALSE]
      BY <1>1, <1>2 DEF TypeOK
    <2> QED
      BY <2>1 DEF Write, OrderWrite, HistoryWrite, SignUpWrite, Touches
  <1>3. ASSUME queue[o] = << >>
        PROVE  queue'[o] = << >>
    BY <1>1, <1>3
  <1> QED
    BY <1>1, <1>2, <1>3

\* Another screen or another account: neither the queues nor the documents change.
LEMMA TurnedKeeps ==
    ASSUME Turned
    PROVE  /\ UNCHANGED <<queue, userDocs>> /\ accounts \subseteq accounts'
           /\ (auth' = auth /\ ahead' = ahead) \/ ahead' = 0
  <1> USE DEF session, server
  <1>1. CASE SignUpReturned \/ Launch \/ SignOut
    BY <1>1 DEF SignUpReturned, Launch, SignOut
  <1>2. CASE ReadSteps
    BY <1>2 DEF ReadSteps, Populate, PopulateFails, ReadEnds
  <1>3. ASSUME NEW u \in Users, Authenticate(u)
        PROVE  /\ UNCHANGED <<queue, userDocs>> /\ accounts \subseteq accounts'
               /\ ahead' = 0
    BY <1>3 DEF Authenticate
  <1> QED
    BY <1>1, <1>2, <1>3 DEF Turned

\* A list is written by its owner, who has signed in on this device.
LEMMA OwnNext ==
    ASSUME TypeOK, SessionInv, OwnInv, [Next]_vars
    PROVE  OwnInv'
  <1>1. ASSUME UNCHANGED <<queue, userDocs>>, accounts \subseteq accounts'
        PROVE  OwnInv'
    BY <1>1 DEF OwnInv
  <1>2. CASE Terminate
    <2>1. UNCHANGED <<accounts, userDocs>>
      BY <1>2 DEF Terminate
    <2>2. \A o \in Owners : queue'[o] # << >> => o \in accounts
      BY <1>2, TerminateSame DEF OwnInv
    <2>3. ASSUME NEW o \in Owners, NEW k \in DOMAIN queue'[o], Touches(queue'[o][k])
          PROVE  queue'[o][k].user = o
      <3>1. k \in DOMAIN queue[o] /\ queue'[o][k].op = queue[o][k].op
        BY <1>2, <2>3, TerminateSame
      <3>2. Touches(queue[o][k])
        BY <2>3, <3>1 DEF Touches
      <3> QED
        BY <1>2, <3>1, <3>2, TerminateSame DEF OwnInv
    <2> QED
      BY <2>1, <2>2, <2>3 DEF OwnInv
  <1>3. CASE Still
    BY <1>1, <1>3 DEF Still
  <1>4. CASE Turned
    BY <1>1, <1>4, TurnedKeeps
  <1>5. ASSUME NEW ws \in Seq(Write), Enqueue(ws), auth \in accounts,
               UNCHANGED <<accounts, userDocs>>,
               \A k \in DOMAIN ws : Touches(ws[k]) => ws[k].user = auth
        PROVE  OwnInv'
    <2>1. \A o \in Owners : o # auth => queue'[o] = queue[o]
      BY <1>5 DEF Enqueue, TypeOK
    <2>2. \A o \in Owners : queue'[o] # << >> => o \in accounts
      BY <1>5, <2>1 DEF OwnInv
    <2>3. ASSUME NEW o \in Owners, NEW k \in DOMAIN queue'[o], Touches(queue'[o][k])
          PROVE  queue'[o][k].user = o
      BY <1>5, <2>3, EnqueuedOnly DEF OwnInv
    <2> QED
      BY <1>5, <2>2, <2>3 DEF OwnInv
  <1>6. CASE OrdersQueued
    <2>1. auth \in accounts /\ UNCHANGED <<accounts, userDocs>>
      BY <1>6 DEF OrdersQueued, SessionInv
    <2> QED
      BY <1>5, <1>6, <2>1 DEF OrdersQueued
  <1>7. ASSUME NEW w \in Write, Enqueue(<< w >>), w.user = auth, auth \in accounts,
               UNCHANGED <<accounts, userDocs>>
        PROVE  OwnInv'
    <2>1. << w >> \in Seq(Write) /\ \A k \in DOMAIN << w >> : << w >>[k] = w
      BY <1>7
    <2> QED
      BY <1>5, <1>7, <2>1
  <1>8. CASE ListQueued \/ SignUpQueued
    <2>1. auth \in accounts /\ UNCHANGED <<accounts, userDocs>>
      BY <1>8 DEF ListQueued, SignUpQueued, SessionInv
    <2>2. \E w \in Write : Enqueue(<< w >>) /\ w.user = auth
      BY <1>8 DEF ListQueued, SignUpQueued
    <2> QED
      BY <1>7, <2>1, <2>2
  <1>9. CASE Answered
    <2>1. UNCHANGED <<accounts, userDocs>>
      BY <1>9 DEF Answered
    <2>2. auth \in accounts
      BY <1>9, AnsweredTail DEF OwnInv
    <2>3. \A o \in Owners : queue'[o] # << >> => o \in accounts
      BY <1>9, <2>2, AnsweredTail DEF OwnInv
    <2>4. ASSUME NEW o \in Owners, NEW k \in DOMAIN queue'[o], Touches(queue'[o][k])
          PROVE  queue'[o][k].user = o
      BY <1>9, <2>4, AnsweredTail DEF OwnInv
    <2> QED
      BY <2>1, <2>3, <2>4 DEF OwnInv
  <1>10. CASE Commit
    <2>1. DOMAIN userDocs' \subseteq accounts
      BY <1>10, CommitFiles DEF OwnInv
    <2>2. UNCHANGED <<queue, accounts>>
      BY <1>10, CommitFiles
    <2> QED
      BY <2>1, <2>2 DEF OwnInv
  <1> QED
    BY <1>2, <1>3, <1>4, <1>6, <1>8, <1>9, <1>10, Kinds

\* What is applied has a document.
LEMMA AheadDocNext ==
    ASSUME TypeOK, AheadPlaced, SessionInv, OwnInv, AheadHasDoc, [Next]_vars
    PROVE  AheadHasDoc'
  <1>0. /\ auth \in Owners /\ ahead \in Nat /\ ahead <= Len(queue[auth])
        /\ queue[auth] \in Seq(Write) /\ Len(queue[auth]) \in Nat
        /\ \A k \in 1 .. ahead : k \in DOMAIN queue[auth]
    BY DEF TypeOK, AheadPlaced
  <1>1. ASSUME ahead' = 0
        PROVE  AheadHasDoc'
    BY <1>1 DEF AheadHasDoc
  <1>2. ASSUME UNCHANGED <<auth, ahead, userDocs>>,
               \A k \in DOMAIN queue[auth] : queue'[auth][k] = queue[auth][k]
        PROVE  AheadHasDoc'
    BY <1>0, <1>2 DEF AheadHasDoc
  <1>3. ASSUME NEW ws \in Seq(Write), Enqueue(ws), UNCHANGED <<auth, ahead, userDocs>>
        PROVE  AheadHasDoc'
    BY <1>0, <1>2, <1>3, EnqueuePending
  <1>4. CASE Terminate
    BY <1>1, <1>4 DEF Terminate
  <1>5. CASE Still \/ Turned
    BY <1>1, <1>2, <1>5, TurnedKeeps DEF Still
  <1>6. CASE OrdersQueued
    BY <1>3, <1>6 DEF OrdersQueued
  <1>7. CASE ListQueued \/ SignUpQueued
    <2>1. PICK w \in Write : Enqueue(<< w >>)
      BY <1>7 DEF ListQueued, SignUpQueued
    <2>2. << w >> \in Seq(Write)
      OBVIOUS
    <2>3. UNCHANGED <<auth, ahead, userDocs>>
      BY <1>7 DEF ListQueued, SignUpQueued
    <2> QED
      BY <1>3, <2>1, <2>2, <2>3
  <1>8. CASE Answered
    <2>1. CASE ahead' = 0
      BY <1>1, <2>1
    <2>2. CASE ahead > 0 /\ ahead' = ahead - 1
      <3>1. UNCHANGED <<auth, userDocs>> /\ queue'[auth] = Tail(queue[auth])
            /\ queue[auth] # << >>
        BY <1>8, AnsweredTail DEF Answered
      <3>2. \A k \in 1 .. ahead - 1 : k + 1 \in 1 .. ahead /\ queue'[auth][k] = queue[auth][k + 1]
        BY <1>0, <3>1
      <3> QED
        BY <2>2, <3>1, <3>2 DEF AheadHasDoc
    <2> QED
      BY <1>8, <2>1, <2>2 DEF Answered
  <1>9. CASE Commit
    <2>1. /\ UNCHANGED <<auth, queue>> /\ ahead' = ahead + 1
          /\ DOMAIN userDocs \subseteq DOMAIN userDocs'
          /\ Touches(queue[auth][ahead + 1]) => auth \in DOMAIN userDocs'
      BY <1>9, CommitFiles
    <2>2. \A k \in 1 .. ahead + 1 : k \in 1 .. ahead \/ k = ahead + 1
      BY <1>0
    <2> QED
      BY <2>1, <2>2 DEF AheadHasDoc
  <1> QED
    BY <1>4, <1>5, <1>6, <1>7, <1>8, <1>9, Kinds

(***************************************************************************)
(* The chain, from step to step                                            *)
(***************************************************************************)

\* The lists of the queues are lists of ids.
LEMMA ListsAreLists ==
    ASSUME TypeOK, NEW o \in Owners, NEW k \in DOMAIN queue[o], Touches(queue[o][k])
    PROVE  queue[o][k].ids \in Seq(OrderIDs)
  <1>1. queue[o][k] \in Write
    BY DEF TypeOK
  <1>2. queue[o][k] \in HistoryWrite \cup SignUpWrite
    BY <1>1 DEF Write, OrderWrite, Touches
  <1>3. << >> \in Seq(OrderIDs)
    OBVIOUS
  <1> QED
    BY <1>2, <1>3 DEF HistoryWrite, SignUpWrite

\* A list that the server can apply is followed by no sign-up, and the document
\* it makes is in the chain.
LEMMA CommitInChain ==
    ASSUME TypeOK, AheadPlaced, OwnInv, ChainInv, AheadHasDoc, Commit,
           Touches(queue[auth][ahead + 1])
    PROVE  /\ auth \in Users /\ Survives(queue[auth], ahead + 1)
           /\ DocChained(queue[auth], queue[auth][ahead + 1].ids)
  <1> DEFINE q == queue[auth]
             n == ahead + 1
  <1>1. /\ auth \in Owners /\ q \in Seq(Write) /\ ahead \in Nat /\ n \in DOMAIN q
        /\ DOMAIN userDocs' = DOMAIN userDocs \cup {auth}
        /\ q[n].op = "history" => auth \in DOMAIN userDocs
    BY CommitFiles
  <1>2. auth \in Users /\ q[n].op \in {"history", "signUp"}
    BY <1>1 DEF OwnInv, Touches, Write, TypeOK, HistoryWrite, SignUpWrite, OrderWrite
  <1>3. QueueChained(q) /\ (auth \in DOMAIN userDocs => DocChained(q, userDocs[auth]))
    BY <1>2 DEF ChainInv
  <1>4. \A k \in DOMAIN q : k \in Nat /\ (k < n => k \in 1 .. ahead)
    BY <1>1
  <1>5. \A k \in DOMAIN q : k < n /\ Touches(q[k]) => auth \in DOMAIN userDocs
    BY <1>4 DEF AheadHasDoc
  <1> HIDE DEF q, n
  <1>6. Survives(q, n)
    <2>1. CASE q[n].op = "history"
      BY <1>1, <1>3, <2>1 DEF DocChained
    <2>2. CASE q[n].op = "signUp"
      BY <1>1, <1>3, <1>4, <2>2 DEF QueueChained, Survives
    <2> QED
      BY <1>2, <2>1, <2>2
  <1>7. ASSUME NEW k \in DOMAIN q, q[k].op = "history"
        PROVE  Survives(q, k)
    <2>1. CASE auth \in DOMAIN userDocs
      BY <1>3, <1>7, <2>1 DEF DocChained
    <2>2. CASE auth \notin DOMAIN userDocs
      <3>1. q[n].op = "signUp"
        BY <1>1, <1>2, <2>2
      <3>2. ~(k < n)
        BY <1>5, <1>7, <2>2 DEF Touches
      <3>3. \A j \in DOMAIN q : q[j].op = "signUp" => j = n
        BY <1>1, <1>3, <3>1 DEF QueueChained
      <3> QED
        BY <1>4, <3>2, <3>3, <1>1 DEF Survives, n
    <2> QED
      BY <2>1, <2>2
  <1>8. ASSUME NEW k \in DOMAIN q, Latest(q, k)
        PROVE  IsPrefix(q[n].ids, q[k].ids)
    <2>1. n <= k /\ Touches(q[k]) /\ Touches(q[n])
      BY <1>1, <1>8 DEF Latest, q, n
    <2>2. CASE k = n
      <3>1. q[n].ids \in Seq(OrderIDs)
        BY <1>1, <2>1, ListsAreLists DEF q
      <3> QED
        BY <2>2, <3>1, PrefixReflexive
    <2>3. CASE n < k
      BY <1>1, <1>3, <1>6, <2>1, <2>3 DEF QueueChained
    <2>4. n = k \/ n < k
      BY <1>1, <1>4, <2>1
    <2> QED
      BY <2>2, <2>3, <2>4
  <1> QED
    BY <1>2, <1>6, <1>7, <1>8 DEF DocChained, q, n

\* The lists stay in one chain: no step puts a shorter list after a longer one.
LEMMA ChainNext ==
    ASSUME HistoryInv, MaxSignUps <= 1, [Next]_vars
    PROVE  ChainInv'
  <1> USE DEF HistoryInv
  <1>0. Users \subseteq Owners /\ DOMAIN userDocs \subseteq Users
        /\ auth \in Owners /\ \A o \in Owners : queue[o] \in Seq(Write)
    BY DEF Owners, TypeOK
  <1>1. ASSUME UNCHANGED <<queue, userDocs>>
        PROVE  ChainInv'
    BY <1>1 DEF ChainInv
  <1>2. ASSUME UNCHANGED userDocs,
               \A u \in Users : QueueChained(queue[u]) =>
                   /\ QueueChained(queue'[u])
                   /\ u \in DOMAIN userDocs /\ DocChained(queue[u], userDocs[u])
                        => DocChained(queue'[u], userDocs[u])
        PROVE  ChainInv'
    BY <1>2 DEF ChainInv
  <1>3. CASE Terminate
    <2>1. UNCHANGED userDocs
      BY <1>3 DEF Terminate
    <2>2. ASSUME NEW u \in Users, QueueChained(queue[u])
          PROVE  /\ QueueChained(queue'[u])
                 /\ \A doc : DocChained(queue[u], doc) => DocChained(queue'[u], doc)
      <3>1. /\ DOMAIN queue'[u] = DOMAIN queue[u]
            /\ \A k \in DOMAIN queue[u] :
                  /\ queue'[u][k].op = queue[u][k].op
                  /\ Touches(queue[u][k]) => queue'[u][k].ids = queue[u][k].ids
        BY <1>0, <1>3, TerminateSame
      <3> QED
        BY <2>2, <3>1, ChainOfSame
    <2> QED
      BY <1>2, <2>1, <2>2
  <1>4. CASE Still \/ Turned
    BY <1>1, <1>4, TurnedKeeps DEF Still
  <1>5. CASE OrdersQueued
    <2>1. PICK ws \in Seq(Write) : Enqueue(ws) /\ \A k \in DOMAIN ws : ~Touches(ws[k])
      BY <1>5 DEF OrdersQueued
    <2>2. UNCHANGED userDocs
      BY <1>5 DEF OrdersQueued
    <2>3. ASSUME NEW u \in Users, QueueChained(queue[u])
          PROVE  /\ QueueChained(queue'[u])
                 /\ \A doc : DocChained(queue[u], doc) => DocChained(queue'[u], doc)
      <3>1. /\ queue'[u] \in Seq(Write) /\ queue[u] \in Seq(Write)
            /\ Lengthens(queue'[u], queue[u])
            /\ \A k \in DOMAIN queue'[u] : k \in DOMAIN queue[u] \/ ~Touches(queue'[u][k])
        BY <1>0, <2>1, QueueGrows
      <3> QED
        BY <2>3, <3>1, ChainWithOrders
    <2> QED
      BY <1>2, <2>2, <2>3
  <1>6. CASE ListQueued
    <2>1. PICK w \in Write : /\ Enqueue(<< w >>) /\ w.op = "history" /\ w.user = auth
                             /\ w.ids = previousOrders'
      BY <1>6 DEF ListQueued
    <2>2. /\ stage = "main" /\ auth \in Users /\ previousOrders \in Seq(OrderIDs)
          /\ previousOrders' \in Seq(OrderIDs) /\ IsPrefix(previousOrders, previousOrders')
          /\ UNCHANGED userDocs
      BY <1>6 DEF ListQueued, TypeOK
    <2>3. << w >> \in Seq(Write) /\ \A o \in Owners : o # auth => queue'[o] = queue[o]
      BY <2>1, QueueGrowsByOne
    <2>4. /\ queue'[auth] \in Seq(Write) /\ queue[auth] \in Seq(Write)
          /\ Lengthens(queue'[auth], queue[auth])
      BY <1>0, <2>1, <2>3, QueueGrows
    <2>5. PICK n \in DOMAIN queue'[auth] :
             /\ n \notin DOMAIN queue[auth] /\ queue'[auth][n] = w
             /\ \A k \in DOMAIN queue'[auth] : k \in DOMAIN queue[auth] \/ k = n
      BY <2>1, QueueGrowsByOne
    <2>6. ASSUME NEW k \in DOMAIN queue[auth], Touches(queue[auth][k]),
                 Survives(queue[auth], k)
          PROVE  IsPrefix(queue[auth][k].ids, queue'[auth][n].ids)
      <3>1. IsPrefix(queue[auth][k].ids, previousOrders)
        BY <2>2, <2>6 DEF MemoryInv
      <3>2. queue[auth][k].ids \in Seq(OrderIDs)
        BY <1>0, <2>6, ListsAreLists
      <3> QED
        BY <2>1, <2>2, <2>5, <3>1, <3>2, PrefixTransitive
    <2>7. ASSUME auth \in DOMAIN userDocs
          PROVE  IsPrefix(userDocs[auth], queue'[auth][n].ids)
      <3>1. IsPrefix(userDocs[auth], previousOrders) /\ userDocs[auth] \in Seq(OrderIDs)
        BY <2>2, <2>7 DEF MemoryInv, TypeOK
      <3> QED
        BY <2>1, <2>2, <2>5, <3>1, PrefixTransitive
    <2>8. queue'[auth][n].op = "history"
      BY <2>1, <2>5
    <2>9. ASSUME QueueChained(queue[auth])
          PROVE  /\ QueueChained(queue'[auth])
                 /\ \A doc : DocChained(queue[auth], doc) /\ IsPrefix(doc, queue'[auth][n].ids)
                       => DocChained(queue'[auth], doc)
      BY <2>4, <2>5, <2>6, <2>8, <2>9, ChainWithHistory
    <2> QED
      BY <1>0, <1>2, <2>2, <2>3, <2>7, <2>9
  <1>7. CASE SignUpQueued
    <2>1. PICK w \in Write : Enqueue(<< w >>) /\ w.op = "signUp" /\ w.user = auth
      BY <1>7 DEF SignUpQueued
    <2>2. stage = "signUp" /\ SignUpsPending < MaxSignUps /\ UNCHANGED userDocs
      BY <1>7 DEF SignUpQueued
    <2>3. << w >> \in Seq(Write) /\ \A o \in Owners : o # auth => queue'[o] = queue[o]
      BY <2>1, QueueGrowsByOne
    <2>4. /\ queue'[auth] \in Seq(Write) /\ queue[auth] \in Seq(Write)
          /\ Lengthens(queue'[auth], queue[auth])
      BY <1>0, <2>1, <2>3, QueueGrows
    <2>5. PICK n \in DOMAIN queue'[auth] :
             /\ n \notin DOMAIN queue[auth] /\ queue'[auth][n] = w
             /\ \A k \in DOMAIN queue'[auth] : k \in DOMAIN queue[auth] \/ k = n
      BY <2>1, QueueGrowsByOne
    <2>6. /\ \A k \in DOMAIN queue[auth] : ~WaitsForSignUp(queue[auth][k])
          /\ \A k \in DOMAIN callbacks : callbacks[k].write.op # "signUp"
      BY <2>2, NonePending
    <2>7. \A k \in DOMAIN queue[auth] : queue[auth][k].op # "signUp"
      BY <2>2, <2>6 DEF PageInv, WaitsForSignUp
    <2>8. auth \notin DOMAIN userDocs
      BY <2>2, <2>6, <2>7 DEF PageInv
    <2>9. queue'[auth][n].op = "signUp"
      BY <2>1, <2>5
    <2>10. QueueChained(queue[auth]) => QueueChained(queue'[auth])
      BY <2>4, <2>5, <2>7, <2>9, ChainWithSignUp
    <2> QED
      BY <1>0, <1>2, <2>2, <2>3, <2>8, <2>10
  <1>8. CASE Answered
    <2>1. /\ queue'[auth] = Tail(queue[auth]) /\ queue[auth] # << >>
          /\ \A o \in Owners : o # auth => queue'[o] = queue[o]
      BY <1>8, AnsweredTail
    <2>2. UNCHANGED userDocs
      BY <1>8 DEF Answered
    <2>3. ASSUME QueueChained(queue[auth])
          PROVE  /\ QueueChained(queue'[auth])
                 /\ \A doc : DocChained(queue[auth], doc) => DocChained(queue'[auth], doc)
      BY <1>0, <2>1, <2>3, ChainOfTail
    <2> QED
      BY <1>0, <1>2, <2>1, <2>2, <2>3
  <1>9. CASE Commit
    <2> DEFINE w == queue[auth][ahead + 1]
    <2>1. CASE ~Touches(w)
      BY <1>1, <1>9, <2>1, CommitFiles
    <2>2. CASE Touches(w)
      <3>1. /\ UNCHANGED queue /\ DOMAIN userDocs' = DOMAIN userDocs \cup {auth}
            /\ userDocs'[auth] = w.ids
            /\ \A u \in DOMAIN userDocs : u # auth => userDocs'[u] = userDocs[u]
        BY <1>9, <2>2, CommitFiles
      <3>2. DocChained(queue[auth], w.ids)
        BY <1>9, <2>2, CommitInChain
      <3> HIDE DEF w
      <3>3. ASSUME NEW u \in Users, u \in DOMAIN userDocs'
            PROVE  DocChained(queue[u], userDocs'[u])
        <4>1. CASE u = auth
          BY <3>1, <3>2, <4>1
        <4>2. CASE u # auth
          BY <3>1, <3>3, <4>2 DEF ChainInv
        <4> QED
          BY <4>1, <4>2
      <3>4. \A u \in Users : QueueChained(queue[u])
        BY DEF ChainInv
      <3> QED
        BY <3>1, <3>3, <3>4 DEF ChainInv
    <2> QED
      BY <2>1, <2>2
  <1> QED
    BY <1>3, <1>4, <1>5, <1>6, <1>7, <1>8, <1>9, Kinds

(***************************************************************************)
(* The list in memory and the sign-up page, from step to step              *)
(***************************************************************************)

\* What a read finds is the document, or the latest list that waits.
LEMMA ReadsTheChain ==
    ASSUME TypeOK, OwnInv, ChainInv, auth \in Users, NEW h \in LocalHistory(auth)
    PROVE  /\ \A k \in DOMAIN queue[auth] :
                 Touches(queue[auth][k]) /\ Survives(queue[auth], k)
                   => IsPrefix(queue[auth][k].ids, h)
           /\ auth \in DOMAIN userDocs => IsPrefix(userDocs[auth], h)
           /\ \/ auth \in DOMAIN userDocs /\ h = userDocs[auth]
              \/ \E k \in DOMAIN queue[auth] :
                    /\ Touches(queue[auth][k]) /\ Survives(queue[auth], k)
                    /\ h = queue[auth][k].ids
  <1> DEFINE q == queue[auth]
             touching == {k \in DOMAIN q : q[k].op \in {"history", "signUp"} /\ q[k].user = auth}
  <1>1. auth \in Owners /\ q \in Seq(Write)
    BY DEF TypeOK, Owners
  <1>2. touching = {k \in DOMAIN q : Touches(q[k])}
    BY <1>1 DEF OwnInv, Touches
  <1>3. QueueChained(q) /\ (auth \in DOMAIN userDocs => DocChained(q, userDocs[auth]))
    BY DEF ChainInv
  <1>4. \A k \in DOMAIN q : Touches(q[k]) => q[k].ids \in Seq(OrderIDs)
    BY <1>1, ListsAreLists
  <1>5. CASE touching = {}
    <2>1. auth \in DOMAIN userDocs /\ h = userDocs[auth]
      BY <1>5 DEF LocalHistory
    <2>2. h \in Seq(OrderIDs)
      BY <2>1 DEF TypeOK
    <2> QED
      BY <1>2, <1>5, <2>1, <2>2, PrefixReflexive
  <1>6. CASE touching # {}
    <2>1. PICK k \in touching : (\A j \in touching : j <= k) /\ h = q[k].ids
      BY <1>6 DEF LocalHistory
    <2> HIDE DEF q, touching
    <2>2. k \in DOMAIN q /\ Touches(q[k]) /\ Latest(q, k)
      BY <1>2, <2>1 DEF Latest
    <2>3. Survives(q, k)
      BY <1>1, <2>2 DEF Latest, Survives, Touches
    <2>4. ASSUME NEW j \in DOMAIN q, Touches(q[j]), Survives(q, j)
          PROVE  IsPrefix(q[j].ids, h)
      <3>1. CASE j = k
        BY <1>4, <2>1, <2>4, <3>1, PrefixReflexive
      <3>2. CASE j # k
        <4>1. j < k
          BY <1>1, <2>2, <2>4, <3>2 DEF Latest
        <4> QED
          BY <1>3, <2>1, <2>2, <2>4, <4>1 DEF QueueChained
      <3> QED
        BY <3>1, <3>2
    <2>5. auth \in DOMAIN userDocs => IsPrefix(userDocs[auth], h)
      BY <1>3, <2>1, <2>2 DEF DocChained
    <2> QED
      BY <2>1, <2>2, <2>3, <2>4, <2>5 DEF q
  <1> QED
    BY <1>5, <1>6

\* Nothing is found only where there is nothing.
LEMMA NothingIsRead ==
    ASSUME TypeOK, OwnInv, auth \in Users, LocalHistory(auth) = {}
    PROVE  /\ auth \notin DOMAIN userDocs
           /\ \A k \in DOMAIN queue[auth] : queue[auth][k].op # "signUp"
  <1> DEFINE q == queue[auth]
             touching == {k \in DOMAIN q : q[k].op \in {"history", "signUp"} /\ q[k].user = auth}
             present == \/ auth \in DOMAIN userDocs
                        \/ \E k \in touching : q[k].op = "signUp"
  <1>1. auth \in Owners /\ q \in Seq(Write)
    BY DEF TypeOK, Owners
  <1>2. \A k \in DOMAIN q : q[k].op = "signUp" => k \in touching
    BY <1>1 DEF OwnInv, Touches
  <1>3. SUFFICES ASSUME present PROVE FALSE
    BY <1>2
  <1>4. CASE touching = {}
    BY <1>3, <1>4 DEF LocalHistory
  <1>5. CASE touching # {}
    <2>1. touching \in SUBSET Nat /\ Len(q) \in Nat /\ \A k \in touching : k <= Len(q)
      BY <1>1
    <2>2. PICK k \in touching : \A j \in touching : k >= j
      <3> HIDE DEF touching, q
      <3>1. Max(touching) \in touching /\ \A y \in touching : Max(touching) >= y
        BY <1>5, <2>1, MaxOfBounded
      <3> QED
        BY <3>1
    <2>3. \A j \in touching : j <= k
      BY <2>1, <2>2
    <2>4. q[k].ids \in LocalHistory(auth)
      BY <1>3, <1>5, <2>2, <2>3 DEF LocalHistory
    <2> QED
      BY <2>4
  <1> QED
    BY <1>4, <1>5

\* The list in memory stays the end of the chain of whoever is signed in.
LEMMA MemoryNext ==
    ASSUME HistoryInv, [Next]_vars
    PROVE  MemoryInv'
  <1> USE DEF HistoryInv, session, server
  <1>0. /\ auth \in Owners /\ \A o \in Owners : queue[o] \in Seq(Write)
        /\ previousOrders \in Seq(OrderIDs)
    BY DEF TypeOK
  <1>1. ASSUME stage' # "main"
        PROVE  MemoryInv'
    BY <1>1 DEF MemoryInv
  <1>2. CASE Terminate
    BY <1>1, <1>2 DEF Terminate
  <1>3. CASE Still
    BY <1>3 DEF Still, MemoryInv
  <1>4. CASE OrdersQueued
    <2>1. PICK ws \in Seq(Write) : Enqueue(ws) /\ \A k \in DOMAIN ws : ~Touches(ws[k])
      BY <1>4 DEF OrdersQueued
    <2>2. stage = "main" /\ UNCHANGED <<auth, userDocs, previousOrders>>
      BY <1>4 DEF OrdersQueued
    <2>3. /\ queue'[auth] \in Seq(Write) /\ queue[auth] \in Seq(Write)
          /\ Lengthens(queue'[auth], queue[auth])
          /\ \A k \in DOMAIN queue'[auth] :
                k \in DOMAIN queue[auth] \/ ~Touches(queue'[auth][k])
      BY <1>0, <2>1, QueueGrows
    <2>4. \A k \in DOMAIN queue[auth] :
             Survives(queue'[auth], k) <=> Survives(queue[auth], k)
      BY <2>3, ChainWithOrders
    <2>5. ASSUME NEW k \in DOMAIN queue'[auth], Touches(queue'[auth][k]),
                 Survives(queue'[auth], k)
          PROVE  IsPrefix(queue'[auth][k].ids, previousOrders)
      <3>1. k \in DOMAIN queue[auth] /\ queue'[auth][k] = queue[auth][k]
        BY <2>3, <2>5 DEF Lengthens
      <3> QED
        BY <2>2, <2>4, <2>5, <3>1 DEF MemoryInv
    <2> QED
      BY <2>2, <2>5 DEF MemoryInv
  <1>5. CASE ListQueued
    <2>1. PICK w \in Write : /\ Enqueue(<< w >>) /\ w.op = "history" /\ w.user = auth
                             /\ w.ids = previousOrders'
      BY <1>5 DEF ListQueued
    <2>2. /\ stage = "main" /\ previousOrders' \in Seq(OrderIDs)
          /\ IsPrefix(previousOrders, previousOrders') /\ UNCHANGED <<auth, userDocs>>
      BY <1>5 DEF ListQueued
    <2>3. << w >> \in Seq(Write)
      BY <2>1, QueueGrowsByOne
    <2>4. Lengthens(queue'[auth], queue[auth])
      BY <1>0, <2>1, <2>3, QueueGrows
    <2>5. PICK n \in DOMAIN queue'[auth] :
             /\ n \notin DOMAIN queue[auth] /\ queue'[auth][n] = w
             /\ \A k \in DOMAIN queue'[auth] : k \in DOMAIN queue[auth] \/ k = n
      BY <2>1, QueueGrowsByOne
    <2>6. ASSUME NEW k \in DOMAIN queue'[auth], Touches(queue'[auth][k]),
                 Survives(queue'[auth], k)
          PROVE  IsPrefix(queue'[auth][k].ids, previousOrders')
      <3>1. CASE k = n
        BY <2>1, <2>2, <2>5, <3>1, PrefixReflexive
      <3>2. CASE k # n
        <4>1. k \in DOMAIN queue[auth] /\ queue'[auth][k] = queue[auth][k]
          BY <2>4, <2>5, <2>6, <3>2 DEF Lengthens
        <4>2. Survives(queue[auth], k)
          BY <2>4, <2>6 DEF Survives, Lengthens
        <4>3. IsPrefix(queue[auth][k].ids, previousOrders)
          BY <2>2, <2>6, <4>1, <4>2 DEF MemoryInv
        <4>4. queue[auth][k].ids \in Seq(OrderIDs)
          BY <1>0, <2>6, <4>1, ListsAreLists
        <4> QED
          BY <1>0, <2>2, <4>1, <4>3, <4>4, PrefixTransitive
      <3> QED
        BY <3>1, <3>2
    <2>7. ASSUME auth \in DOMAIN userDocs
          PROVE  IsPrefix(userDocs[auth], previousOrders')
      <3>1. IsPrefix(userDocs[auth], previousOrders) /\ userDocs[auth] \in Seq(OrderIDs)
        BY <2>2, <2>7 DEF MemoryInv, TypeOK
      <3> QED
        BY <1>0, <2>2, <3>1, PrefixTransitive
    <2> QED
      BY <2>2, <2>6, <2>7 DEF MemoryInv
  <1>6. CASE SignUpQueued
    BY <1>1, <1>6 DEF SignUpQueued
  <1>7. CASE Answered
    <2>1. /\ queue'[auth] = Tail(queue[auth]) /\ queue[auth] # << >>
          /\ UNCHANGED <<stage, auth, userDocs, previousOrders>>
      BY <1>7, AnsweredTail DEF Answered
    <2>2. ASSUME NEW k \in DOMAIN queue'[auth], Touches(queue'[auth][k]),
                 Survives(queue'[auth], k), stage = "main"
          PROVE  IsPrefix(queue'[auth][k].ids, previousOrders)
      <3>1. /\ k + 1 \in DOMAIN queue[auth] /\ queue'[auth][k] = queue[auth][k + 1]
            /\ Survives(queue[auth], k + 1)
        BY <1>0, <2>1, <2>2, SurvivesTail
      <3> QED
        BY <2>2, <3>1 DEF MemoryInv
    <2> QED
      BY <2>1, <2>2 DEF MemoryInv
  <1>8. CASE Commit
    <2> DEFINE w == queue[auth][ahead + 1]
    <2>1. CASE ~Touches(w)
      BY <1>8, <2>1, CommitFiles DEF MemoryInv
    <2>2. CASE Touches(w)
      <3>1. /\ UNCHANGED <<stage, auth, queue, previousOrders>>
            /\ ahead + 1 \in DOMAIN queue[auth] /\ userDocs'[auth] = w.ids
        BY <1>8, <2>2, CommitFiles
      <3>2. Survives(queue[auth], ahead + 1)
        BY <1>8, <2>2, CommitInChain
      <3>3. stage = "main" => IsPrefix(w.ids, previousOrders)
        BY <2>2, <3>1, <3>2 DEF MemoryInv
      <3> HIDE DEF w
      <3> QED
        BY <3>1, <3>3 DEF MemoryInv
    <2> QED
      BY <2>1, <2>2
  <1>9. CASE SignUpReturned
    <2>1. /\ callbacks # << >> /\ Head(callbacks).write.op = "signUp"
          /\ UNCHANGED <<auth, queue, userDocs, previousOrders>>
      BY <1>9 DEF SignUpReturned, Returned
    <2>2. 1 \in DOMAIN callbacks /\ callbacks[1].write.op = "signUp"
      BY <2>1, TailBlocks
    <2>3. stage = "signUp" /\ queue[auth] = << >>
      BY <2>2 DEF SignUpInv
    <2>4. previousOrders = << >>
      BY <2>3 DEF SessionInv
    <2>5. auth \in DOMAIN userDocs => userDocs[auth] = << >>
      BY <2>3 DEF PageInv
    <2>6. IsPrefix(<< >>, previousOrders)
      BY <1>0, EmptyIsPrefix
    <2> QED
      BY <2>1, <2>3, <2>5, <2>6 DEF MemoryInv
  <1>10. CASE Launch \/ SignOut
    BY <1>1, <1>10 DEF Launch, SignOut
  <1>11. ASSUME NEW u \in Users, Authenticate(u)
         PROVE  MemoryInv'
    BY <1>1, <1>11 DEF Authenticate
  <1>12. ASSUME NEW r \in reads, Populate(r)
         PROVE  MemoryInv'
    <2>1. r.user = auth /\ auth \in Users
      BY OneRead
    <2>2. /\ previousOrders' \in LocalHistory(auth)
          /\ UNCHANGED <<auth, queue, userDocs>>
      BY <1>12, <2>1 DEF Populate, ReadEnds
    <2> QED
      BY <2>1, <2>2, ReadsTheChain DEF MemoryInv
  <1>13. ASSUME NEW r \in reads, PopulateFails(r)
         PROVE  MemoryInv'
    <2>1. uid = NoUser
      BY OneRead
    <2>2. stage' = ScreenAfter(r.from, uid)
      BY <1>13 DEF PopulateFails, ReadEnds
    <2> QED
      BY <1>1, <2>1, <2>2 DEF ScreenAfter
  <1> QED
    BY <1>2, <1>3, <1>4, <1>5, <1>6, <1>7, <1>8, <1>9, <1>10, <1>11, <1>12, <1>13, Kinds
    DEF Turned, ReadSteps

\* The sign-up page stays a page for those who have no document.
LEMMA PageNext ==
    ASSUME HistoryInv, ~ReadErrors, MaxSignUps <= 1, [Next]_vars
    PROVE  PageInv'
  <1> USE DEF HistoryInv, session, server
  <1>0. /\ auth \in Owners /\ \A o \in Owners : queue[o] \in Seq(Write)
        /\ callbacks \in Seq(Callback)
    BY DEF TypeOK
  <1>1. ASSUME stage' # "signUp"
        PROVE  PageInv'
    BY <1>1 DEF PageInv
  <1>2. CASE Terminate
    BY <1>1, <1>2 DEF Terminate
  <1>3. CASE Still
    <2>1. UNCHANGED <<stage, auth, queue, userDocs>>
      BY <1>3 DEF Still
    <2>2. ASSUME NEW k \in DOMAIN callbacks, callbacks[k].write.op = "signUp"
          PROVE  \E j \in DOMAIN callbacks' : callbacks'[j].write.op = "signUp"
      <3>1. CASE UNCHANGED callbacks
        BY <2>2, <3>1
      <3>2. CASE /\ callbacks # << >> /\ Head(callbacks).write.op # "signUp"
                 /\ callbacks' = Tail(callbacks)
        <4>1. Head(callbacks) = callbacks[1]
          BY <3>2, TailBlocks
        <4>2. k # 1
          BY <2>2, <3>2, <4>1
        <4>3. PICK n \in Nat : n = Len(callbacks) /\ DOMAIN callbacks = 1 .. n
          BY <1>0
        <4>4. k - 1 \in DOMAIN Tail(callbacks) /\ Tail(callbacks)[k - 1] = callbacks[k]
          BY <1>0, <3>2, <4>2, <4>3
        <4> QED
          BY <2>2, <3>2, <4>4
      <3> QED
        BY <1>3, <3>1, <3>2 DEF Still
    <2> QED
      BY <2>1, <2>2 DEF PageInv
  <1>4. CASE OrdersQueued \/ ListQueued
    BY <1>1, <1>4 DEF OrdersQueued, ListQueued
  <1>5. CASE SignUpQueued
    <2>1. PICK w \in Write : Enqueue(<< w >>) /\ w.op = "signUp" /\ w.live
      BY <1>5 DEF SignUpQueued
    <2>2. /\ stage = "signUp" /\ SignUpsPending < MaxSignUps
          /\ UNCHANGED <<stage, auth, userDocs, callbacks>>
      BY <1>5 DEF SignUpQueued
    <2>3. << w >> \in Seq(Write)
      BY <2>1, QueueGrowsByOne
    <2>4. Lengthens(queue'[auth], queue[auth])
      BY <1>0, <2>1, <2>3, QueueGrows
    <2>5. PICK n \in DOMAIN queue'[auth] :
             /\ n \notin DOMAIN queue[auth] /\ queue'[auth][n] = w
             /\ \A k \in DOMAIN queue'[auth] : k \in DOMAIN queue[auth] \/ k = n
      BY <2>1, QueueGrowsByOne
    <2>6. /\ \A k \in DOMAIN queue[auth] : ~WaitsForSignUp(queue[auth][k])
          /\ \A k \in DOMAIN callbacks : callbacks[k].write.op # "signUp"
      BY <2>2, NonePending
    <2>7. \A k \in DOMAIN queue[auth] : queue[auth][k].op # "signUp"
      BY <2>2, <2>6 DEF PageInv, WaitsForSignUp
    <2>8. auth \notin DOMAIN userDocs
      BY <2>2, <2>6, <2>7 DEF PageInv
    <2>9. \A k \in DOMAIN queue'[auth] : queue'[auth][k].op = "signUp" => queue'[auth][k].live
      BY <2>1, <2>4, <2>5, <2>7 DEF Lengthens
    <2> QED
      BY <2>2, <2>8, <2>9 DEF PageInv
  <1>6. CASE Answered
    <2>1. /\ queue'[auth] = Tail(queue[auth]) /\ queue[auth] # << >>
          /\ UNCHANGED <<stage, auth, userDocs>>
      BY <1>6, AnsweredTail DEF Answered
    <2>2. PICK ok \in BOOLEAN : Answer(Head(queue[auth]), ok)
      BY <1>6 DEF Answered
    <2>3. /\ \A k \in DOMAIN Tail(queue[auth]) :
               k + 1 \in DOMAIN queue[auth] /\ Tail(queue[auth])[k] = queue[auth][k + 1]
          /\ \A k \in DOMAIN queue[auth] :
               k > 1 => k - 1 \in DOMAIN Tail(queue[auth])
                        /\ Tail(queue[auth])[k - 1] = queue[auth][k]
      BY <1>0, <2>1, TailWrites
    <2>4. ASSUME stage = "signUp", NEW k \in DOMAIN queue'[auth],
                 queue'[auth][k].op = "signUp"
          PROVE  queue'[auth][k].live
      BY <2>1, <2>3, <2>4 DEF PageInv
    <2>5. ASSUME stage = "signUp", NEW k \in DOMAIN queue[auth],
                 queue[auth][k].op = "signUp"
          PROVE  \/ \E j \in DOMAIN queue'[auth] : queue'[auth][j].op = "signUp"
                 \/ \E j \in DOMAIN callbacks' : callbacks'[j].write.op = "signUp"
      <3>0. k \in Nat /\ k >= 1
        BY <1>0
      <3>1. CASE k > 1
        BY <2>1, <2>3, <2>5, <3>1
      <3>2. CASE k = 1
        <4> DEFINE w == Head(queue[auth])
        <4>1. w = queue[auth][1]
          BY <1>0, <2>1
        <4>2. w.op = "signUp" /\ w.live
          BY <2>5, <3>2, <4>1 DEF PageInv
        <4>3. callbacks' = Append(callbacks, [write |-> w, ok |-> ok])
          BY <2>2, <4>2 DEF Answer
        <4> HIDE DEF w
        <4>4. PICK n \in Nat : n = Len(callbacks)
          BY <1>0
        <4>5. n + 1 \in DOMAIN callbacks' /\ callbacks'[n + 1] = [write |-> w, ok |-> ok]
          BY <1>0, <4>3, <4>4
        <4> QED
          BY <4>2, <4>5
      <3> QED
        BY <3>0, <3>1, <3>2
    <2>6. ASSUME NEW k \in DOMAIN callbacks, callbacks[k].write.op = "signUp"
          PROVE  FALSE
      BY <2>1, <2>6 DEF SignUpInv
    <2> QED
      BY <2>1, <2>4, <2>5, <2>6 DEF PageInv
  <1>7. CASE Commit
    <2> DEFINE w == queue[auth][ahead + 1]
    <2>1. /\ UNCHANGED <<stage, auth, queue, callbacks>> /\ ahead + 1 \in DOMAIN queue[auth]
      BY <1>7, CommitFiles
    <2>2. CASE ~Touches(w)
      BY <1>7, <2>1, <2>2, CommitFiles DEF PageInv
    <2>3. CASE Touches(w)
      <3>1. /\ userDocs'[auth] = w.ids
            /\ w.op = "history" => auth \in DOMAIN userDocs
            /\ w.op = "signUp" => w.ids = << >>
        BY <1>7, <2>3, CommitFiles
      <3>2. Survives(queue[auth], ahead + 1)
        BY <1>7, <2>3, CommitInChain
      <3>3. CASE w.op = "signUp"
        BY <2>1, <3>1, <3>3 DEF PageInv
      <3>4. CASE w.op = "history" /\ stage = "signUp"
        <4>1. \A k \in DOMAIN callbacks : callbacks[k].write.op # "signUp"
          <5>1. queue[auth] # << >>
            BY <2>1
          <5> QED
            BY <5>1 DEF SignUpInv
        <4>2. PICK j \in DOMAIN queue[auth] : queue[auth][j].op = "signUp"
          BY <3>1, <3>4, <4>1 DEF PageInv
        <4>3. j = Len(queue[auth])
          BY <1>0, <3>4, <4>2 DEF PageInv, SignUpInv
        <4>4. ahead + 1 # j
          BY <3>4, <4>2
        <4>5. ahead + 1 <= Len(queue[auth]) /\ ahead + 1 \in Int /\ j \in Int
          BY <1>0, <2>1, <4>2
        <4>6. j > ahead + 1
          BY <4>3, <4>4, <4>5
        <4> QED
          BY <3>2, <4>2, <4>6 DEF Survives
      <3> HIDE DEF w
      <3>5. w.op \in {"history", "signUp"}
        BY <2>3 DEF Touches
      <3> QED
        BY <1>1, <2>1, <3>3, <3>4, <3>5
    <2> QED
      BY <2>2, <2>3
  <1>8. CASE SignUpReturned \/ Launch \/ SignOut
    BY <1>1, <1>8 DEF SignUpReturned, Launch, SignOut
  <1>9. ASSUME NEW u \in Users, Authenticate(u)
        PROVE  PageInv'
    <2>1. auth' = u /\ UNCHANGED <<queue, userDocs>>
      BY <1>9 DEF Authenticate
    <2>2. CASE u \in accounts
      BY <1>1, <1>9, <2>2 DEF Authenticate
    <2>3. CASE u \notin accounts
      <3>1. u \notin DOMAIN userDocs /\ queue[u] = << >>
        BY <2>3 DEF OwnInv, Owners
      <3> QED
        BY <2>1, <3>1 DEF PageInv
    <2> QED
      BY <2>2, <2>3
  <1>10. ASSUME NEW r \in reads, Populate(r)
         PROVE  PageInv'
    <2>1. r.user # NoUser
      BY OneRead, CheckoutAssumptions
    <2> QED
      BY <1>1, <1>10, <2>1 DEF Populate, ReadEnds, ScreenAfter
  <1>11. ASSUME NEW r \in reads, PopulateFails(r)
         PROVE  PageInv'
    <2>1. r.user = auth /\ auth \in Users
      BY OneRead
    <2>2. LocalHistory(auth) = {} /\ UNCHANGED <<auth, queue, userDocs>>
      BY <1>11, <2>1 DEF PopulateFails, ReadEnds
    <2>3. /\ auth \notin DOMAIN userDocs
          /\ \A k \in DOMAIN queue[auth] : queue[auth][k].op # "signUp"
      BY <2>1, <2>2, NothingIsRead
    <2> QED
      BY <2>2, <2>3 DEF PageInv
  <1> QED
    BY <1>2, <1>3, <1>4, <1>5, <1>6, <1>7, <1>8, <1>9, <1>10, <1>11, Kinds
    DEF Turned, ReadSteps

(***************************************************************************)
(* The invariant, and what follows from it                                 *)
(***************************************************************************)

\* Nobody is signed in and nothing waits at first.
LEMMA HistoryInit == Init => HistoryInv
  <1> SUFFICES ASSUME Init PROVE HistoryInv
    OBVIOUS
  <1>1. TypeOK /\ AheadPlaced
    BY TypeInit, AheadInit
  <1>2. SessionInv
    BY DEF Init, SessionInv
  <1>3. SignUpInv
    BY DEF Init, SignUpInv
  <1>4. OwnInv
    BY CheckoutAssumptions DEF Init, OwnInv
  <1>5. ChainInv
    BY CheckoutAssumptions DEF Init, ChainInv, QueueChained, DocChained, Owners
  <1>6. AheadHasDoc /\ MemoryInv /\ PageInv
    BY DEF Init, AheadHasDoc, MemoryInv, PageInv
  <1> QED
    BY <1>1, <1>2, <1>3, <1>4, <1>5, <1>6 DEF HistoryInv

\* The parts together are inductive.
LEMMA HistoryNext ==
    ASSUME HistoryInv, ~ReadErrors, MaxSignUps <= 1, [Next]_vars
    PROVE  HistoryInv'
  <1>1. /\ TypeOK /\ AheadPlaced /\ SessionInv /\ SignUpInv /\ OwnInv /\ ChainInv
        /\ AheadHasDoc /\ MemoryInv /\ PageInv
    BY DEF HistoryInv
  <1>2. TypeOK' /\ AheadPlaced'
    BY <1>1, TypeNext, AheadNext
  <1>3. SessionInv' /\ SignUpInv' /\ OwnInv'
    BY <1>1, SessionNext, SignUpNext, OwnNext
  <1>4. ChainInv' /\ AheadHasDoc'
    BY <1>1, ChainNext, AheadDocNext
  <1>5. MemoryInv' /\ PageInv'
    BY MemoryNext, PageNext
  <1> QED
    BY <1>2, <1>3, <1>4, <1>5 DEF HistoryInv

\* The invariant the theorems of this module rest on.
LEMMA HistoryHolds ==
    ASSUME ~ReadErrors, MaxSignUps <= 1
    PROVE  Spec => []HistoryInv
  <1>1. HistoryInv /\ [Next]_vars => HistoryInv'
    BY HistoryNext
  <1> QED
    BY <1>1, HistoryInit, PTL DEF Spec

\* While a user is signed in, whoever reads the user's document finds an earlier
\* state of the list in memory: when reading it does not fail and no second
\* sign-up is sent before the first is answered.
THEOREM ListsOnlyGrow ==
    ASSUME ~ReadErrors, MaxSignUps <= 1
    PROVE  Spec => []HistoryIsPrefix
  <1>1. HistoryInv => HistoryIsPrefix
    <2> SUFFICES ASSUME HistoryInv, stage = "main", NEW h \in LocalHistory(uid)
                 PROVE  IsPrefix(h, previousOrders)
      BY DEF HistoryIsPrefix
    <2>1. uid = auth /\ auth \in Users
      BY DEF HistoryInv, SessionInv, TypeOK, Owners
    <2>2. \/ auth \in DOMAIN userDocs /\ h = userDocs[auth]
          \/ \E k \in DOMAIN queue[auth] :
                /\ Touches(queue[auth][k]) /\ Survives(queue[auth], k)
                /\ h = queue[auth][k].ids
      BY <2>1, ReadsTheChain DEF HistoryInv
    <2> QED
      BY <2>2 DEF HistoryInv, MemoryInv
  <1> QED
    BY <1>1, HistoryHolds, PTL

(***************************************************************************)
(* The order book                                                          *)
(***************************************************************************)

\* An order is written under an id that has been given out.
IdUsed(w, n) == ~Touches(w) => w.id < n

IdsInv ==
    /\ nextID <= MaxOrders + 1
    /\ \A o \in Owners : \A k \in DOMAIN queue[o] : IdUsed(queue[o][k], nextID)
    /\ \A k \in DOMAIN callbacks : IdUsed(callbacks[k].write, nextID)
    /\ \A b \in Baskets : orders[b].orderID < nextID

\* No id has been given out at first.
LEMMA IdsInit == Init => IdsInv
  BY CheckoutAssumptions DEF Init, IdsInv, EmptyOrders, EmptyOrder, NoID

\* Who answers hands the write on as it was.
LEMMA AnswerHandsOn ==
    ASSUME TypeOK, Connected, NEW ok \in BOOLEAN, Answer(Head(queue[auth]), ok),
           NEW k \in DOMAIN callbacks'
    PROVE  \/ k \in DOMAIN callbacks /\ callbacks'[k] = callbacks[k]
           \/ 1 \in DOMAIN queue[auth] /\ callbacks'[k].write = queue[auth][1]
  <1>1. /\ queue[auth] \in Seq(Write) /\ queue[auth] # << >> /\ callbacks \in Seq(Callback)
    BY DEF TypeOK, Connected
  <1>2. 1 \in DOMAIN queue[auth] /\ Head(queue[auth]) = queue[auth][1]
    BY <1>1
  <1>3. CASE callbacks' = callbacks
    BY <1>3
  <1>4. CASE callbacks' = Append(callbacks, [write |-> Head(queue[auth]), ok |-> ok])
    BY <1>1, <1>2, <1>4
  <1> QED
    BY <1>3, <1>4 DEF Answer

\* Ids are used only after they are given out.
LEMMA IdsNext ==
    ASSUME TypeOK, IdsInv, [Next]_vars
    PROVE  IdsInv'
  <1> USE DEF session, server
  <1>0. /\ nextID \in Nat /\ nextID >= 1 /\ orders \in [Baskets -> Order]
        /\ queue \in [Owners -> Seq(Write)] /\ auth \in Owners
    BY DEF TypeOK, OrderIDs, NoID
  <1>1. ASSUME UNCHANGED nextID,
               \A o \in Owners : \A k \in DOMAIN queue'[o] : IdUsed(queue'[o][k], nextID),
               \A k \in DOMAIN callbacks' : IdUsed(callbacks'[k].write, nextID),
               \A b \in Baskets : orders'[b].orderID < nextID
        PROVE  IdsInv'
    BY <1>1 DEF IdsInv
  <1>2. ASSUME callbacks # << >>, callbacks' = Tail(callbacks)
        PROVE  \A k \in DOMAIN callbacks' : IdUsed(callbacks'[k].write, nextID)
    BY <1>2, TailBlocks DEF IdsInv
  <1>3. CASE Terminate
    <2>1. ASSUME NEW o \in Owners, NEW k \in DOMAIN queue'[o]
          PROVE  IdUsed(queue'[o][k], nextID)
      <3>1. k \in DOMAIN queue[o] /\ queue'[o][k].op = queue[o][k].op
        BY <1>3, <2>1, TerminateSame
      <3>2. ~Touches(queue'[o][k]) => ~Touches(queue[o][k])
        BY <3>1 DEF Touches
      <3>3. ~Touches(queue[o][k]) => queue'[o][k].id = queue[o][k].id
        BY <1>3, <3>1, TerminateSame
      <3> QED
        BY <3>1, <3>2, <3>3 DEF IdsInv, IdUsed
    <2>2. /\ UNCHANGED nextID /\ callbacks' = << >>
          /\ \A b \in Baskets : orders'[b].orderID = 0
      BY <1>3 DEF Terminate, EmptyOrders, EmptyOrder, NoID
    <2> QED
      BY <1>0, <1>1, <2>1, <2>2
  <1>4. CASE Checkout
    <2>1. /\ UNCHANGED <<orders, callbacks>> /\ nextID' \in Nat
          /\ nextID <= nextID' /\ nextID' <= MaxOrders + 1
      <3>1. NewDocs("cafeOrder") \in {0, 1} /\ NewDocs("barOrder") \in {0, 1}
        BY DEF NewDocs
      <3> QED
        BY <1>0, <1>4, <3>1 DEF Checkout
    <2>2. PICK ws \in Seq(Write) :
             /\ Enqueue(ws)
             /\ \A k \in DOMAIN ws : \E b \in Baskets, id \in OrderIDs :
                   /\ ws[k] = OrderWriteTo(b, DocumentID(b, id))
                   /\ orders[b].orderID = NoID => id < nextID'
      BY <1>4, CheckoutEnqueues
    <2>3. ASSUME NEW w, IdUsed(w, nextID), ~Touches(w) => w.id \in Nat
          PROVE  IdUsed(w, nextID')
      BY <1>0, <2>1, <2>3 DEF IdUsed
    <2>4. ASSUME NEW w \in Write
          PROVE  ~Touches(w) => w.id \in Nat
      BY <2>4 DEF Touches, Write, OrderWrite, HistoryWrite, SignUpWrite, OrderIDs
    <2>5. ASSUME NEW k \in DOMAIN ws
          PROVE  IdUsed(ws[k], nextID')
      <3>1. PICK b \in Baskets, id \in OrderIDs :
               /\ ws[k] = OrderWriteTo(b, DocumentID(b, id))
               /\ orders[b].orderID = NoID => id < nextID'
        BY <2>2, <2>5
      <3>2. orders[b].orderID < nextID /\ orders[b].orderID \in Nat
        BY <1>0 DEF IdsInv, Order
      <3>3. DocumentID(b, id) < nextID'
        BY <1>0, <2>1, <3>1, <3>2 DEF DocumentID
      <3> QED
        BY <3>1, <3>3 DEF OrderWriteTo, IdUsed
    <2>6. ASSUME NEW o \in Owners, NEW k \in DOMAIN queue'[o]
          PROVE  IdUsed(queue'[o][k], nextID')
      <3>1. CASE k \in DOMAIN queue[o] /\ queue'[o][k] = queue[o][k]
        <4>1. queue[o][k] \in Write /\ IdUsed(queue[o][k], nextID)
          BY <1>0, <3>1 DEF IdsInv
        <4> QED
          BY <2>3, <2>4, <3>1, <4>1
      <3> QED
        BY <2>2, <2>5, <2>6, <3>1, EnqueuedOnly
    <2>7. ASSUME NEW k \in DOMAIN callbacks
          PROVE  IdUsed(callbacks[k].write, nextID')
      <3>0. callbacks[k] \in Callback
        BY <2>7 DEF TypeOK
      <3>1. callbacks[k].write \in Write /\ IdUsed(callbacks[k].write, nextID)
        BY <2>7, <3>0 DEF IdsInv, Callback
      <3> QED
        BY <2>3, <2>4, <3>1
    <2>8. ASSUME NEW b \in Baskets
          PROVE  orders[b].orderID < nextID'
      <3>1. orders[b].orderID < nextID /\ orders[b].orderID \in Nat
        BY <1>0 DEF IdsInv, Order
      <3> QED
        BY <1>0, <2>1, <3>1
    <2> QED
      BY <2>1, <2>6, <2>7, <2>8 DEF IdsInv
  <1>5. ASSUME NEW w \in Write, Enqueue(<< w >>), Touches(w)
        PROVE  \A o \in Owners : \A k \in DOMAIN queue'[o] : IdUsed(queue'[o][k], nextID)
    <2>2. ASSUME NEW o \in Owners, NEW k \in DOMAIN queue'[o]
          PROVE  \/ k \in DOMAIN queue[o] /\ queue'[o][k] = queue[o][k]
                 \/ queue'[o][k] = w
      BY <1>5, <2>2, OneEnqueued
    <2>3. IdUsed(w, nextID)
      BY <1>5 DEF IdUsed
    <2> QED
      BY <2>2, <2>3 DEF IdsInv
  <1>6. CASE SaveReturned /\ ~Terminate
    <2> DEFINE cb  == Head(callbacks)
               b   == cb.write.basket
               id  == SavedID(cb)
               w   == [op |-> "history", basket |-> b, user |-> uid, ids |-> WithOrder(id),
                       live |-> TRUE]
    <2>0. callbacks # << >> /\ callbacks' = Tail(callbacks) /\ UNCHANGED nextID
      BY <1>6 DEF SaveReturned, Returned
    <2>1. CASE id = NoID
      <3>1. UNCHANGED <<orders, queue>>
        BY <1>6, <2>1 DEF SaveReturned
      <3> QED
        BY <1>1, <1>2, <2>0, <3>1 DEF IdsInv
    <2>2. CASE id # NoID
      <3>1. cb \in Callback /\ cb.write.op = "save" /\ 1 \in DOMAIN callbacks /\ cb = callbacks[1]
        BY <1>6, <2>0, HeadTailProperties, TailBlocks DEF SaveReturned, Returned, TypeOK
      <3>2. cb.write \in OrderWrite
        BY <3>1 DEF Callback, Write, HistoryWrite, SignUpWrite
      <3>3. b \in Baskets /\ id \in Nat
        BY <3>2 DEF SavedID, OrderWrite, OrderIDs, TypeOK, Order
      <3>4. /\ uid # NoUser /\ Enqueue(<< w >>)
            /\ orders' = [orders EXCEPT ![b].orderID = id]
        BY <1>6, <2>2 DEF SaveReturned
      <3>5. uid \in Users /\ WithOrder(id) \in Seq(OrderIDs)
        BY <2>2, <3>3, <3>4 DEF WithOrder, TypeOK, Owners, OrderIDs
      <3>6. w \in Write /\ Touches(w)
        BY <3>3, <3>5 DEF Write, HistoryWrite, Touches
      <3>7. id < nextID
        <4>1. cb.write.id < nextID
          BY <3>1 DEF IdsInv, IdUsed, Touches
        <4>2. orders[b].orderID < nextID
          BY <3>3 DEF IdsInv
        <4> QED
          BY <4>1, <4>2 DEF SavedID
      <3> HIDE DEF w, b, id
      <3>8. ASSUME NEW c \in Baskets
            PROVE  orders'[c].orderID < nextID
        <4>1. CASE c = b
          BY <1>0, <3>3, <3>4, <3>7, <4>1 DEF Order
        <4>2. CASE c # b
          BY <1>0, <3>3, <3>4, <4>2 DEF IdsInv
        <4> QED
          BY <4>1, <4>2
      <3> QED
        BY <1>1, <1>2, <1>5, <2>0, <3>4, <3>6, <3>8
    <2> QED
      BY <2>1, <2>2
  <1>7. CASE HistoryReturned \/ UpdateReturned
    <2>1. /\ callbacks # << >> /\ callbacks' = Tail(callbacks) /\ UNCHANGED <<queue, nextID>>
          /\ Reset(Head(callbacks).write.basket)
      BY <1>7 DEF HistoryReturned, UpdateReturned, Returned
    <2>2. \A b \in Baskets : orders'[b].orderID \in {orders[b].orderID, 0}
      BY <1>0, <2>1 DEF Reset, EmptyOrder, NoID
    <2>3. \A b \in Baskets : orders'[b].orderID < nextID
      BY <1>0, <2>2 DEF IdsInv
    <2> QED
      BY <1>1, <1>2, <2>1, <2>3 DEF IdsInv
  <1>8. CASE SignUpReturned
    <2>1. /\ callbacks # << >> /\ callbacks' = Tail(callbacks)
          /\ UNCHANGED <<queue, nextID, orders>>
      BY <1>8 DEF SignUpReturned, Returned
    <2> QED
      BY <1>1, <1>2, <2>1 DEF IdsInv
  <1>9. CASE SignUp /\ ~Terminate
    <2> DEFINE w == [op |-> "signUp", user |-> auth, ids |-> << >>, live |-> TRUE]
    <2>1. auth \in Users /\ Enqueue(<< w >>) /\ UNCHANGED <<orders, callbacks, nextID>>
      BY <1>9 DEF SignUp, TypeOK, Owners
    <2>2. w \in Write /\ Touches(w)
      BY <2>1 DEF Write, SignUpWrite, Touches
    <2> HIDE DEF w
    <2> QED
      BY <1>1, <1>5, <2>1, <2>2 DEF IdsInv
  <1>10. CASE Heard
    <2>1. PICK ok \in BOOLEAN : Answer(Head(queue[auth]), ok)
      BY <1>10 DEF Heard, Acknowledge, Refuse
    <2>2. Connected /\ UNCHANGED <<orders, nextID>>
      BY <1>10 DEF Heard, Acknowledge, Refuse, Unsent
    <2>3. ASSUME NEW o \in Owners, NEW k \in DOMAIN queue'[o]
          PROVE  IdUsed(queue'[o][k], nextID)
      <3>1. queue[auth] # << >> /\ queue' = [queue EXCEPT ![auth] = Tail(queue[auth])]
        BY <2>1, <2>2 DEF Answer, Connected
      <3>2. CASE o = auth
        <4>1. queue'[o] = Tail(queue[auth]) /\ queue[auth] \in Seq(Write)
          BY <1>0, <3>1, <3>2
        <4>2. k + 1 \in DOMAIN queue[auth] /\ queue'[o][k] = queue[auth][k + 1]
          BY <2>3, <3>1, <4>1, TailWrites
        <4> QED
          BY <1>0, <4>2 DEF IdsInv
      <3>3. CASE o # auth
        BY <1>0, <2>3, <3>1, <3>3 DEF IdsInv
      <3> QED
        BY <3>2, <3>3
    <2>4. \A k \in DOMAIN callbacks' : IdUsed(callbacks'[k].write, nextID)
      BY <1>0, <2>1, <2>2, AnswerHandsOn DEF IdsInv
    <2> QED
      BY <1>1, <2>2, <2>3, <2>4 DEF IdsInv
  <1>11. ASSUME UNCHANGED <<nextID, queue, callbacks>>,
                \A b \in Baskets : orders'[b].orderID = orders[b].orderID
         PROVE  IdsInv'
    BY <1>1, <1>11 DEF IdsInv
  <1>12. ASSUME NEW i \in Items, AddToBasket(i)
         PROVE  IdsInv'
    BY <1>0, <1>11, <1>12 DEF AddToBasket, AddItem
  <1>13. ASSUME NEW index \in 0 .. MaxItems - 1, RemoveItemAt(index)
         PROVE  IdsInv'
    BY <1>0, <1>3, <1>11, <1>13 DEF RemoveItemAt, DropItem
  <1>14. CASE SignOut \/ Launch \/ Commit \/ ConnectionLost \/ UNCHANGED vars
    BY <1>11, <1>14 DEF SignOut, Launch, Commit, ConnectionLost, vars
  <1>15. ASSUME NEW u \in Users, Authenticate(u)
         PROVE  IdsInv'
    BY <1>11, <1>15 DEF Authenticate
  <1>16. CASE ReadSteps
    BY <1>11, <1>16 DEF ReadSteps, Populate, PopulateFails, ReadEnds
  <1>17. Kill => Terminate
    BY DEF Kill
  <1> QED
    BY <1>3, <1>4, <1>6, <1>7, <1>8, <1>9, <1>10, <1>12, <1>13, <1>14, <1>15, <1>16, <1>17
    DEF Next, UserSteps, Blocks, Answers

\* Only Commit changes a document.
LEMMA OnlyCommits ==
    ASSUME [Next]_vars, ~Commit
    PROVE  UNCHANGED <<orderDocs, userDocs>>
  <1> USE DEF session, server
  <1>1. Terminate => UNCHANGED <<orderDocs, userDocs>>
    BY DEF Terminate
  <1>2. Blocks => UNCHANGED <<orderDocs, userDocs>>
    BY <1>1 DEF Blocks, SaveReturned, HistoryReturned, UpdateReturned, SignUpReturned
  <1>3. UserSteps => UNCHANGED <<orderDocs, userDocs>>
    BY <1>1 DEF UserSteps, AddToBasket, RemoveItemAt, Checkout, SignUp, SignOut, Kill, Launch,
                Authenticate
  <1>4. Heard \/ ConnectionLost => UNCHANGED <<orderDocs, userDocs>>
    BY DEF Heard, Acknowledge, Refuse, ConnectionLost
  <1>5. ReadSteps => UNCHANGED <<orderDocs, userDocs>>
    BY DEF ReadSteps, Populate, PopulateFails, ReadEnds
  <1>6. UNCHANGED vars => UNCHANGED <<orderDocs, userDocs>>
    BY DEF vars
  <1> QED
    BY <1>2, <1>3, <1>4, <1>5, <1>6 DEF Next, Answers

\* A list applied where there is a document extends it or cuts it back: both are
\* the beginning of the latest list that waits.
LEMMA ListsAgree ==
    ASSUME HistoryInv, Commit, Touches(queue[auth][ahead + 1]), auth \in DOMAIN userDocs
    PROVE  LET ids == queue[auth][ahead + 1].ids
           IN  IsPrefix(userDocs[auth], ids) \/ IsPrefix(ids, userDocs[auth])
  <1> DEFINE q == queue[auth]
             n == ahead + 1
             touching == {k \in DOMAIN q : Touches(q[k])}
  <1>1. /\ TypeOK /\ AheadPlaced /\ OwnInv /\ ChainInv /\ AheadHasDoc
    BY DEF HistoryInv
  <1>2. q \in Seq(Write) /\ n \in DOMAIN q /\ auth \in Owners
    BY <1>1, CommitFiles
  <1>3. auth \in Users /\ DocChained(q, q[n].ids)
    BY <1>1, CommitInChain
  <1>4. DocChained(q, userDocs[auth])
    BY <1>1, <1>3 DEF ChainInv
  <1>5. touching \in SUBSET Nat /\ Len(q) \in Nat /\ n \in touching
        /\ \A k \in touching : k <= Len(q)
    BY <1>2
  <1>6. PICK k \in touching : \A j \in touching : k >= j
    <2> HIDE DEF touching, q, n
    <2>1. Max(touching) \in touching /\ \A y \in touching : Max(touching) >= y
      BY <1>5, MaxOfBounded
    <2> QED
      BY <2>1
  <1>7. k \in DOMAIN q /\ Latest(q, k)
    BY <1>5, <1>6 DEF Latest
  <1>8. /\ IsPrefix(userDocs[auth], q[k].ids)
        /\ IsPrefix(q[n].ids, q[k].ids)
    BY <1>3, <1>4, <1>7 DEF DocChained
  <1>9. /\ q[k].ids \in Seq(OrderIDs) /\ q[n].ids \in Seq(OrderIDs)
        /\ userDocs[auth] \in Seq(OrderIDs)
    BY <1>1, <1>2, <1>5, <1>6, ListsAreLists DEF TypeOK
  <1> HIDE DEF q, n
  <1>10. IsPrefix(userDocs[auth], q[n].ids) \/ IsPrefix(q[n].ids, userDocs[auth])
    BY <1>8, <1>9, PrefixesAgree
  <1> QED
    BY <1>10 DEF q, n

\* Every step places an order, makes a first list, files a list or stutters.
LEMMA BookStep ==
    ASSUME HistoryInv, HistoryBacked, IdsInv, [Next]_vars
    PROVE  [Book!Next]_<<DOMAIN orderDocs, userDocs>>
  <1> DEFINE w == queue[auth][ahead + 1]
  <1>1. TypeOK /\ OwnInv
    BY DEF HistoryInv
  <1>2. CASE ~Commit
    BY <1>2, OnlyCommits
  <1>3. CASE Commit
    <2>1. /\ auth \in Owners /\ queue[auth] \in Seq(Write) /\ ahead + 1 \in DOMAIN queue[auth]
          /\ w \in Write /\ w = NextUnsent /\ Apply(w)
      BY <1>1, <1>3, CommitFiles DEF Commit, NextUnsent
    <2>2. CASE ~Touches(w)
      <3>1. w \in OrderWrite
        BY <2>1, <2>2 DEF Write, HistoryWrite, SignUpWrite, Touches
      <3>2. w.id \in OrderIDs /\ w.op \in {"save", "update"}
        BY <3>1 DEF OrderWrite
      <3>3. w.id < nextID /\ nextID <= MaxOrders + 1 /\ nextID \in Nat
        BY <1>1, <2>1, <2>2 DEF IdsInv, IdUsed, TypeOK, OrderIDs
      <3>4. w.id \in 1 .. MaxOrders
        BY <3>2, <3>3, CheckoutAssumptions DEF CheckoutAssumptions, OrderIDs, NoID
      <3>5. /\ DOMAIN orderDocs' = DOMAIN orderDocs \cup {w.id}
            /\ UNCHANGED userDocs
        BY <2>1, <3>2 DEF Apply, Put
      <3>6. Book!Place(w.id)
        BY <3>5 DEF Book!Place
      <3> QED
        BY <3>4, <3>6 DEF Book!Next
    <2>3. CASE Touches(w)
      <3>1. /\ DOMAIN userDocs' = DOMAIN userDocs \cup {auth}
            /\ userDocs'[auth] = w.ids
            /\ \A u \in DOMAIN userDocs : u # auth => userDocs'[u] = userDocs[u]
            /\ w.op = "history" => auth \in DOMAIN userDocs
            /\ w.op = "signUp" => w.ids = << >>
        BY <1>1, <1>3, <2>3, CommitFiles
      <3>2. UNCHANGED orderDocs
        BY <2>1, <2>3 DEF Apply, Touches
      <3>3. w.user = auth /\ w.op \in {"history", "signUp"}
        BY <1>1, <2>1, <2>3 DEF OwnInv, Touches
      <3>4. userDocs' = Put(userDocs, auth, w.ids)
        BY <2>1, <3>3 DEF Apply
      <3>5. CASE auth \in DOMAIN userDocs
        <4>1. IsPrefix(userDocs[auth], w.ids) \/ IsPrefix(w.ids, userDocs[auth])
          BY <1>3, <2>3, <3>5, ListsAgree
        <4>2. Range(w.ids) \subseteq DOMAIN orderDocs
          BY <2>1, <3>3 DEF HistoryBacked, QueueBacked, Placed
        <4>3. DOMAIN userDocs' = DOMAIN userDocs
          BY <3>1, <3>5
        <4>4. Book!File(auth)
          BY <3>1, <3>2, <4>1, <4>2, <4>3
          DEF Book!File, Book!IsPrefix, IsPrefix, Book!Range, Range
        <4> QED
          BY <3>5, <4>4 DEF Book!Next
      <3>6. CASE auth \notin DOMAIN userDocs
        <4>1. w.ids = << >>
          BY <3>1, <3>3, <3>6
        <4>2. Book!Join(auth)
          BY <3>2, <3>4, <3>6, <4>1 DEF Book!Join, Put
        <4>3. auth \in Users
          BY <1>3, <2>3, CommitInChain DEF HistoryInv
        <4> QED
          BY <4>2, <4>3 DEF Book!Next
      <3> QED
        BY <3>5, <3>6
    <2> QED
      BY <2>2, <2>3
  <1> QED
    BY <1>2, <1>3

\* The two collections of the server are an order book, under the same two
\* conditions: orders stay, and a list of previous orders only names orders that
\* are there and never contradicts the list before it.
THEOREM KeepsTheOrderBook ==
    ASSUME ~ReadErrors, MaxSignUps <= 1
    PROVE  Spec => ImplementsOrderBook
  <1> DEFINE Inv == HistoryInv /\ HistoryBacked /\ IdsInv
  <1>1. Init => Inv
    BY HistoryInit, BackedInit, IdsInit
  <1>2. Inv /\ [Next]_vars => Inv'
    <2> SUFFICES ASSUME Inv, [Next]_vars PROVE Inv'
      OBVIOUS
    <2>1. TypeOK /\ AheadPlaced
      BY DEF HistoryInv
    <2>2. HistoryInv'
      BY HistoryNext
    <2>3. HistoryBacked'
      BY <2>1, BackedNext
    <2>4. IdsInv'
      BY <2>1, IdsNext
    <2> QED
      BY <2>2, <2>3, <2>4
  <1>3. Inv /\ [Next]_vars => [Book!Next]_<<DOMAIN orderDocs, userDocs>>
    BY BookStep
  <1>4. Init => Book!Init
    BY CheckoutAssumptions DEF Init, Book!Init, CheckoutAssumptions
  <1> HIDE DEF Inv
  <1> QED
    BY <1>1, <1>2, <1>3, <1>4, PTL DEF Spec, ImplementsOrderBook, Book!Spec
=============================================================================
