---------------------------- MODULE WatchProofs ----------------------------
(***************************************************************************)
(* Theorems about the reads of the Firestore client: every variable keeps  *)
(* its type, the registries of listeners, views and targets stay the same  *)
(* sets, no assertion that ends the process fails, a read is answered at   *)
(* most once, what a target owes is on its way, the server ends up         *)
(* watching what is listened to, an answer in sync is fresh, and no read   *)
(* is forgotten.  For every finite set of queries and every bound.         *)
(***************************************************************************)
EXTENDS WatchTargets, DataLemmas, FiniteSetTheorems, SequenceTheorems, TLAPS

(***************************************************************************)
(* The stream and the tracker                                              *)
(***************************************************************************)

\* Whatever happens to a stream, it is a stream.
LEMMA StreamTypes ==
    ASSUME NEW s \in StreamState
    PROVE  /\ NewStream \in StreamState
           /\ Start(s) \in StreamState /\ BackoffElapsed(s) \in StreamState
           /\ OnStreamStart(s) \in StreamState /\ InhibitBackoff(s) \in StreamState
           /\ Stop(s) \in StreamState /\ Fail(s) \in StreamState
           /\ MarkIdle(s) \in StreamState /\ WriteTo(s) \in StreamState
  <1>1. Close(s, "Initial") \in StreamState /\ Close(s, "Error") \in StreamState
    BY DEF Close, StreamState, States
  <1>2. NewStream \in StreamState /\ Stop(s) \in StreamState /\ Fail(s) \in StreamState
    BY <1>1 DEF NewStream, Stop, Fail, StreamState, States
  <1>3. Start(s) \in StreamState /\ BackoffElapsed(s) \in StreamState
    BY DEF Start, BackoffElapsed, StreamState, States
  <1>4. OnStreamStart(s) \in StreamState /\ InhibitBackoff(s) \in StreamState
    BY DEF OnStreamStart, InhibitBackoff, StreamState, States
  <1>5. MarkIdle(s) \in StreamState /\ WriteTo(s) \in StreamState
    BY DEF MarkIdle, WriteTo, IsOpen, StreamState, States
  <1> QED
    BY <1>2, <1>3, <1>4, <1>5

\* ... and a tracker a tracker.
LEMMA TrackerTypes ==
    ASSUME NEW t \in Tracker, NEW state \in {"Unknown", "Online", "Offline"}
    PROVE  /\ HandleWatchStreamStart(t) \in Tracker
           /\ HandleWatchStreamFailure(t) \in Tracker
           /\ UpdateState(t, state) \in Tracker
           /\ [state |-> "Offline", failures |-> t.failures, timer |-> FALSE] \in Tracker
  BY DEF Tracker, HandleWatchStreamStart, HandleWatchStreamFailure, UpdateState

(***************************************************************************)
(* What is posted to the main queue                                        *)
(***************************************************************************)

Gotten == DOMAIN asks

\* Answers of the given kinds, one to each of the given reads; one that is in sync
\* tells what is in the cache of a view that is current.
Posts(gets, kinds) ==
    \E s \in Seq(Answer) :
        /\ main' = main \o s
        /\ \A k \in DOMAIN s : s[k].get \in gets /\ s[k].from \in kinds
        /\ \A k \in DOMAIN s : s[k].from = "synced" =>
              \E q \in current' : s[k].version = cache'[q] /\ s[k].since = since'[q]
        /\ \A j, k \in DOMAIN s : s[j].get = s[k].get => j = k
        /\ \A g \in gets : \E k \in DOMAIN s : s[k].get = g

\* The types of what Post looks at.
PostTypes ==
    /\ asks \in Seq(Queries) /\ Len(asks) <= MaxGets /\ main \in Seq(Answer)
    /\ cache' \in [Queries -> Versions] /\ since' \in [Queries -> Versions]

LEMMA Posted ==
    ASSUME PostTypes, NEW gets \in SUBSET Gotten,
           NEW kinds \in SUBSET {"synced", "cache", "error"},
           NEW from \in [Queries -> kinds], Post(gets, from),
           \A q \in Queries : from[q] = "synced" => q \in current'
    PROVE  Posts(gets, kinds)
  <1>1. PICK n \in Nat : n = Len(asks) /\ Gotten = 1 .. n /\ n <= MaxGets
    BY DEF PostTypes, Gotten
  <1>2. IsFiniteSet(gets) /\ Cardinality(gets) \in Nat
    <2>1. IsFiniteSet(1 .. n)
      BY <1>1, FS_Interval
    <2>2. IsFiniteSet(gets)
      BY <1>1, <2>1, FS_Subset
    <2> QED
      BY <2>2, FS_CardinalityType
  <1>3. PICK m \in Nat : m = Cardinality(gets)
    BY <1>2
  <1>4. PICK order \in [1 .. m -> gets] :
           /\ \A j, k \in 1 .. m : j # k => order[j] # order[k]
           /\ main' = main \o [k \in 1 .. m |-> Event(order[k], from)]
    BY <1>3 DEF Post, SetToSeqs
  <1>5. \A k \in 1 .. m : order[k] \in gets /\ order[k] \in Gets /\ asks[order[k]] \in Queries
    BY <1>1, <1>4, WatchAssumptions DEF Gets, Gotten, PostTypes
  <1>6. \A k \in 1 .. m : /\ Event(order[k], from) \in Answer
                          /\ Event(order[k], from).get = order[k]
                          /\ Event(order[k], from).from \in kinds
    BY <1>5 DEF Event, Answer, PostTypes
  <1> DEFINE s == [k \in 1 .. m |-> Event(order[k], from)]
  <1>7. s \in Seq(Answer) /\ DOMAIN s = 1 .. m
    BY <1>6
  <1>8. \A k \in DOMAIN s : s[k].get = order[k] /\ s[k].get \in gets /\ s[k].from \in kinds
    BY <1>5, <1>6
  <1>9. \A j, k \in DOMAIN s : s[j].get = s[k].get => j = k
    BY <1>4, <1>7, <1>8
  <1>10. \A k \in DOMAIN s : s[k].from = "synced" =>
            \E q \in current' : s[k].version = cache'[q] /\ s[k].since = since'[q]
    <2>1. \A k \in 1 .. m : /\ Event(order[k], from).from = from[asks[order[k]]]
                            /\ Event(order[k], from).version = cache'[asks[order[k]]]
                            /\ Event(order[k], from).since = since'[asks[order[k]]]
      BY DEF Event
    <2> QED
      BY <1>5, <2>1
  <1>11. \A g \in gets : \E k \in DOMAIN s : s[k].get = g
    <2>1. order \in Injection(1 .. m, gets)
      BY <1>4 DEF Injection, IsInjective
    <2>2. Cardinality(1 .. m) = Cardinality(gets)
      BY <1>3, FS_Interval
    <2>3. order \in Surjection(1 .. m, gets)
      BY <1>2, <2>1, <2>2, FS_Injection
    <2>4. \A g \in gets : \E k \in 1 .. m : order[k] = g
      BY <2>3 DEF Surjection
    <2> QED
      BY <1>7, <1>8, <2>4
  <1> HIDE DEF s
  <1> QED
    BY <1>4, <1>7, <1>8, <1>9, <1>10, <1>11 DEF Posts, s

\* Nothing posted is a case of it.
LEMMA NothingPosted ==
    ASSUME main \in Seq(Answer), UNCHANGED main, NEW kinds
    PROVE  Posts({}, kinds)
  <1>1. << >> \in Seq(Answer) /\ main \o << >> = main /\ DOMAIN << >> = {}
    OBVIOUS
  <1> QED
    BY <1>1 DEF Posts

LEMMA RaisePosts ==
    ASSUME PostTypes, NEW gets \in SUBSET Gotten, Raise(gets)
    PROVE  raised' = raised \cup gets /\ Posts(gets, {"synced", "cache"})
  <1> DEFINE from == [q \in Queries |-> IF q \in current' THEN "synced" ELSE "cache"]
  <1>1. /\ from \in [Queries -> {"synced", "cache"}]
        /\ \A q \in Queries : from[q] = "synced" => q \in current'
    OBVIOUS
  <1>2. Post(gets, from) /\ raised' = raised \cup gets
    BY DEF Raise
  <1> HIDE DEF from
  <1> QED
    BY <1>1, <1>2, Posted

\* What a broadcast does: at most, some listeners are answered.
LEMMA BroadcastPosts ==
    ASSUME PostTypes, Listening \subseteq Gotten, Broadcast
    PROVE  /\ \E gets \in SUBSET Listening :
                 raised' = raised \cup gets /\ Posts(gets, {"synced", "cache"})
           /\ current' \in {current, {}}
  <1>1. CASE tracker.state # "Offline" /\ tracker'.state = "Offline"
    <2>1. PICK gets \in SUBSET Listening : Raise(gets)
      BY <1>1 DEF Broadcast
    <2>2. raised' = raised \cup gets /\ Posts(gets, {"synced", "cache"})
      BY <2>1, RaisePosts
    <2> QED
      BY <1>1, <2>2 DEF Broadcast
  <1>2. CASE ~(tracker.state # "Offline" /\ tracker'.state = "Offline")
    <2>1. UNCHANGED <<raised, main, current>>
      BY <1>2 DEF Broadcast, RaiseNothing
    <2>2. Posts({}, {"synced", "cache"})
      BY <2>1, NothingPosted DEF PostTypes
    <2>3. raised' = raised \cup {}
      BY <2>1
    <2> QED
      BY <2>1, <2>2, <2>3
  <1> QED
    BY <1>1, <1>2
(***************************************************************************)
(* Types                                                                   *)
(***************************************************************************)

AppType ==
    /\ asks \in Seq(Queries) /\ Len(asks) <= MaxGets
    /\ told \in Seq(Answer) /\ worker \in Seq(Task)
    /\ muted \subseteq Gotten /\ raised \subseteq Gotten
    /\ listeners \in [Queries -> SUBSET Gotten]

DataType ==
    /\ views \subseteq Queries /\ current \subseteq views /\ targets \subseteq Queries
    /\ since \in [Queries -> Versions] /\ cache \in [Queries -> Versions]
    /\ DOMAIN docs \subseteq Queries /\ \A q \in DOMAIN docs : docs[q] \in Versions
    /\ answers \in Seq(Message)
    /\ DOMAIN serving \subseteq Queries
    /\ \A q \in DOMAIN serving : serving[q] \in Versions
    /\ version \in [Queries -> Versions]

StatesType ==
    /\ DOMAIN states \subseteq Queries
    /\ \A q \in DOMAIN states : states[q] \in TargetState

NetType ==
    /\ stream \in StreamState /\ tokens \subseteq Nat /\ tracker \in Tracker
    /\ StatesType
    /\ sent \in Seq(Request) /\ faults \in Nat

\* Tasks and answers are of reads that were asked for, and listeners of their query.
Known ==
    /\ \A k \in DOMAIN main : main[k].get \in Gotten
    /\ \A k \in DOMAIN worker : worker[k].kind # "token" => worker[k].get \in Gotten
    /\ \A q \in Queries : \A g \in listeners[q] : asks[g] = q

WatchInv == AppType /\ main \in Seq(Answer) /\ DataType /\ NetType /\ Known

LEMMA WatchInvIsType == WatchInv => WatchType
  BY DEF WatchInv, AppType, DataType, NetType, StatesType, WatchType, Gotten

LEMMA TaskTypes ==
    ASSUME AppType, Known, NEW kind \in {"listen", "remove"}, NextTask(kind)
    PROVE  /\ Head(worker).get \in Gotten /\ asks[Head(worker).get] \in Queries
  BY DEF AppType, Known, NextTask, Gotten

LEMMA TailTypes ==
    ASSUME AppType, worker # << >>
    PROVE  Head(worker) \in Task /\ Tail(worker) \in Seq(Task)
  BY DEF AppType

LEMMA MessageTypes ==
    ASSUME DataType, NEW kind, NextAnswer(kind)
    PROVE  /\ Tail(answers) \in Seq(Message)
           /\ kind # "snapshot" => Head(answers).query \in Queries
           /\ kind = "document" => Head(answers).version \in Versions
  <1>1. answers \in Seq(Message) /\ answers # << >> /\ Head(answers).kind = kind
    BY DEF DataType, NextAnswer
  <1>2. Head(answers) \in Message /\ Tail(answers) \in Seq(Message)
    BY <1>1
  <1>3. kind # "snapshot" => Head(answers).query \in Queries
    BY <1>1, <1>2 DEF Message
  <1>4. kind = "document" => Head(answers).version \in Versions
    BY <1>1, <1>2 DEF Message
  <1> QED
    BY <1>2, <1>3, <1>4

LEMMA WatchInit == Init => WatchInv
  <1> SUFFICES ASSUME Init PROVE WatchInv
    OBVIOUS
  <1> USE DEF Init
  <1>0. MaxChanges + 1 \in Nat /\ 0 \in Versions /\ 1 \in Versions
    BY WatchAssumptions DEF Versions
  <1>1. AppType /\ main \in Seq(Answer) /\ Known
    BY WatchAssumptions DEF AppType, Gotten, Known
  <1>2. DataType
    <2>1. DOMAIN docs = {} /\ DOMAIN serving = {}
      OBVIOUS
    <2>2. answers \in Seq(Message)
      OBVIOUS
    <2> QED
      BY <1>0, <2>1, <2>2 DEF DataType
  <1>3. NetType
    <2>1. NewStream \in StreamState
      BY DEF NewStream, StreamState, States
    <2>2. tracker \in Tracker
      BY DEF Tracker
    <2>3. DOMAIN states = {} /\ sent \in Seq(Request)
      OBVIOUS
    <2> QED
      BY <2>1, <2>2, <2>3 DEF NetType, StatesType
  <1> QED
    BY <1>1, <1>2, <1>3 DEF WatchInv

(***************************************************************************)
(* The data keep their types                                               *)
(***************************************************************************)

LEMMA DataReads ==
    ASSUME DataType, AppType, Reads
    PROVE  DataType'
  <1>1. CASE TargetAdded \/ TargetRemoved \/ TargetCurrent
    <2>1. UNCHANGED <<views, current, targets, since, cache, docs, serving, version>>
      BY <1>1 DEF TargetAdded, TargetRemoved, TargetCurrent, Read, engine
    <2>2. answers' \in Seq(Message)
      BY <1>1, MessageTypes DEF TargetAdded, TargetRemoved, TargetCurrent, Read
    <2> QED
      BY <2>1, <2>2 DEF DataType
  <1>2. CASE DocumentChange
    <2> DEFINE q == Head(answers).query
               v == Head(answers).version
    <2>1. UNCHANGED <<views, current, targets, since, cache, serving, version>>
      BY <1>2 DEF DocumentChange, Read, engine
    <2>2. answers' \in Seq(Message) /\ q \in Queries /\ v \in Versions
      BY <1>2, MessageTypes DEF DocumentChange, Read
    <2>3. docs' = Put(docs, q, v) \/ docs' = docs
      BY <1>2 DEF DocumentChange, Document
    <2> HIDE DEF q, v
    <2>4. DOMAIN docs' \subseteq Queries /\ \A r \in DOMAIN docs' : docs'[r] \in Versions
      BY <2>2, <2>3 DEF Put, DataType
    <2> QED
      BY <2>1, <2>2, <2>4 DEF DataType
  <1>3. CASE TargetRejected
    <2> DEFINE q == Head(answers).query
    <2>1. UNCHANGED <<serving, version, docs, since, cache>>
      BY <1>3 DEF TargetRejected, Read, engine
    <2>2. answers' \in Seq(Message)
      BY <1>3, MessageTypes DEF TargetRejected, Read
    <2>3. CASE q \in targets
      <3>1. targets' = targets \ {q} /\ views' = views \ {q} /\ current' = current \ {q}
        BY <1>3, <2>3 DEF TargetRejected
      <3> HIDE DEF q
      <3> QED
        BY <2>1, <2>2, <3>1 DEF DataType
    <2>4. CASE q \notin targets
      <3>1. UNCHANGED <<targets, views, current>>
        BY <1>3, <2>4 DEF TargetRejected, engine
      <3> QED
        BY <2>1, <2>2, <3>1 DEF DataType
    <2> QED
      BY <2>3, <2>4
  <1>4. CASE Snapshot
    <2> DEFINE newDocs == {q \in DOMAIN docs : docs[q] > cache[q]}
    <2>1. UNCHANGED <<serving, version, since, views, targets>> /\ docs' = << >>
      BY <1>4 DEF Snapshot, Read
    <2>2. answers' \in Seq(Message)
      BY <1>4, MessageTypes DEF Snapshot, Read
    <2>3. cache' = [q \in Queries |-> IF q \in newDocs THEN docs[q] ELSE cache[q]]
      BY <1>4 DEF Snapshot
    <2>4. current' \subseteq views
      BY <1>4 DEF Snapshot
    <2>5. cache' \in [Queries -> Versions]
      BY <2>3 DEF DataType
    <2>6. DOMAIN docs' = {}
      BY <2>1
    <2> QED
      BY <2>1, <2>2, <2>4, <2>5, <2>6 DEF DataType
  <1> QED
    BY <1>1, <1>2, <1>3, <1>4 DEF Reads

LEMMA DataTasks ==
    ASSUME DataType, AppType, Known, Tasks
    PROVE  DataType'
  <1>1. CASE JoinListeners
    BY <1>1 DEF JoinListeners, DataType, network
  <1>2. CASE Listen
    <2> DEFINE q == asks[Head(worker).get]
    <2>1. q \in Queries
      BY <1>2, TaskTypes DEF Listen
    <2>2. /\ views' = views \cup {q} /\ since' = [since EXCEPT ![q] = version[q]]
          /\ UNCHANGED <<cache, current, answers, serving, version>>
          /\ StartListening(q)
      BY <1>2 DEF Listen
    <2> HIDE DEF q
    <2>3. targets' = targets \cup {q} /\ docs' \in {docs, << >>}
      BY <2>2 DEF StartListening
    <2>4. since' \in [Queries -> Versions]
      BY <2>1, <2>2 DEF DataType
    <2>5. DOMAIN docs' \subseteq Queries /\ \A r \in DOMAIN docs' : docs'[r] \in Versions
      BY <2>3 DEF DataType
    <2> QED
      BY <2>1, <2>2, <2>3, <2>4, <2>5 DEF DataType
  <1>3. CASE RemoveListener
    <2> DEFINE q == asks[Head(worker).get]
    <2>1. /\ UNCHANGED <<since, cache, docs, answers, serving, version>>
          /\ \/ views' = views \ {q} /\ current' = current \ {q} /\ StopListening(q)
             \/ UNCHANGED <<views, current, targets>>
      BY <1>3 DEF RemoveListener
    <2> HIDE DEF q
    <2>2. targets' \in {targets, targets \ {q}}
      BY <2>1 DEF StopListening
    <2> QED
      BY <2>1, <2>2 DEF DataType
  <1>4. CASE DropToken
    BY <1>4 DEF DropToken, engine, network, DataType
  <1>5. CASE OpenStream
    BY <1>5 DEF OpenStream, engine, DataType
  <1> QED
    BY <1>1, <1>2, <1>3, <1>4, <1>5 DEF Tasks

LEMMA DataServes ==
    ASSUME DataType, NetType, Serves
    PROVE  DataType'
  <1>1. UNCHANGED <<views, current, targets, since, cache, docs, version>>
    BY DEF Serves, ServerWatches, ServerUnwatches, ServerSends, engine
  <1>2. CASE ServerWatches
    <2> DEFINE q == Head(sent).query
    <2>1. q \in Queries
      <3>1. sent \in Seq(Request) /\ sent # << >>
        BY <1>2 DEF ServerWatches, NetType
      <3>2. Head(sent) \in Request
        BY <3>1
      <3> QED
        BY <3>2 DEF Request
    <2>2. \/ answers' = Append(answers, [kind |-> "rejected", query |-> q])
          \/ answers' = Append(answers, [kind |-> "added", query |-> q])
      BY <1>2 DEF ServerWatches
    <2>3. serving' = serving \/ serving' = Put(serving, q, 0)
      BY <1>2 DEF ServerWatches
    <2> HIDE DEF q
    <2>4. /\ [kind |-> "rejected", query |-> q] \in Message
          /\ [kind |-> "added", query |-> q] \in Message
      BY <2>1 DEF Message
    <2>5. answers' \in Seq(Message)
      <3>1. answers \in Seq(Message)
        BY DEF DataType
      <3> QED
        BY <2>2, <2>4, <3>1
    <2>6. 0 \in Versions
      BY WatchAssumptions DEF Versions
    <2>7. DOMAIN serving' \subseteq Queries /\ \A r \in DOMAIN serving' : serving'[r] \in Versions
      BY <2>1, <2>3, <2>6 DEF DataType, Put
    <2> QED
      BY <1>1, <2>5, <2>7 DEF DataType
  <1>3. CASE ServerUnwatches
    <2> DEFINE q == Head(sent).query
    <2>1. q \in Queries
      <3>1. sent \in Seq(Request) /\ sent # << >>
        BY <1>3 DEF ServerUnwatches, NetType
      <3>2. Head(sent) \in Request
        BY <3>1
      <3> QED
        BY <3>2 DEF Request
    <2>2. /\ answers' = Append(answers, [kind |-> "removed", query |-> q])
          /\ serving' = Without(serving, q)
      BY <1>3 DEF ServerUnwatches
    <2> HIDE DEF q
    <2>3. [kind |-> "removed", query |-> q] \in Message
      BY <2>1 DEF Message
    <2>4. answers' \in Seq(Message)
      BY <2>2, <2>3 DEF DataType
    <2>5. DOMAIN serving' \subseteq Queries /\ \A r \in DOMAIN serving' : serving'[r] \in Versions
      BY <2>2 DEF DataType, Without
    <2> QED
      BY <1>1, <2>4, <2>5 DEF DataType
  <1>4. CASE ServerSends
    <2>1. PICK q \in DOMAIN serving :
             /\ serving' = [serving EXCEPT ![q] = version[q]]
             /\ answers' = answers
                   \o << [kind |-> "document", query |-> q, version |-> version[q]] >>
                   \o (IF serving[q] = 0 THEN << [kind |-> "current", query |-> q] >>
                       ELSE << >>)
                   \o << [kind |-> "snapshot"] >>
      BY <1>4 DEF ServerSends
    <2>2. q \in Queries /\ version[q] \in Versions
      BY DEF DataType
    <2>3. /\ [kind |-> "document", query |-> q, version |-> version[q]] \in Message
          /\ [kind |-> "current", query |-> q] \in Message /\ [kind |-> "snapshot"] \in Message
      BY <2>2 DEF Message
    <2>4. PICK s : s = IF serving[q] = 0 THEN << [kind |-> "current", query |-> q] >> ELSE << >>
      OBVIOUS
    <2>5. s \in Seq(Message)
      BY <2>3, <2>4
    <2>6. answers' = answers
            \o << [kind |-> "document", query |-> q, version |-> version[q]] >>
            \o s \o << [kind |-> "snapshot"] >>
      BY <2>1, <2>4
    <2>7. /\ << [kind |-> "document", query |-> q, version |-> version[q]] >> \in Seq(Message)
          /\ << [kind |-> "snapshot"] >> \in Seq(Message) /\ answers \in Seq(Message)
      BY <2>3 DEF DataType
    <2>8. answers' \in Seq(Message)
      BY <2>5, <2>6, <2>7
    <2>9. DOMAIN serving' \subseteq Queries /\ \A r \in DOMAIN serving' : serving'[r] \in Versions
      BY <2>1, <2>2 DEF DataType
    <2> QED
      BY <1>1, <2>8, <2>9 DEF DataType
  <1> QED
    BY <1>2, <1>3, <1>4 DEF Serves

LEMMA DataGone ==
    ASSUME DataType, StreamGone, UNCHANGED <<views, targets, since, cache, version>>,
           current' \in {current, {}}
    PROVE  DataType'
  <1>1. DOMAIN docs' = {} /\ DOMAIN serving' = {} /\ answers' \in Seq(Message)
    BY DEF StreamGone
  <1> QED
    BY <1>1 DEF DataType

LEMMA BroadcastCurrent == Broadcast => current' \in {current, {}}
  BY DEF Broadcast

LEMMA DataKeeps == ASSUME WatchInv, Next PROVE DataType'
  <1>0. DataType /\ AppType /\ Known /\ NetType
    BY DEF WatchInv
  <1>1. CASE Tasks
    BY <1>0, <1>1, DataTasks
  <1>2. CASE Reads
    BY <1>0, <1>2, DataReads
  <1>3. CASE Serves
    BY <1>0, <1>3, DataServes
  <1>4. CASE TokenArrives \/ OnEvent \/ BackoffTimer \/ Get
    BY <1>0, <1>4
       DEF TokenArrives, OnEvent, BackoffTimer, Get, engine, network, DataType
  <1>5. CASE IdleTimer
    <2>1. StreamGone /\ UNCHANGED <<views, targets, since, cache, version, current>>
      BY <1>5 DEF IdleTimer, engine
    <2> QED
      BY <1>0, <2>1, DataGone
  <1>6. CASE OnlineTimer
    <2>1. current' \in {current, {}}
      BY <1>6, BroadcastCurrent DEF OnlineTimer
    <2>2. UNCHANGED <<views, targets, since, cache, docs, answers, serving, version>>
      BY <1>6 DEF OnlineTimer, network
    <2> QED
      BY <1>0, <2>1, <2>2 DEF DataType
  <1>7. CASE ServerChanges
    <2>1. PICK q \in Queries : version[q] <= MaxChanges
                               /\ version' = [version EXCEPT ![q] = @ + 1]
      BY <1>7 DEF ServerChanges
    <2>2. UNCHANGED <<views, current, targets, since, cache, docs, answers, serving>>
      BY <1>7 DEF ServerChanges, engine, network
    <2>3. version[q] + 1 \in Versions
      BY <1>0, <2>1, WatchAssumptions DEF DataType, Versions
    <2>4. version' \in [Queries -> Versions]
      BY <1>0, <2>1, <2>3 DEF DataType
    <2> QED
      BY <1>0, <2>2, <2>4 DEF DataType
  <1>8. CASE ConnectionLost \/ TokenFails
    <2>1. WatchStreamBroken /\ UNCHANGED <<views, targets, version>>
      BY <1>8 DEF ConnectionLost, TokenFails
    <2>2. StreamGone /\ UNCHANGED <<since, cache>> /\ Broadcast
      BY <2>1 DEF WatchStreamBroken
    <2> QED
      BY <1>0, <2>1, <2>2, BroadcastCurrent, DataGone
  <1>9. CASE NetworkRestarts
    <2>1. StreamGone /\ UNCHANGED <<views, targets, since, cache, version, current>>
      BY <1>9 DEF NetworkRestarts, engine
    <2> QED
      BY <1>0, <2>1, DataGone
  <1> QED
    BY <1>1, <1>2, <1>3, <1>4, <1>5, <1>6, <1>7, <1>8, <1>9 DEF Next, Faults

(***************************************************************************)
(* The stream, the tracker and the aggregator keep their types             *)
(***************************************************************************)

LEMMA StateTypes ==
    ASSUME StatesType, NEW q
    PROVE  /\ State(q) \in TargetState /\ NewTarget \in TargetState
           /\ [State(q) EXCEPT !.owed = @ + 1] \in TargetState
           /\ [State(q) EXCEPT !.changed = TRUE] \in TargetState
           /\ [State(q) EXCEPT !.owed = State(q).owed - 1] \in TargetState
           /\ \A b \in BOOLEAN : [owed |-> State(q).owed - 1, current |-> State(q).current,
                                  changed |-> b] \in TargetState
           /\ [owed |-> 0, current |-> TRUE, changed |-> TRUE] \in TargetState
  <1>1. State(q) \in TargetState /\ NewTarget \in TargetState
    BY DEF State, StatesType, NewTarget, TargetState
  <1>2. PICK s \in TargetState : s = State(q)
    BY <1>1
  <1>3. /\ [s EXCEPT !.owed = @ + 1] \in TargetState
        /\ [s EXCEPT !.owed = s.owed - 1] \in TargetState
    <2>1. s.owed + 1 \in Int /\ s.owed - 1 \in Int
      BY DEF TargetState
    <2> QED
      BY <2>1 DEF TargetState
  <1>5. [s EXCEPT !.changed = TRUE] \in TargetState
    BY DEF TargetState
  <1>4. /\ \A b \in BOOLEAN : [owed |-> s.owed - 1, current |-> s.current,
                              changed |-> b] \in TargetState
        /\ [owed |-> 0, current |-> TRUE, changed |-> TRUE] \in TargetState
    BY DEF TargetState
  <1> QED
    BY <1>1, <1>2, <1>3, <1>4, <1>5

LEMMA PutTypes ==
    ASSUME StatesType, NEW q \in Queries, NEW s \in TargetState, states' = Put(states, q, s)
    PROVE  StatesType'
  BY DEF StatesType, Put

LEMMA WithoutTypes ==
    ASSUME StatesType, NEW q, states' = Without(states, q)
    PROVE  StatesType'
  BY DEF StatesType, Without

LEMMA OwingTypes ==
    ASSUME StatesType, NEW q \in Queries, states' = Owing(q)
    PROVE  StatesType'
  BY StateTypes, PutTypes DEF Owing

LEMMA SentTypes ==
    ASSUME sent \in Seq(Request), NEW q \in Queries
    PROVE  /\ Append(sent, Watch(q)) \in Seq(Request)
           /\ Append(sent, Unwatch(q)) \in Seq(Request)
  <1>1. Watch(q) \in Request /\ Unwatch(q) \in Request
    BY DEF Watch, Unwatch, Request
  <1> QED
    BY <1>1

LEMMA TokensTypes ==
    ASSUME tokens \subseteq Nat, stream' \in StreamState, RequestCredentials
    PROVE  tokens' \subseteq Nat
  BY DEF RequestCredentials, StreamState

LEMMA GoneTypes ==
    ASSUME StreamGone
    PROVE  StatesType' /\ sent' \in Seq(Request)
  <1>1. DOMAIN states' = {} /\ sent' \in Seq(Request)
    BY DEF StreamGone
  <1> QED
    BY <1>1 DEF StatesType

LEMMA NetReads ==
    ASSUME DataType, NetType, Reads
    PROVE  NetType'
  <1>1. UNCHANGED <<stream, tokens, sent, faults>> /\ tracker' = UpdateState(tracker, "Online")
    BY DEF Reads, TargetAdded, TargetRemoved, TargetCurrent, DocumentChange,
           TargetRejected, Snapshot, Read
  <1>2. tracker' \in Tracker
    BY <1>1, TrackerTypes DEF NetType
  <1>3. StatesType
    BY DEF NetType
  <1> DEFINE q == Head(answers).query
  <1>4. CASE TargetAdded
    <2>1. q \in Queries /\ Added(q)
      BY <1>4, MessageTypes DEF TargetAdded
    <2> HIDE DEF q
    <2>2. states' = Put(states, q, [owed |-> State(q).owed - 1, current |-> State(q).current,
                            changed |-> State(q).changed /\ State(q).owed - 1 # 0])
      BY <2>1 DEF Added
    <2>3. (State(q).changed /\ State(q).owed - 1 # 0) \in BOOLEAN
      OBVIOUS
    <2>4. [owed |-> State(q).owed - 1, current |-> State(q).current,
             changed |-> State(q).changed /\ State(q).owed - 1 # 0] \in TargetState
      BY <1>3, <2>3, StateTypes
    <2>5. StatesType'
      BY <1>3, <2>1, <2>2, <2>4, PutTypes
    <2> QED
      BY <1>1, <1>2, <2>5 DEF NetType
  <1>5. CASE TargetRemoved
    <2>1. q \in Queries /\ Removed(q)
      BY <1>5, MessageTypes DEF TargetRemoved
    <2> HIDE DEF q
    <2>2. \/ states' = Without(states, q)
          \/ states' = Put(states, q, [State(q) EXCEPT !.owed = State(q).owed - 1])
      BY <2>1 DEF Removed
    <2>3. StatesType'
      BY <1>3, <2>1, <2>2, StateTypes, PutTypes, WithoutTypes
    <2> QED
      BY <1>1, <1>2, <2>3 DEF NetType
  <1>6. CASE TargetCurrent
    <2>1. q \in Queries /\ Current(q)
      BY <1>6, MessageTypes DEF TargetCurrent
    <2> HIDE DEF q
    <2>2. \/ states' = Put(states, q, State(q))
          \/ states' = Put(states, q, [owed |-> 0, current |-> TRUE, changed |-> TRUE])
      BY <2>1 DEF Current
    <2>3. StatesType'
      BY <1>3, <2>1, <2>2, StateTypes, PutTypes
    <2> QED
      BY <1>1, <1>2, <2>3 DEF NetType
  <1>7. CASE DocumentChange
    <2>1. q \in Queries /\ Document(q, Head(answers).version)
      BY <1>7, MessageTypes DEF DocumentChange
    <2> HIDE DEF q
    <2>2. states' = states \/ states' = Put(states, q, [State(q) EXCEPT !.changed = TRUE])
      BY <2>1 DEF Document
    <2>3. StatesType'
      <3>1. CASE states' = states
        BY <1>3, <3>1 DEF StatesType
      <3> QED
        BY <1>3, <2>1, <2>2, <3>1, StateTypes, PutTypes
    <2> QED
      BY <1>1, <1>2, <2>3 DEF NetType
  <1>8. CASE TargetRejected
    <2>1. states' = states \/ states' = Without(states, q)
      BY <1>8 DEF TargetRejected
    <2>2. StatesType'
      <3>1. CASE states' = states
        BY <1>3, <3>1 DEF StatesType
      <3> QED
        BY <1>3, <2>1, <3>1, WithoutTypes
    <2> QED
      BY <1>1, <1>2, <2>2 DEF NetType
  <1>9. CASE Snapshot
    <2>1. PICK changed : states' = [r \in DOMAIN states |-> [states[r] EXCEPT
                                       !.changed = @ /\ r \notin changed]]
      BY <1>9 DEF Snapshot
    <2>2. StatesType'
      BY <1>3, <2>1 DEF StatesType, TargetState
    <2> QED
      BY <1>1, <1>2, <2>2 DEF NetType
  <1> QED
    BY <1>4, <1>5, <1>6, <1>7, <1>8, <1>9 DEF Reads

LEMMA NetTasks ==
    ASSUME WatchInv, Tasks
    PROVE  NetType'
  <1>0. DataType /\ AppType /\ Known /\ NetType /\ StatesType /\ sent \in Seq(Request)
    BY DEF WatchInv, NetType
  <1>1. CASE JoinListeners \/ DropToken
    <2>1. UNCHANGED <<stream, tokens, tracker, states, sent, faults>>
      BY <1>1 DEF JoinListeners, DropToken, network
    <2> QED
      BY <1>0, <2>1 DEF NetType, StatesType
  <1>2. CASE Listen
    <2> DEFINE q == asks[Head(worker).get]
    <2>1. q \in Queries
      BY <1>0, <1>2, TaskTypes DEF Listen
    <2>2. StartListening(q) /\ UNCHANGED faults
      BY <1>2 DEF Listen
    <2> HIDE DEF q
    <2>3. stream' \in StreamState
      BY <1>0, <2>2, StreamTypes DEF StartListening, SendWatchRequest, NetType
    <2>4. tokens' \subseteq Nat
      BY <1>0, <2>2, <2>3, TokensTypes DEF StartListening, NetType
    <2>5. tracker' \in Tracker
      BY <1>0, <2>2, TrackerTypes DEF StartListening, NetType
    <2>6. sent' \in Seq(Request)
      BY <1>0, <2>1, <2>2, SentTypes DEF StartListening, SendWatchRequest
    <2>7. StatesType'
      <3>1. states' \in {states, << >>, Owing(q)}
        BY <2>2 DEF StartListening, SendWatchRequest
      <3>2. CASE states' = << >>
        <4>1. DOMAIN states' = {}
          BY <3>2
        <4> QED
          BY <4>1 DEF StatesType
      <3>3. CASE states' = states
        BY <1>0, <3>3 DEF StatesType
      <3> QED
        BY <1>0, <2>1, <3>1, <3>2, <3>3, OwingTypes
    <2> QED
      BY <1>0, <2>2, <2>3, <2>4, <2>5, <2>6, <2>7 DEF NetType
  <1>3. CASE RemoveListener
    <2> DEFINE q == asks[Head(worker).get]
    <2>1. q \in Queries
      BY <1>0, <1>3, TaskTypes DEF RemoveListener
    <2>2. /\ UNCHANGED <<tokens, faults>>
          /\ StopListening(q) \/ UNCHANGED <<stream, tracker, states, sent>>
      BY <1>3 DEF RemoveListener
    <2> HIDE DEF q
    <2>3. CASE UNCHANGED <<stream, tracker, states, sent>>
      BY <1>0, <2>2, <2>3 DEF NetType, StatesType
    <2>4. CASE StopListening(q)
      <3>1. stream' \in StreamState
        BY <1>0, <2>4, StreamTypes DEF StopListening, NetType
      <3>2. tracker' \in Tracker
        BY <1>0, <2>4, TrackerTypes DEF StopListening, NetType
      <3>3. sent' \in Seq(Request)
        BY <1>0, <2>1, <2>4, SentTypes DEF StopListening, SendUnwatchRequest
      <3>4. StatesType'
        <4>1. states' = states \/ states' = Owing(q)
          BY <2>4 DEF StopListening, SendUnwatchRequest
        <4>2. CASE states' = states
          BY <1>0, <4>2 DEF StatesType
        <4> QED
          BY <1>0, <2>1, <4>1, <4>2, OwingTypes
      <3> QED
        BY <1>0, <2>2, <3>1, <3>2, <3>3, <3>4 DEF NetType
    <2> QED
      BY <2>2, <2>3, <2>4
  <1>4. CASE OpenStream
    <2>1. stream' \in StreamState /\ UNCHANGED <<tokens, tracker, faults>>
      BY <1>0, <1>4, StreamTypes DEF OpenStream, NetType
    <2>2. StatesType'
      <3>1. states' = [q \in targets |-> [NewTarget EXCEPT !.owed = 1]]
        BY <1>4 DEF OpenStream
      <3>2. [NewTarget EXCEPT !.owed = 1] \in TargetState
        <4>1. PICK s \in TargetState : s = NewTarget
          BY <1>0, StateTypes
        <4>2. [s EXCEPT !.owed = 1] \in TargetState
          BY DEF TargetState
        <4> QED
          BY <4>1, <4>2
      <3> QED
        BY <1>0, <3>1, <3>2 DEF StatesType, DataType
    <2>3. sent' \in Seq(Request)
      <3>1. sent' \in SetToSeqs({Watch(q) : q \in targets})
        BY <1>4 DEF OpenStream
      <3>2. {Watch(q) : q \in targets} \subseteq Request
        BY <1>0 DEF Watch, Request, DataType
      <3>3. IsFiniteSet(targets)
        BY <1>0, WatchAssumptions, FS_Subset DEF DataType
      <3>4. IsFiniteSet({Watch(q) : q \in targets})
        <4> DEFINE T == {Watch(q) : q \in targets}
                   f == [q \in targets |-> Watch(q)]
        <4>1. f \in [targets -> T] /\ \A w \in T : \E q \in targets : f[q] = w
          OBVIOUS
        <4>2. f \in Surjection(targets, T)
          BY <4>1 DEF Surjection
        <4> HIDE DEF f, T
        <4>3. IsFiniteSet(T)
          BY <3>3, <4>2, FS_Surjection
        <4> QED
          BY <4>3 DEF T
      <3>5. PICK n \in Nat : n = Cardinality({Watch(q) : q \in targets})
        BY <3>4, FS_CardinalityType
      <3>6. sent' \in [1 .. n -> Request]
        BY <3>1, <3>2, <3>5 DEF SetToSeqs
      <3> QED
        BY <3>6
    <2> QED
      BY <1>0, <2>1, <2>2, <2>3 DEF NetType
  <1> QED
    BY <1>1, <1>2, <1>3, <1>4 DEF Tasks

LEMMA BrokenTypes ==
    ASSUME NetType, WatchStreamBroken
    PROVE  /\ stream' \in StreamState /\ tokens' \subseteq Nat /\ tracker' \in Tracker
           /\ StatesType' /\ sent' \in Seq(Request)
  <1>1. Reopened(stream) /\ StreamGone /\ RequestCredentials
    BY DEF WatchStreamBroken
  <1>2. stream' \in StreamState
    BY <1>1, StreamTypes DEF Reopened, NetType
  <1>3. tracker' \in Tracker
    BY <1>1, TrackerTypes DEF Reopened, NetType
  <1>4. tokens' \subseteq Nat
    BY <1>1, <1>2, TokensTypes DEF NetType
  <1> QED
    BY <1>1, <1>2, <1>3, <1>4, GoneTypes

LEMMA NetKeeps == ASSUME WatchInv, Next PROVE NetType'
  <1>0. DataType /\ NetType /\ StatesType /\ sent \in Seq(Request) /\ StatesType
    BY DEF WatchInv, NetType
  <1>1. CASE Tasks
    BY <1>1, NetTasks
  <1>2. CASE Reads
    BY <1>0, <1>2, NetReads
  <1>3. CASE Serves
    <2>1. UNCHANGED <<stream, tokens, tracker, states, faults>>
      BY <1>3 DEF Serves, ServerWatches, ServerUnwatches, ServerSends
    <2>2. sent' = sent \/ (sent # << >> /\ sent' = Tail(sent))
      BY <1>3 DEF Serves, ServerWatches, ServerUnwatches, ServerSends
    <2>3. sent' \in Seq(Request)
      BY <1>0, <2>2
    <2> QED
      BY <1>0, <2>1, <2>3 DEF NetType, StatesType
  <1>4. CASE OnEvent \/ Get \/ ServerChanges
    BY <1>0, <1>4 DEF OnEvent, Get, ServerChanges, network, NetType, StatesType
  <1>5. CASE TokenArrives
    <2>1. tokens' \subseteq tokens /\ UNCHANGED <<stream, tracker, states, sent, faults>>
      BY <1>5 DEF TokenArrives, network
    <2> QED
      BY <1>0, <2>1 DEF NetType, StatesType
  <1>6. CASE BackoffTimer
    <2>1. stream' \in StreamState /\ RequestCredentials
      BY <1>0, <1>6, StreamTypes DEF BackoffTimer, NetType
    <2>2. UNCHANGED <<tracker, states, sent, faults>>
      BY <1>6 DEF BackoffTimer, network
    <2>3. tokens' \subseteq Nat
      BY <1>0, <2>1, TokensTypes DEF NetType
    <2> QED
      BY <1>0, <2>1, <2>2, <2>3 DEF NetType, StatesType
  <1>7. CASE IdleTimer
    <2>1. StreamGone /\ UNCHANGED <<tokens, faults>>
      BY <1>7 DEF IdleTimer
    <2>2. stream' \in StreamState /\ tracker' \in Tracker
      BY <1>0, <1>7, StreamTypes, TrackerTypes DEF IdleTimer, NetType
    <2> QED
      BY <1>0, <2>1, <2>2, GoneTypes DEF NetType
  <1>8. CASE OnlineTimer
    <2>1. tracker' \in Tracker
      BY <1>0, <1>8, TrackerTypes DEF OnlineTimer, NetType
    <2>2. UNCHANGED <<stream, tokens, states, sent, faults>>
      BY <1>8 DEF OnlineTimer, network
    <2> QED
      BY <1>0, <2>1, <2>2 DEF NetType, StatesType
  <1>9. CASE ConnectionLost \/ TokenFails
    <2>1. WatchStreamBroken /\ faults' \in Nat
      BY <1>0, <1>9 DEF ConnectionLost, TokenFails, Fault, NetType
    <2> QED
      BY <1>0, <2>1, BrokenTypes DEF NetType
  <1>10. CASE NetworkRestarts
    <2>1. StreamGone /\ RequestCredentials /\ faults' \in Nat
      BY <1>0, <1>10 DEF NetworkRestarts, Fault, NetType
    <2>2. InhibitBackoff(Stop(stream)) \in StreamState
      BY <1>0, StreamTypes DEF NetType
    <2>3. stream' \in StreamState
      BY <1>10, <2>2, StreamTypes DEF NetworkRestarts
    <2>4. UpdateState(tracker, "Unknown") \in Tracker
      BY <1>0, TrackerTypes DEF NetType
    <2>5. tracker' \in Tracker
      BY <1>10, <2>4, TrackerTypes DEF NetworkRestarts
    <2>6. tokens' \subseteq Nat
      BY <1>0, <2>1, <2>3, TokensTypes DEF NetType
    <2> QED
      BY <2>1, <2>3, <2>5, <2>6, GoneTypes DEF NetType
  <1> QED
    BY <1>1, <1>2, <1>3, <1>4, <1>5, <1>6, <1>7, <1>8, <1>9, <1>10 DEF Next, Faults

(***************************************************************************)
(* What a step does to the reads                                           *)
(***************************************************************************)

Kept == {"synced", "cache"}

\* Tokens come and go in the worker's queue.
TokenTasks ==
    \/ worker' = worker
    \/ NextTask("token") /\ worker' = Tail(worker)
    \/ \E closes \in Nat : worker' = Append(worker, [kind |-> "token", closes |-> closes])

\* Some of those who listen are answered.
AnswerSome ==
    /\ UNCHANGED <<asks, muted, told, listeners>>
    /\ TokenTasks
    /\ \E gets \in SUBSET Listening : raised' = raised \cup gets /\ Posts(gets, Kept)

\* A read begins to listen, and may be answered.
ListenTask ==
    /\ NextTask("listen") /\ worker' = Tail(worker)
    /\ UNCHANGED <<asks, muted, told>>
    /\ listeners' = Registered(Head(worker).get)
    /\ \E gets \in SUBSET {Head(worker).get} :
          raised' = raised \cup gets /\ Posts(gets, Kept)

RemoveTask ==
    /\ NextTask("remove") /\ worker' = Tail(worker)
    /\ UNCHANGED <<asks, muted, told, main, raised>>
    /\ listeners' = Unregistered(Head(worker).get)

\* All who listen to a query are told of an error, and no longer listen.
RejectSome ==
    /\ UNCHANGED <<asks, muted, told, raised, worker>>
    /\ \E q \in Queries :
          listeners' = ListenersFailed(q) /\ Posts(listeners[q], {"error"})

LEMMA NoAnswer ==
    ASSUME WatchInv, TokenTasks, UNCHANGED <<asks, muted, told, listeners, raised, main>>
    PROVE  AnswerSome
  <1>1. Posts({}, Kept)
    BY NothingPosted DEF WatchInv
  <1>2. {} \in SUBSET Listening /\ raised' = raised \cup {}
    OBVIOUS
  <1> QED
    BY <1>1, <1>2 DEF AnswerSome

LEMMA ListeningGotten == AppType => Listening \subseteq Gotten
  BY DEF AppType, Listening

LEMMA BroadcastAnswers ==
    ASSUME WatchInv, DataType', TokenTasks, UNCHANGED <<asks, muted, told, listeners>>,
           Broadcast
    PROVE  AnswerSome
  <1>1. PostTypes /\ Listening \subseteq Gotten
    BY ListeningGotten DEF WatchInv, AppType, DataType, PostTypes
  <1> QED
    BY <1>1, BroadcastPosts DEF AnswerSome, Kept

LEMMA ListenStep == ASSUME WatchInv, DataType', JoinListeners \/ Listen PROVE ListenTask
  <1>1. AppType /\ Known /\ main \in Seq(Answer)
    BY DEF WatchInv
  <1>2. NextTask("listen") /\ worker' = Tail(worker) /\ UNCHANGED <<asks, muted, told>>
    BY DEF JoinListeners, Listen, app
  <1> DEFINE g == Head(worker).get
  <1>3. listeners' = Registered(g) /\ (Raise({g}) \/ RaiseNothing)
    BY DEF JoinListeners, Listen
  <1>4. g \in Gotten
    BY <1>1, <1>2, TaskTypes
  <1> HIDE DEF g
  <1>5. \E gets \in SUBSET {g} : raised' = raised \cup gets /\ Posts(gets, Kept)
    <2>1. CASE Raise({g})
      <3>1. PostTypes
        BY <1>1 DEF PostTypes, DataType, AppType
      <3>2. {g} \in SUBSET Gotten
        BY <1>4
      <3>3. raised' = raised \cup {g} /\ Posts({g}, Kept)
        BY <2>1, <3>1, <3>2, RaisePosts DEF Kept
      <3> QED
        BY <3>3
    <2>2. CASE RaiseNothing
      <3>1. UNCHANGED main /\ raised' = raised \cup {}
        BY <2>2 DEF RaiseNothing
      <3>2. Posts({}, Kept)
        BY <1>1, <3>1, NothingPosted
      <3> QED
        BY <3>1, <3>2
    <2> QED
      BY <1>3, <2>1, <2>2
  <1> QED
    BY <1>2, <1>3, <1>5 DEF ListenTask, g

LEMMA RejectStep == ASSUME WatchInv, DataType', TargetRejected PROVE AnswerSome \/ RejectSome
  <1>1. UNCHANGED <<asks, muted, told, worker, raised>>
    BY DEF TargetRejected, Read, app
  <1> DEFINE q == Head(answers).query
  <1>2. q \in Queries
    BY MessageTypes DEF TargetRejected, WatchInv
  <1>3. CASE q \in targets
    <2>1. listeners' = ListenersFailed(q) /\ Post(listeners[q], [r \in Queries |-> "error"])
      BY <1>3 DEF TargetRejected
    <2> HIDE DEF q
    <2>2. PostTypes /\ listeners[q] \in SUBSET Gotten
      BY <1>2 DEF WatchInv, AppType, DataType, PostTypes
    <2>3. PICK from \in [Queries -> {"error"}] : from = [r \in Queries |-> "error"]
      OBVIOUS
    <2>4. Posts(listeners[q], {"error"})
      BY <2>1, <2>2, <2>3, Posted
    <2> QED
      BY <1>1, <1>2, <2>1, <2>4 DEF RejectSome
  <1>4. CASE q \notin targets
    <2>1. UNCHANGED <<main, listeners>>
      BY <1>4 DEF TargetRejected, engine
    <2> QED
      BY <1>1, <2>1, NoAnswer DEF TokenTasks
  <1> QED
    BY <1>3, <1>4

LEMMA SnapshotStep == ASSUME WatchInv, DataType', Snapshot PROVE AnswerSome
  <1>1. UNCHANGED <<asks, muted, told, worker, listeners>>
    BY DEF Snapshot, Read, app
  <1>2. PICK gets \in SUBSET Listening : Raise(gets)
    BY DEF Snapshot
  <1>3. PostTypes /\ gets \in SUBSET Gotten
    BY ListeningGotten DEF WatchInv, AppType, DataType, PostTypes
  <1>4. raised' = raised \cup gets /\ Posts(gets, Kept)
    BY <1>2, <1>3, RaisePosts DEF Kept
  <1> QED
    BY <1>1, <1>4 DEF AnswerSome, TokenTasks

LEMMA ReadsStep ==
    ASSUME WatchInv, DataType', Next
    PROVE  AnswerSome \/ ListenTask \/ RemoveTask \/ RejectSome \/ Get \/ OnEvent
  <1>1. CASE Serves \/ ServerChanges \/ BackoffTimer \/ IdleTimer \/ NetworkRestarts
             \/ TargetAdded \/ TargetRemoved \/ TargetCurrent \/ DocumentChange
    <2>1. UNCHANGED <<asks, muted, told, listeners, raised, main, worker>>
      BY <1>1 DEF Serves, ServerWatches, ServerUnwatches, ServerSends, ServerChanges,
         BackoffTimer, IdleTimer, NetworkRestarts, TargetAdded, TargetRemoved,
         TargetCurrent, DocumentChange, Read, app, engine
    <2> QED
      BY <2>1, NoAnswer DEF TokenTasks
  <1>2. CASE TokenArrives
    <2>1. UNCHANGED <<asks, muted, told, listeners, raised, main>>
      BY <1>2 DEF TokenArrives, app, engine
    <2>2. TokenTasks
      BY <1>2 DEF TokenArrives, TokenTasks, WatchInv, NetType
    <2> QED
      BY <2>1, <2>2, NoAnswer
  <1>3. CASE DropToken \/ OpenStream
    <2>1. /\ UNCHANGED <<asks, muted, told, listeners, raised, main>>
          /\ NextTask("token") /\ worker' = Tail(worker)
      BY <1>3 DEF DropToken, OpenStream, app, engine
    <2> QED
      BY <2>1, NoAnswer DEF TokenTasks
  <1>4. CASE OnlineTimer
    <2>1. UNCHANGED <<asks, muted, told, listeners, worker>> /\ Broadcast
      BY <1>4 DEF OnlineTimer, app
    <2> QED
      BY <2>1, BroadcastAnswers DEF TokenTasks
  <1>5. CASE ConnectionLost
    <2>1. UNCHANGED <<asks, muted, told, listeners, worker>> /\ Broadcast
      BY <1>5 DEF ConnectionLost, WatchStreamBroken, app
    <2> QED
      BY <2>1, BroadcastAnswers DEF TokenTasks
  <1>6. CASE TokenFails
    <2>1. /\ UNCHANGED <<asks, muted, told, listeners>> /\ Broadcast
          /\ NextTask("token") /\ worker' = Tail(worker)
      BY <1>6 DEF TokenFails, WatchStreamBroken, app
    <2> QED
      BY <2>1, BroadcastAnswers DEF TokenTasks
  <1>7. CASE JoinListeners \/ Listen
    BY <1>7, ListenStep
  <1>8. CASE RemoveListener
    BY <1>8 DEF RemoveListener, RemoveTask, app
  <1>9. CASE TargetRejected
    BY <1>9, RejectStep
  <1>10. CASE Snapshot
    BY <1>10, SnapshotStep
  <1> QED
    BY <1>1, <1>2, <1>3, <1>4, <1>5, <1>6, <1>7, <1>8, <1>9, <1>10
       DEF Next, Tasks, Reads, Faults

(***************************************************************************)
(* The reads keep their types                                              *)
(***************************************************************************)

\* Answers posted are answers, of reads that were asked for.
LEMMA PostsTypes ==
    ASSUME WatchInv, NEW gets \in SUBSET Gotten, NEW kinds, Posts(gets, kinds)
    PROVE  main' \in Seq(Answer) /\ \A k \in DOMAIN main' : main'[k].get \in Gotten
  <1>1. PICK s \in Seq(Answer) : /\ main' = main \o s
                                 /\ \A k \in DOMAIN s : s[k].get \in gets
    BY DEF Posts
  <1>2. main \in Seq(Answer) /\ \A k \in DOMAIN main : main[k].get \in Gotten
    BY DEF WatchInv, Known
  <1>3. \A k \in DOMAIN (main \o s) :
           \/ k \in DOMAIN main /\ (main \o s)[k] = main[k]
           \/ k - Len(main) \in DOMAIN s /\ (main \o s)[k] = s[k - Len(main)]
    BY <1>1, <1>2
  <1> QED
    BY <1>1, <1>2, <1>3

\* Tasks of the worker after a step are those before, but for one more or less.
LEMMA TailTasks ==
    ASSUME worker \in Seq(Task), worker # << >>
    PROVE  \A k \in DOMAIN Tail(worker) : k + 1 \in DOMAIN worker
                                          /\ Tail(worker)[k] = worker[k + 1]
  OBVIOUS

LEMMA AppendTasks ==
    ASSUME worker \in Seq(Task), NEW t \in Task
    PROVE  /\ Append(worker, t) \in Seq(Task)
           /\ \A k \in DOMAIN Append(worker, t) :
                 \/ k \in DOMAIN worker /\ Append(worker, t)[k] = worker[k]
                 \/ k = Len(worker) + 1 /\ Append(worker, t)[k] = t
  OBVIOUS

TasksKnown == \A k \in DOMAIN worker : worker[k].kind # "token" => worker[k].get \in Gotten

LEMMA TailKnown ==
    ASSUME WatchInv, worker # << >>, worker' = Tail(worker), UNCHANGED asks
    PROVE  worker' \in Seq(Task) /\ TasksKnown'
  <1>1. worker \in Seq(Task) /\ TasksKnown
    BY DEF WatchInv, AppType, Known, TasksKnown
  <1> QED
    BY <1>1, TailTasks DEF TasksKnown, Gotten

LEMMA TokensKnown ==
    ASSUME WatchInv, TokenTasks, UNCHANGED asks
    PROVE  worker' \in Seq(Task) /\ TasksKnown'
  <1>1. worker \in Seq(Task) /\ TasksKnown
    BY DEF WatchInv, AppType, Known, TasksKnown
  <1>2. CASE worker' = worker
    BY <1>1, <1>2 DEF TasksKnown, Gotten
  <1>3. CASE NextTask("token") /\ worker' = Tail(worker)
    BY <1>3, TailKnown DEF NextTask
  <1>4. ASSUME NEW closes \in Nat, worker' = Append(worker, [kind |-> "token", closes |-> closes])
        PROVE  worker' \in Seq(Task) /\ TasksKnown'
    <2>1. [kind |-> "token", closes |-> closes] \in Task
      BY DEF Task
    <2> QED
      BY <1>1, <1>4, <2>1, AppendTasks DEF TasksKnown, Gotten
  <1> QED
    BY <1>2, <1>3, <1>4 DEF TokenTasks

LEMMA AppKeeps ==
    ASSUME WatchInv, AnswerSome \/ ListenTask \/ RemoveTask \/ RejectSome
    PROVE  AppType' /\ main' \in Seq(Answer) /\ Known'
  <1>0. AppType /\ Known /\ main \in Seq(Answer) /\ Listening \subseteq Gotten
    BY ListeningGotten DEF WatchInv
  <1>1. UNCHANGED <<asks, muted, told>> /\ Gotten' = Gotten
    BY DEF AnswerSome, ListenTask, RemoveTask, RejectSome, Gotten
  <1>2. worker' \in Seq(Task) /\ TasksKnown'
    <2>1. CASE AnswerSome
      BY <1>1, <2>1, TokensKnown DEF AnswerSome
    <2>2. CASE RejectSome
      BY <1>1, <2>2, TokensKnown DEF RejectSome, TokenTasks
    <2>3. CASE ListenTask \/ RemoveTask
      BY <1>1, <2>3, TailKnown DEF ListenTask, RemoveTask, NextTask
    <2> QED
      BY <2>1, <2>2, <2>3
  <1>3. \A g \in Gotten : asks[g] \in Queries
    BY <1>0 DEF AppType, Gotten
  <1>4. /\ raised' \subseteq Gotten
        /\ main' \in Seq(Answer) /\ \A k \in DOMAIN main' : main'[k].get \in Gotten
    <2>1. CASE AnswerSome
      BY <1>0, <2>1, PostsTypes DEF AnswerSome, AppType
    <2>2. CASE ListenTask
      <3>1. Head(worker).get \in Gotten
        BY <1>0, <2>2, TaskTypes DEF ListenTask
      <3> QED
        BY <1>0, <2>2, <3>1, PostsTypes DEF ListenTask, AppType
    <2>3. CASE RemoveTask
      BY <1>0, <2>3 DEF RemoveTask, AppType, Known
    <2>4. CASE RejectSome
      <3>1. PICK q \in Queries : Posts(listeners[q], {"error"})
        BY <2>4 DEF RejectSome
      <3>2. listeners[q] \in SUBSET Gotten
        BY <1>0 DEF AppType
      <3>3. UNCHANGED raised
        BY <2>4 DEF RejectSome
      <3> QED
        BY <1>0, <3>1, <3>2, <3>3, PostsTypes DEF AppType
    <2> QED
      BY <2>1, <2>2, <2>3, <2>4
  <1>5. /\ listeners' \in [Queries -> SUBSET Gotten]
        /\ \A q \in Queries : \A g \in listeners'[q] : asks[g] = q
    <2>1. CASE AnswerSome
      BY <1>0, <2>1 DEF AnswerSome, AppType, Known
    <2>2. CASE ListenTask
      <3>1. Head(worker).get \in Gotten
        BY <1>0, <2>2, TaskTypes DEF ListenTask
      <3> QED
        BY <1>0, <1>3, <2>2, <3>1 DEF ListenTask, Registered, AppType, Known
    <2>3. CASE RemoveTask
      BY <1>0, <2>3 DEF RemoveTask, Unregistered, AppType, Known
    <2>4. CASE RejectSome
      BY <1>0, <2>4 DEF RejectSome, ListenersFailed, AppType, Known
    <2> QED
      BY <2>1, <2>2, <2>3, <2>4
  <1>6. AppType'
    BY <1>0, <1>1, <1>2, <1>4, <1>5 DEF AppType
  <1>7. Known'
    BY <1>1, <1>2, <1>4, <1>5 DEF Known, TasksKnown
  <1> QED
    BY <1>4, <1>6, <1>7

LEMMA GetKeeps == ASSUME WatchInv, Get PROVE AppType' /\ main' \in Seq(Answer) /\ Known'
  <1>0. AppType /\ Known /\ main \in Seq(Answer) /\ TasksKnown
    BY DEF WatchInv, Known, TasksKnown
  <1>1. PICK q \in Queries : /\ asks' = Append(asks, q)
                             /\ worker' = Append(worker, [kind |-> "listen", get |-> Len(asks) + 1])
                             /\ Len(asks) < MaxGets
    BY DEF Get
  <1>2. UNCHANGED <<main, muted, told, listeners, raised>>
    BY DEF Get, engine
  <1>3. /\ asks' \in Seq(Queries) /\ Len(asks') = Len(asks) + 1 /\ Len(asks') <= MaxGets
        /\ \A g \in Gotten : g \in Gotten' /\ asks'[g] = asks[g]
        /\ Len(asks) + 1 \in Gotten' /\ Len(asks) + 1 \in Gets
    BY <1>0, <1>1, WatchAssumptions DEF AppType, Gotten, Gets
  <1>4. [kind |-> "listen", get |-> Len(asks) + 1] \in Task
    BY <1>3 DEF Task
  <1>5. worker' \in Seq(Task) /\ TasksKnown'
    BY <1>0, <1>1, <1>3, <1>4, AppendTasks DEF AppType, TasksKnown
  <1>6. AppType'
    BY <1>0, <1>2, <1>3, <1>5 DEF AppType
  <1>7. Known'
    <2>1. \A r \in Queries : \A g \in listeners'[r] : asks'[g] = r
      BY <1>0, <1>2, <1>3 DEF AppType, Known
    <2> QED
      BY <1>0, <1>2, <1>3, <1>5, <2>1 DEF Known, TasksKnown
  <1> QED
    BY <1>0, <1>2, <1>6, <1>7

LEMMA EventKeeps == ASSUME WatchInv, OnEvent PROVE AppType' /\ main' \in Seq(Answer) /\ Known'
  <1>0. AppType /\ Known /\ main \in Seq(Answer) /\ TasksKnown
    BY DEF WatchInv, Known, TasksKnown
  <1>1. main # << >> /\ main' = Tail(main) /\ UNCHANGED <<asks, listeners, raised>>
    BY DEF OnEvent, engine
  <1> DEFINE answer == Head(main)
  <1>2. answer \in Answer /\ answer.get \in Gotten /\ answer.get \in Gets
    <2>1. answer \in Answer
      BY <1>0, <1>1
    <2>2. 1 \in DOMAIN main /\ answer = main[1]
      BY <1>0, <1>1
    <2>3. answer.get \in Gets
      BY <2>1 DEF Answer
    <2> QED
      BY <1>0, <2>1, <2>2, <2>3 DEF Known
  <1>3. \/ UNCHANGED <<muted, told, worker>>
        \/ /\ told' = Append(told, answer) /\ muted' = Muted(answer)
           /\ \/ worker' = worker
              \/ worker' = Append(worker, [kind |-> "remove", get |-> answer.get])
    BY DEF OnEvent
  <1> HIDE DEF answer
  <1>4. told' \in Seq(Answer) /\ muted' \subseteq Gotten
    <2>1. told \in Seq(Answer) /\ muted \subseteq Gotten
      BY <1>0 DEF AppType
    <2>2. told' = told \/ told' = Append(told, answer)
      BY <1>3
    <2>3. told' \in Seq(Answer)
      BY <1>2, <2>1, <2>2
    <2>4. muted' \in {muted, muted \cup {answer.get}}
      BY <1>3 DEF Muted
    <2> QED
      BY <1>2, <2>1, <2>3, <2>4
  <1>5. [kind |-> "remove", get |-> answer.get] \in Task
    BY <1>2 DEF Task
  <1>6. worker' \in Seq(Task) /\ TasksKnown'
    <2>1. CASE worker' = worker
      BY <1>0, <1>1, <2>1 DEF AppType, TasksKnown, Gotten
    <2>2. CASE worker' = Append(worker, [kind |-> "remove", get |-> answer.get])
      BY <1>0, <1>1, <1>2, <1>5, <2>2, AppendTasks DEF AppType, TasksKnown, Gotten
    <2> QED
      BY <1>3, <2>1, <2>2
  <1>7. main' \in Seq(Answer) /\ \A k \in DOMAIN main' : main'[k].get \in Gotten
    <2>1. \A k \in DOMAIN Tail(main) : k + 1 \in DOMAIN main /\ Tail(main)[k] = main[k + 1]
      BY <1>0, <1>1
    <2> QED
      BY <1>0, <1>1, <2>1 DEF Known
  <1>8. AppType'
    BY <1>0, <1>1, <1>4, <1>6 DEF AppType, Gotten
  <1>9. Known'
    BY <1>0, <1>1, <1>6, <1>7 DEF Known, TasksKnown, Gotten
  <1> QED
    BY <1>7, <1>8, <1>9

LEMMA WatchStep == WatchInv /\ [Next]_vars => WatchInv'
  <1> SUFFICES ASSUME WatchInv, [Next]_vars PROVE WatchInv'
    OBVIOUS
  <1>1. CASE Next
    <2>1. DataType' /\ NetType'
      BY <1>1, DataKeeps, NetKeeps
    <2>2. AppType' /\ main' \in Seq(Answer) /\ Known'
      BY <1>1, <2>1, ReadsStep, AppKeeps, GetKeeps, EventKeeps
    <2> QED
      BY <2>1, <2>2 DEF WatchInv
  <1>2. CASE UNCHANGED vars
    BY <1>2 DEF vars, app, engine, network, WatchInv, AppType, DataType, NetType,
       StatesType, Known, Gotten
  <1> QED
    BY <1>1, <1>2

\* Every variable keeps its type, and the reads in every queue are those asked for.
THEOREM WatchTypes == Spec => []WatchType
  <1>1. Spec => []WatchInv
    BY WatchInit, WatchStep, PTL DEF Spec
  <1> QED
    BY <1>1, WatchInvIsType, PTL

(***************************************************************************)
(* A read is answered at most once                                         *)
(***************************************************************************)

\* A read that has yet to listen was not answered in any way.
ListensOnce ==
    \A j, k \in DOMAIN worker :
        worker[j].kind = "listen" /\ worker[k].kind = "listen"
          /\ worker[j].get = worker[k].get => j = k

Untouched(g) ==
    /\ g \notin Listening /\ g \notin muted
    /\ \A i \in DOMAIN main : main[i].get # g
    /\ \A i \in DOMAIN told : told[i].get # g

ListensFirst ==
    \A k \in DOMAIN worker : worker[k].kind = "listen" => Untouched(worker[k].get)

\* An error ends a read: it does not listen, and nothing is posted to it any more.
ErrorsLast ==
    \A i \in DOMAIN main : main[i].from = "error" =>
        /\ main[i].get \notin Listening
        /\ \A j \in DOMAIN main : i < j => main[j].get # main[i].get

\* Any other answer mutes it.
ToldLast ==
    \A k \in DOMAIN told :
        /\ told[k].get \in Gotten
        /\ IF told[k].from = "error"
           THEN /\ told[k].get \notin Listening
                /\ \A i \in DOMAIN main : main[i].get # told[k].get
           ELSE told[k].get \in muted

OnceInv == ListensOnce /\ ListensFirst /\ ErrorsLast /\ ToldLast /\ AnsweredOnce

\* What is posted comes after what is there.
LEMMA PostsGrow ==
    ASSUME main \in Seq(Answer), NEW gets, NEW kinds, Posts(gets, kinds)
    PROVE  \E n \in Nat :
              /\ n = Len(main) /\ DOMAIN main = 1 .. n /\ DOMAIN main' \subseteq Nat
              /\ \A k \in DOMAIN main' :
                    IF k <= n THEN k \in DOMAIN main /\ main'[k] = main[k]
                    ELSE main'[k].get \in gets /\ main'[k].from \in kinds
              /\ \A j, k \in DOMAIN main' :
                    n < j /\ n < k /\ main'[j].get = main'[k].get => j = k
  <1>1. PICK s \in Seq(Answer) :
           /\ main' = main \o s
           /\ \A k \in DOMAIN s : s[k].get \in gets /\ s[k].from \in kinds
           /\ \A j, k \in DOMAIN s : s[j].get = s[k].get => j = k
    BY DEF Posts
  <1>2. PICK n \in Nat : n = Len(main) /\ DOMAIN main = 1 .. n
    OBVIOUS
  <1>3. /\ DOMAIN main' = 1 .. n + Len(s)
        /\ \A k \in 1 .. n : main'[k] = main[k]
        /\ \A k \in n + 1 .. n + Len(s) : k - n \in DOMAIN s /\ main'[k] = s[k - n]
    BY <1>1, <1>2
  <1>4. Len(s) \in Nat
    OBVIOUS
  <1>5. \A k \in DOMAIN main' :
           IF k <= n THEN k \in DOMAIN main /\ main'[k] = main[k]
           ELSE k - n \in DOMAIN s /\ main'[k] = s[k - n]
    BY <1>2, <1>3, <1>4
  <1>6. DOMAIN main' \subseteq Nat
    BY <1>3, <1>4
  <1>7. ASSUME NEW j \in DOMAIN main', NEW k \in DOMAIN main',
               n < j, n < k, main'[j].get = main'[k].get
        PROVE  j = k
    <2>1. j - n = k - n
      BY <1>1, <1>5, <1>6, <1>7
    <2> QED
      BY <1>6, <2>1
  <1> QED
    BY <1>1, <1>2, <1>5, <1>6, <1>7

\* The tasks to listen stay what they are, apart from the first.
LEMMA ListensKept ==
    ASSUME WatchInv, ListensOnce,
           \/ TokenTasks
           \/ worker # << >> /\ worker' = Tail(worker)
           \/ \E g \in Gets : worker' = Append(worker, [kind |-> "remove", get |-> g])
    PROVE  /\ ListensOnce'
           /\ \A k \in DOMAIN worker' : worker'[k].kind = "listen" =>
                 \E j \in DOMAIN worker : worker[j] = worker'[k]
  <1>0. worker \in Seq(Task)
    BY DEF WatchInv, AppType
  <1>1. CASE worker' = worker
    BY <1>1 DEF ListensOnce
  <1>2. CASE worker # << >> /\ worker' = Tail(worker)
    <2>1. \A k \in DOMAIN worker' : k \in Nat /\ k + 1 \in DOMAIN worker
                                    /\ worker'[k] = worker[k + 1]
      BY <1>0, <1>2, TailTasks
    <2>2. ListensOnce'
      <3> SUFFICES ASSUME NEW j \in DOMAIN worker', NEW k \in DOMAIN worker',
                          worker'[j].kind = "listen", worker'[k].kind = "listen",
                          worker'[j].get = worker'[k].get
                   PROVE  j = k
        BY DEF ListensOnce
      <3>1. j + 1 = k + 1
        BY <2>1 DEF ListensOnce
      <3> QED
        BY <2>1, <3>1
    <2> QED
      BY <2>1, <2>2
  <1>3. ASSUME NEW t \in Task, t.kind # "listen", worker' = Append(worker, t)
        PROVE  /\ ListensOnce'
               /\ \A k \in DOMAIN worker' : worker'[k].kind = "listen" =>
                     \E j \in DOMAIN worker : worker[j] = worker'[k]
    <2>1. \A k \in DOMAIN worker' :
             \/ k \in DOMAIN worker /\ worker'[k] = worker[k]
             \/ worker'[k].kind # "listen"
      BY <1>0, <1>3, AppendTasks
    <2> QED
      BY <2>1 DEF ListensOnce
  <1>4. \A closes \in Nat : /\ [kind |-> "token", closes |-> closes] \in Task
                            /\ [kind |-> "token", closes |-> closes].kind # "listen"
    BY DEF Task
  <1>5. \A g \in Gets : /\ [kind |-> "remove", get |-> g] \in Task
                        /\ [kind |-> "remove", get |-> g].kind # "listen"
    BY DEF Task
  <1>6. CASE \E closes \in Nat : worker' = Append(worker, [kind |-> "token", closes |-> closes])
    BY <1>3, <1>4, <1>6
  <1>7. CASE \E g \in Gets : worker' = Append(worker, [kind |-> "remove", get |-> g])
    BY <1>3, <1>5, <1>7
  <1>8. CASE NextTask("token") /\ worker' = Tail(worker)
    BY <1>2, <1>8 DEF NextTask
  <1> QED
    BY <1>1, <1>2, <1>6, <1>7, <1>8 DEF TokenTasks

LEMMA OnceInit == Init => OnceInv
  BY DEF Init, OnceInv, ListensOnce, ListensFirst, ErrorsLast, ToldLast, AnsweredOnce

LEMMA AnswerKeepsOnce == ASSUME WatchInv, OnceInv, AnswerSome PROVE OnceInv'
  <1>1. UNCHANGED <<asks, muted, told, listeners, Listening, Gotten>>
    BY DEF AnswerSome, Listening, Gotten
  <1>2. PICK gets \in SUBSET Listening : Posts(gets, Kept)
    BY DEF AnswerSome
  <1>3. PICK n \in Nat :
           /\ n = Len(main) /\ DOMAIN main = 1 .. n /\ DOMAIN main' \subseteq Nat
           /\ \A k \in DOMAIN main' :
                 IF k <= n THEN k \in DOMAIN main /\ main'[k] = main[k]
                 ELSE main'[k].get \in Listening /\ main'[k].from # "error"
    BY <1>2, PostsGrow DEF WatchInv, Kept
  <1>4. ListensOnce' /\ ListensFirst'
    BY <1>1, <1>3, ListensKept DEF AnswerSome, OnceInv, ListensFirst, Untouched
  <1>5. ErrorsLast'
    BY <1>1, <1>3 DEF OnceInv, ErrorsLast
  <1>6. ToldLast' /\ AnsweredOnce'
    BY <1>1, <1>3 DEF OnceInv, ToldLast, AnsweredOnce
  <1> QED
    BY <1>4, <1>5, <1>6 DEF OnceInv

LEMMA ListenKeepsOnce == ASSUME WatchInv, OnceInv, ListenTask PROVE OnceInv'
  <1> DEFINE g == Head(worker).get
  <1>0. AppType /\ Known
    BY DEF WatchInv
  <1>1. g \in Gotten /\ asks[g] \in Queries
    BY <1>0, TaskTypes DEF ListenTask
  <1>2. /\ worker \in Seq(Task) /\ worker # << >> /\ worker' = Tail(worker)
        /\ 1 \in DOMAIN worker /\ worker[1].kind = "listen" /\ worker[1].get = g
    BY <1>0 DEF ListenTask, NextTask, AppType
  <1>3. Untouched(g)
    BY <1>2 DEF OnceInv, ListensFirst
  <1>4. UNCHANGED <<asks, muted, told>> /\ listeners' = Registered(g) /\ Gotten' = Gotten
    BY DEF ListenTask, Gotten
  <1>5. \A h \in Listening' : h \in Listening \/ h = g
    BY <1>0, <1>4 DEF Registered, Listening, AppType
  <1>6. PICK gets \in SUBSET {g} : Posts(gets, Kept)
    BY DEF ListenTask
  <1> HIDE DEF g
  <1>7. PICK n \in Nat :
           /\ n = Len(main) /\ DOMAIN main = 1 .. n /\ DOMAIN main' \subseteq Nat
           /\ \A k \in DOMAIN main' :
                 IF k <= n THEN k \in DOMAIN main /\ main'[k] = main[k]
                 ELSE main'[k].get = g /\ main'[k].from # "error"
    BY <1>6, PostsGrow DEF WatchInv, Kept
  <1>8. ListensOnce'
    BY <1>2, ListensKept DEF OnceInv
  <1>9. ListensFirst'
    <2>1. \A k \in DOMAIN worker' : worker'[k].kind = "listen" =>
             worker'[k].get # g /\ Untouched(worker'[k].get)
      <3> SUFFICES ASSUME NEW k \in DOMAIN worker', worker'[k].kind = "listen"
                   PROVE  worker'[k].get # g /\ Untouched(worker'[k].get)
        OBVIOUS
      <3>1. k \in Nat /\ k # 0 /\ k + 1 \in DOMAIN worker /\ worker'[k] = worker[k + 1]
        BY <1>2, TailTasks
      <3> QED
        BY <1>2, <3>1 DEF OnceInv, ListensOnce, ListensFirst
    <2> QED
      BY <1>4, <1>5, <1>7, <2>1 DEF ListensFirst, Untouched
  <1>10. ErrorsLast'
    BY <1>3, <1>5, <1>7 DEF OnceInv, ErrorsLast, Untouched
  <1>11. ToldLast' /\ AnsweredOnce'
    BY <1>3, <1>4, <1>5, <1>7 DEF OnceInv, ToldLast, AnsweredOnce, Untouched
  <1> QED
    BY <1>8, <1>9, <1>10, <1>11 DEF OnceInv

LEMMA RemoveKeepsOnce == ASSUME WatchInv, OnceInv, RemoveTask PROVE OnceInv'
  <1>1. UNCHANGED <<asks, muted, told, main, Gotten>>
    BY DEF RemoveTask, Gotten
  <1>2. Listening' \subseteq Listening
    BY DEF RemoveTask, Unregistered, Listening, WatchInv, AppType
  <1>3. ListensOnce' /\ ListensFirst'
    BY <1>1, <1>2, ListensKept DEF RemoveTask, NextTask, OnceInv, ListensFirst, Untouched
  <1> QED
    BY <1>1, <1>2, <1>3 DEF OnceInv, ErrorsLast, ToldLast, AnsweredOnce

LEMMA RejectKeepsOnce == ASSUME WatchInv, OnceInv, RejectSome PROVE OnceInv'
  <1>1. UNCHANGED <<asks, muted, told, worker, Gotten>>
    BY DEF RejectSome, Gotten
  <1>2. PICK q \in Queries : listeners' = ListenersFailed(q) /\ Posts(listeners[q], {"error"})
    BY DEF RejectSome
  <1>3. /\ Listening' \subseteq Listening /\ listeners[q] \subseteq Listening
        /\ \A g \in listeners[q] : g \notin Listening'
    BY <1>2 DEF ListenersFailed, Listening, WatchInv, AppType, Known
  <1>4. PICK n \in Nat :
           /\ n = Len(main) /\ DOMAIN main = 1 .. n /\ DOMAIN main' \subseteq Nat
           /\ \A k \in DOMAIN main' :
                 IF k <= n THEN k \in DOMAIN main /\ main'[k] = main[k]
                 ELSE main'[k].get \in listeners[q]
           /\ \A j, k \in DOMAIN main' :
                 n < j /\ n < k /\ main'[j].get = main'[k].get => j = k
    BY <1>2, PostsGrow DEF WatchInv
  <1>5. ListensOnce' /\ ListensFirst'
    BY <1>1, <1>3, <1>4 DEF OnceInv, ListensOnce, ListensFirst, Untouched
  <1>6. ErrorsLast'
    BY <1>3, <1>4 DEF OnceInv, ErrorsLast
  <1>7. ToldLast' /\ AnsweredOnce'
    BY <1>1, <1>3, <1>4 DEF OnceInv, ToldLast, AnsweredOnce
  <1> QED
    BY <1>5, <1>6, <1>7 DEF OnceInv

LEMMA GetKeepsOnce == ASSUME WatchInv, OnceInv, Get PROVE OnceInv'
  <1>0. AppType /\ Known /\ Listening \subseteq Gotten
    BY ListeningGotten DEF WatchInv
  <1> DEFINE g == Len(asks) + 1
  <1>1. PICK q \in Queries : /\ asks' = Append(asks, q)
                             /\ worker' = Append(worker, [kind |-> "listen", get |-> g])
                             /\ Len(asks) < MaxGets
    BY DEF Get
  <1>2. UNCHANGED <<main, muted, told, listeners, Listening>>
    BY DEF Get, engine, Listening
  <1>3. g \notin Gotten /\ Gotten \subseteq Gotten' /\ g \in Gets
    BY <1>0, <1>1, WatchAssumptions DEF AppType, Gotten, Gets
  <1> HIDE DEF g
  <1>4. Untouched(g)
    BY <1>0, <1>3 DEF OnceInv, ToldLast, Untouched, AppType, Known
  <1>5. \A k \in DOMAIN worker' :
           \/ k \in DOMAIN worker /\ worker'[k] = worker[k]
           \/ k = Len(worker) + 1 /\ worker'[k].get = g
    <2>1. [kind |-> "listen", get |-> g] \in Task
      BY <1>3 DEF Task
    <2> QED
      BY <1>0, <1>1, <2>1, AppendTasks DEF AppType
  <1>6. \A k \in DOMAIN worker : worker[k].kind = "listen" => worker[k].get # g
    BY <1>0, <1>3 DEF Known
  <1>7. ListensOnce'
    BY <1>5, <1>6 DEF OnceInv, ListensOnce
  <1>8. ListensFirst'
    BY <1>2, <1>4, <1>5 DEF OnceInv, ListensFirst, Untouched
  <1> QED
    BY <1>2, <1>3, <1>7, <1>8 DEF OnceInv, ErrorsLast, ToldLast, AnsweredOnce

LEMMA EventKeepsOnce == ASSUME WatchInv, OnceInv, OnEvent PROVE OnceInv'
  <1>0. AppType /\ Known /\ main \in Seq(Answer) /\ told \in Seq(Answer)
    BY DEF WatchInv, AppType
  <1> DEFINE answer == Head(main)
             g == answer.get
  <1>1. /\ main # << >> /\ main' = Tail(main)
        /\ UNCHANGED <<asks, listeners, Listening, Gotten>>
    BY DEF OnEvent, engine, Listening, Gotten
  <1>2. 1 \in DOMAIN main /\ main[1] = answer /\ g \in Gotten /\ g \in Gets /\ answer \in Answer
    <2>1. 1 \in DOMAIN main /\ main[1] = answer /\ answer \in Answer
      BY <1>0, <1>1
    <2> QED
      BY <1>0, <2>1 DEF Known, Answer
  <1>3. \A i \in DOMAIN main' : i \in Nat /\ i + 1 \in DOMAIN main /\ main'[i] = main[i + 1]
                                /\ 1 < i + 1
    BY <1>0, <1>1
  <1>4. \/ UNCHANGED <<muted, told, worker>>
        \/ /\ g \notin muted
           /\ told' = Append(told, answer) /\ muted' = Muted(answer)
           /\ \/ worker' = worker
              \/ worker' = Append(worker, [kind |-> "remove", get |-> g])
    BY DEF OnEvent
  <1> HIDE DEF answer
  <1>5. ListensOnce' /\ \A k \in DOMAIN worker' : worker'[k].kind = "listen" =>
                           \E j \in DOMAIN worker : worker[j] = worker'[k]
    BY <1>2, <1>4, ListensKept DEF TokenTasks, OnceInv
  <1>6. \A k \in DOMAIN told' : \/ k \in DOMAIN told /\ told'[k] = told[k]
                                \/ /\ k = Len(told) + 1 /\ told'[k] = answer
                                   /\ g \notin muted /\ muted' = Muted(answer)
    BY <1>0, <1>2, <1>4
  <1>7. muted \subseteq muted' /\ \A h \in muted' : h \in muted \/ h = g
    BY <1>4 DEF Muted
  <1>8. ListensFirst'
    <2>1. ASSUME NEW h, Untouched(h), h # g
          PROVE  /\ h \notin Listening' /\ h \notin muted'
                 /\ \A i \in DOMAIN main' : main'[i].get # h
                 /\ \A i \in DOMAIN told' : told'[i].get # h
      BY <1>1, <1>3, <1>6, <1>7, <2>1 DEF Untouched
    <2>2. \A h : Untouched(h) => h # g
      BY <1>2 DEF Untouched
    <2>3. \A k \in DOMAIN worker' : worker'[k].kind = "listen" => Untouched(worker'[k].get)
      BY <1>5 DEF OnceInv, ListensFirst
    <2> QED
      BY <2>1, <2>2, <2>3 DEF ListensFirst, Untouched
  <1>9. ErrorsLast'
    BY <1>1, <1>3 DEF OnceInv, ErrorsLast
  <1>10. ToldLast'
    <2> SUFFICES ASSUME NEW k \in DOMAIN told'
                 PROVE  /\ told'[k].get \in Gotten
                        /\ IF told'[k].from = "error"
                           THEN /\ told'[k].get \notin Listening
                                /\ \A i \in DOMAIN main' : main'[i].get # told'[k].get
                           ELSE told'[k].get \in muted'
      BY <1>1 DEF ToldLast
    <2>1. CASE k \in DOMAIN told /\ told'[k] = told[k]
      BY <1>3, <1>7, <2>1 DEF OnceInv, ToldLast
    <2>2. CASE told'[k] = answer /\ muted' = Muted(answer)
      BY <1>2, <1>3, <2>2 DEF OnceInv, ErrorsLast, Muted
    <2> QED
      BY <1>6, <2>1, <2>2
  <1>11. AnsweredOnce'
    <2>1. g \in muted \/ \A k \in DOMAIN told : told[k].get # g
      BY <1>2 DEF OnceInv, ToldLast
    <2> QED
      BY <1>6, <2>1 DEF OnceInv, AnsweredOnce
  <1> QED
    BY <1>5, <1>8, <1>9, <1>10, <1>11 DEF OnceInv

LEMMA OnceStep == WatchInv /\ WatchInv' /\ OnceInv /\ [Next]_vars => OnceInv'
  <1> SUFFICES ASSUME WatchInv, WatchInv', OnceInv, [Next]_vars PROVE OnceInv'
    OBVIOUS
  <1>1. CASE Next
    <2>1. DataType'
      BY DEF WatchInv
    <2> QED
      BY <1>1, <2>1, ReadsStep, AnswerKeepsOnce, ListenKeepsOnce, RemoveKeepsOnce,
         RejectKeepsOnce, GetKeepsOnce, EventKeepsOnce
  <1>2. CASE UNCHANGED vars
    BY <1>2 DEF vars, app, engine, OnceInv, ListensOnce, ListensFirst, Untouched,
       ErrorsLast, ToldLast, AnsweredOnce, Listening, Gotten
  <1> QED
    BY <1>1, <1>2

\* The promise of ListenOnce is fulfilled once: no read is answered a second time,
\* whatever comes between the answer and the removal of its listener.
THEOREM AnsweredAtMostOnce == Spec => []AnsweredOnce
  <1>1. Spec => [](WatchInv /\ OnceInv)
    BY WatchInit, WatchStep, OnceInit, OnceStep, PTL DEF Spec
  <1>2. OnceInv => AnsweredOnce
    BY DEF OnceInv
  <1> QED
    BY <1>1, <1>2, PTL

(***************************************************************************)
(* No assertion fails                                                      *)
(***************************************************************************)

\* Of all tokens asked for, at most one is of the stream as it is now, and while
\* there is one the stream is starting.
OfStream(closes) ==
    closes <= stream.closes /\ (closes = stream.closes => stream.state = "Starting")

TokensInv ==
    /\ \A c \in tokens : OfStream(c)
    /\ \A k \in DOMAIN worker : worker[k].kind = "token" =>
          /\ OfStream(worker[k].closes)
          /\ worker[k].closes = stream.closes =>
                /\ stream.closes \notin tokens
                /\ \A j \in DOMAIN worker :
                      worker[j].kind = "token" /\ worker[j].closes = stream.closes => j = k

HealthInv ==
    /\ stream.idle => IsOpen(stream) /\ targets = {}
    /\ tracker.timer => tracker.state = "Unknown" /\ IsStarted(stream)
    /\ tracker.state = "Online" => tracker.failures = 0
    /\ targets # {} \/ tracker.state = "Offline" => IsStarted(stream)

\* The worker's queue with its first task gone, or with one more that is no token.
WorkerMoves ==
    \/ worker' = worker
    \/ worker # << >> /\ worker' = Tail(worker)
    \/ \E t \in Task : t.kind # "token" /\ worker' = Append(worker, t)

LEMMA MovedTasks ==
    ASSUME worker \in Seq(Task), WorkerMoves
    PROVE  /\ DOMAIN worker' \subseteq Nat
           /\ \E d \in {0, 1} : \A k \in DOMAIN worker' : worker'[k].kind = "token" =>
                 k + d \in DOMAIN worker /\ worker'[k] = worker[k + d]
  <1>1. CASE worker' = worker
    <2>1. \A k \in DOMAIN worker' : k + 0 \in DOMAIN worker /\ worker'[k] = worker[k + 0]
      BY <1>1
    <2> QED
      BY <1>1, <2>1
  <1>2. CASE worker # << >> /\ worker' = Tail(worker)
    <2>1. \A k \in DOMAIN worker' : k + 1 \in DOMAIN worker /\ worker'[k] = worker[k + 1]
      BY <1>2, TailTasks
    <2>2. DOMAIN worker' \subseteq Nat
      BY <1>2
    <2> QED
      BY <2>1, <2>2
  <1>3. ASSUME NEW t \in Task, t.kind # "token", worker' = Append(worker, t)
        PROVE  /\ DOMAIN worker' \subseteq Nat
               /\ \E d \in {0, 1} : \A k \in DOMAIN worker' : worker'[k].kind = "token" =>
                     k + d \in DOMAIN worker /\ worker'[k] = worker[k + d]
    <2>1. DOMAIN worker' \subseteq Nat
      BY <1>3
    <2>2. \A k \in DOMAIN worker' : worker'[k].kind = "token" =>
             k + 0 \in DOMAIN worker /\ worker'[k] = worker[k + 0]
      BY <1>3, <2>1, AppendTasks
    <2> QED
      BY <2>1, <2>2
  <1> QED
    BY <1>1, <1>2, <1>3 DEF WorkerMoves

\* A stream that stays in its state keeps its tokens; one that is started again has
\* no token yet.
Restarted ==
    /\ RequestCredentials
    /\ \/ stream.closes < stream'.closes
       \/ stream.closes = stream'.closes /\ stream.state # "Starting"

SameStream == stream'.state = stream.state /\ stream'.closes = stream.closes /\ tokens' = tokens

LEMMA TokenTaskTypes ==
    ASSUME worker \in Seq(Task)
    PROVE  \A k \in DOMAIN worker : worker[k].kind = "token" => worker[k].closes \in Nat
  <1>1. \A k \in DOMAIN worker : worker[k] \in Task
    OBVIOUS
  <1>2. \A t \in Task : t.kind = "token" => t.closes \in Nat
    BY DEF Task
  <1> QED
    BY <1>1, <1>2

LEMMA TokensKeep ==
    ASSUME WatchInv, WatchInv', TokensInv, WorkerMoves, SameStream \/ Restarted
    PROVE  TokensInv'
  <1>0. /\ worker \in Seq(Task) /\ stream \in StreamState /\ stream' \in StreamState
        /\ tokens \subseteq Nat
        /\ \A k \in DOMAIN worker : worker[k].kind = "token" => worker[k].closes \in Nat
    BY TokenTaskTypes DEF WatchInv, AppType, NetType
  <1>1. PICK d \in {0, 1} :
           /\ DOMAIN worker' \subseteq Nat
           /\ \A k \in DOMAIN worker' : worker'[k].kind = "token" =>
                 k + d \in DOMAIN worker /\ worker'[k] = worker[k + d]
    BY <1>0, MovedTasks
  <1>2. \A j, k \in DOMAIN worker' : j + d = k + d => j = k
    BY <1>1
  <1>3. stream.closes \in Nat /\ stream'.closes \in Nat
    BY <1>0 DEF StreamState
  <1>4. CASE SameStream
    BY <1>1, <1>2, <1>4 DEF SameStream, TokensInv, OfStream
  <1>5. CASE Restarted
    <2>0. \/ stream.closes < stream'.closes
          \/ stream.closes = stream'.closes /\ stream.state # "Starting"
      BY <1>5 DEF Restarted
    <2>1. \A c \in Nat : OfStream(c) => c < stream'.closes
      BY <1>3, <2>0 DEF OfStream
    <2>2. \A k \in DOMAIN worker : worker[k].kind = "token" => worker[k].closes < stream'.closes
      BY <1>0, <2>1 DEF TokensInv
    <2>3. \A k \in DOMAIN worker' : worker'[k].kind = "token" =>
             worker'[k].closes \in Nat /\ worker'[k].closes < stream'.closes
      BY <1>0, <1>1, <2>2
    <2>4. \A c \in tokens' : c \in tokens \/ (c = stream'.closes /\ stream'.state = "Starting")
      BY <1>5 DEF Restarted, RequestCredentials
    <2>5. \A c \in Nat : c < stream'.closes => OfStream(c)' /\ c # stream'.closes
      BY <1>3 DEF OfStream
    <2>6. \A c \in tokens' : OfStream(c)'
      <3>1. \A c \in tokens : c < stream'.closes
        BY <1>0, <2>1 DEF TokensInv
      <3>2. stream'.state = "Starting" => OfStream(stream.closes)'
        BY <1>3 DEF OfStream
      <3> QED
        BY <1>0, <1>3, <2>4, <2>5, <3>1, <3>2
    <2>7. \A k \in DOMAIN worker' : worker'[k].kind = "token" =>
             worker'[k].closes <= stream'.closes /\ worker'[k].closes # stream'.closes
      BY <1>3, <2>3
    <2> QED
      BY <2>6, <2>7 DEF TokensInv, OfStream
  <1> QED
    BY <1>4, <1>5

LEMMA HealthInit == Init => TokensInv /\ HealthInv
  BY DEF Init, TokensInv, HealthInv, NewStream, IsStarted, IsOpen

\* What the operators do to a stream.
LEMMA StreamSteps ==
    ASSUME NEW s \in StreamState
    PROVE  /\ Fail(s).state = "Error" /\ Fail(s).closes = s.closes + 1 /\ ~Fail(s).idle
           /\ Start(s).state = IF s.state = "Error" THEN "Backoff" ELSE "Starting"
           /\ Start(s).closes = s.closes /\ Start(s).idle = s.idle
           /\ Stop(s) = IF IsStarted(s)
                        THEN [state |-> "Initial", closes |-> s.closes + 1, idle |-> FALSE]
                        ELSE s
           /\ InhibitBackoff(s).state = "Initial" /\ InhibitBackoff(s).closes = s.closes
           /\ InhibitBackoff(s).idle = s.idle
           /\ MarkIdle(s).state = s.state /\ MarkIdle(s).closes = s.closes
           /\ MarkIdle(s).idle = (s.idle \/ IsOpen(s))
           /\ WriteTo(s).state = s.state /\ WriteTo(s).closes = s.closes /\ ~WriteTo(s).idle
           /\ BackoffElapsed(s).state = "Starting" /\ BackoffElapsed(s).closes = s.closes
           /\ BackoffElapsed(s).idle = s.idle
           /\ OnStreamStart(s).state = "Open" /\ OnStreamStart(s).closes = s.closes
           /\ OnStreamStart(s).idle = s.idle
  BY DEF StreamState, Fail, Close, Start, Stop, InhibitBackoff, MarkIdle, WriteTo,
     BackoffElapsed, OnStreamStart

LEMMA ListenHealthy ==
    ASSUME WatchInv, WatchInv', TokensInv, HealthInv, Listen
    PROVE  TokensInv' /\ HealthInv'
  <1> DEFINE q == asks[Head(worker).get]
  <1>0. stream \in StreamState /\ stream' \in StreamState /\ tracker \in Tracker
    BY DEF WatchInv, NetType
  <1>1. StartListening(q) /\ worker # << >> /\ worker' = Tail(worker)
    BY DEF Listen, NextTask
  <1> HIDE DEF q
  <1>2. targets' = targets \cup {q} /\ RequestCredentials
    BY <1>1 DEF StartListening
  <1>3. CASE ~IsStarted(stream)
    <2>1. stream' = Start(stream) /\ tracker' = HandleWatchStreamStart(tracker)
      BY <1>1, <1>3 DEF StartListening
    <2>2. Restarted
      BY <1>0, <1>2, <1>3, <2>1, StreamSteps DEF Restarted, IsStarted
    <2>3. IsStarted(stream') /\ stream'.idle = stream.idle
      BY <1>0, <2>1, StreamSteps DEF IsStarted
    <2>4. HealthInv'
      BY <1>0, <1>3, <2>1, <2>3
         DEF HealthInv, HandleWatchStreamStart, Tracker, IsStarted, IsOpen
    <2> QED
      BY <1>1, <2>2, <2>4, TokensKeep DEF WorkerMoves
  <1>4. CASE IsOpen(stream)
    <2>1. stream' = WriteTo(stream) /\ UNCHANGED tracker
      BY <1>1, <1>4 DEF StartListening, SendWatchRequest, IsStarted, IsOpen
    <2>2. SameStream
      BY <1>0, <1>2, <1>4, <2>1, StreamSteps DEF SameStream, RequestCredentials, IsOpen
    <2>3. HealthInv'
      BY <1>0, <1>4, <2>1, StreamSteps DEF HealthInv, IsOpen, IsStarted
    <2> QED
      BY <1>1, <2>2, <2>3, TokensKeep DEF WorkerMoves
  <1>5. CASE IsStarted(stream) /\ ~IsOpen(stream)
    <2>1. UNCHANGED <<stream, tracker>>
      BY <1>1, <1>5 DEF StartListening
    <2>2. SameStream
      BY <1>2, <2>1 DEF SameStream, RequestCredentials
    <2>3. HealthInv'
      BY <1>5, <2>1 DEF HealthInv
    <2> QED
      BY <1>1, <2>2, <2>3, TokensKeep DEF WorkerMoves
  <1> QED
    BY <1>3, <1>4, <1>5

LEMMA RemoveHealthy ==
    ASSUME WatchInv, WatchInv', TokensInv, HealthInv, RemoveListener
    PROVE  TokensInv' /\ HealthInv'
  <1> DEFINE q == asks[Head(worker).get]
  <1>0. stream \in StreamState /\ stream' \in StreamState /\ tracker \in Tracker
    BY DEF WatchInv, NetType
  <1>1. /\ worker # << >> /\ worker' = Tail(worker) /\ UNCHANGED tokens
        /\ StopListening(q) \/ UNCHANGED <<targets, stream, tracker>>
    BY DEF RemoveListener, NextTask
  <1> HIDE DEF q
  <1>2. CASE UNCHANGED <<targets, stream, tracker>>
    BY <1>1, <1>2, TokensKeep DEF WorkerMoves, SameStream, HealthInv
  <1>3. CASE StopListening(q) /\ IsOpen(stream)
    <2>1. /\ targets' = targets \ {q} /\ UNCHANGED tracker
          /\ stream' = IF targets' = {} THEN MarkIdle(WriteTo(stream)) ELSE WriteTo(stream)
      BY <1>3 DEF StopListening
    <2>2. WriteTo(stream) \in StreamState
      BY <1>0, StreamTypes
    <2>3. /\ stream'.state = stream.state /\ stream'.closes = stream.closes
          /\ stream'.idle => targets' = {}
      BY <1>0, <2>1, <2>2, StreamSteps
    <2>4. HealthInv'
      BY <1>3, <2>1, <2>3 DEF HealthInv, IsOpen, IsStarted
    <2> QED
      BY <1>1, <2>3, <2>4, TokensKeep DEF WorkerMoves, SameStream
  <1>4. CASE StopListening(q) /\ ~IsOpen(stream)
    <2>1. /\ targets' = targets \ {q} /\ UNCHANGED stream
          /\ tracker' = IF targets' = {} THEN UpdateState(tracker, "Unknown") ELSE tracker
      BY <1>4 DEF StopListening
    <2>2. HealthInv'
      BY <1>0, <1>4, <2>1 DEF HealthInv, UpdateState, Tracker
    <2> QED
      BY <1>1, <2>1, <2>2, TokensKeep DEF WorkerMoves, SameStream
  <1> QED
    BY <1>1, <1>2, <1>3, <1>4

LEMMA OpenHealthy ==
    ASSUME WatchInv, WatchInv', TokensInv, HealthInv, OpenStream
    PROVE  TokensInv' /\ HealthInv'
  <1>0. /\ stream \in StreamState /\ worker \in Seq(Task) /\ stream.closes \in Nat
        /\ tokens \subseteq Nat
        /\ \A k \in DOMAIN worker : worker[k].kind = "token" => worker[k].closes \in Nat
    BY TokenTaskTypes DEF WatchInv, NetType, AppType, StreamState
  <1>1. /\ worker # << >> /\ worker' = Tail(worker) /\ stream' = OnStreamStart(stream)
        /\ UNCHANGED <<tokens, targets, tracker>>
        /\ 1 \in DOMAIN worker /\ worker[1].kind = "token" /\ worker[1].closes = stream.closes
    BY <1>0 DEF OpenStream, NextTask, IsCurrent
  <1>2. stream'.state = "Open" /\ stream'.closes = stream.closes /\ stream'.idle = stream.idle
    BY <1>0, <1>1, StreamSteps
  <1>3. HealthInv'
    BY <1>1, <1>2 DEF HealthInv, IsOpen, IsStarted
  <1>4. /\ stream.closes \notin tokens
        /\ \A k \in DOMAIN worker : worker[k].kind = "token" /\ worker[k].closes = stream.closes
                                      => k = 1
    BY <1>1 DEF TokensInv
  <1>5. \A k \in DOMAIN worker' : k \in Nat /\ k # 0 /\ k + 1 \in DOMAIN worker
                                  /\ worker'[k] = worker[k + 1]
    BY <1>0, <1>1, TailTasks
  <1>6. \A k \in DOMAIN worker' : worker'[k].kind = "token" =>
           worker'[k].closes <= stream.closes /\ worker'[k].closes # stream.closes
    BY <1>4, <1>5 DEF TokensInv, OfStream
  <1>7. TokensInv'
    BY <1>0, <1>1, <1>2, <1>4, <1>6 DEF TokensInv, OfStream
  <1> QED
    BY <1>3, <1>7

LEMMA ArrivalHealthy ==
    ASSUME WatchInv, WatchInv', TokensInv, HealthInv, TokenArrives
    PROVE  TokensInv' /\ HealthInv'
  <1>0. worker \in Seq(Task) /\ tokens \subseteq Nat /\ stream.closes \in Nat
    BY DEF WatchInv, AppType, NetType, StreamState
  <1>1. UNCHANGED <<stream, targets, tracker>>
    BY DEF TokenArrives
  <1>2. PICK c \in tokens : /\ tokens' = tokens \ {c}
                            /\ worker' = Append(worker, [kind |-> "token", closes |-> c])
    BY DEF TokenArrives
  <1>3. [kind |-> "token", closes |-> c] \in Task
    BY <1>0 DEF Task
  <1>4. \A k \in DOMAIN worker' :
           \/ k \in DOMAIN worker /\ worker'[k] = worker[k]
           \/ k = Len(worker) + 1 /\ worker'[k].closes = c
    BY <1>0, <1>2, <1>3, AppendTasks
  <1>5. TokensInv'
    BY <1>1, <1>2, <1>4 DEF TokensInv, OfStream
  <1> QED
    BY <1>1, <1>5 DEF HealthInv

LEMMA BrokenHealthy ==
    ASSUME WatchInv, WatchInv', TokensInv, HealthInv, WatchStreamBroken, WorkerMoves,
           UNCHANGED targets
    PROVE  TokensInv' /\ HealthInv'
  <1>0. stream \in StreamState /\ tracker \in Tracker /\ stream.closes \in Nat
    BY DEF WatchInv, NetType, StreamState
  <1>1. Reopened(stream) /\ RequestCredentials
    BY DEF WatchStreamBroken
  <1>2. PICK f \in StreamState : f = Fail(stream)
    BY <1>0, StreamTypes
  <1>3. f.state = "Error" /\ f.closes = stream.closes + 1 /\ ~f.idle
    BY <1>0, <1>2, StreamSteps
  <1>4. CASE targets # {}
    <2>1. /\ stream' = Start(f)
          /\ tracker' = HandleWatchStreamStart(HandleWatchStreamFailure(tracker))
      BY <1>1, <1>2, <1>4 DEF Reopened
    <2>2. stream'.closes = stream.closes + 1 /\ stream'.state = "Backoff" /\ ~stream'.idle
      BY <1>3, <2>1, StreamSteps
    <2>3. Restarted
      BY <1>0, <1>1, <2>2 DEF Restarted
    <2>4. PICK t \in Tracker : t = HandleWatchStreamFailure(tracker)
      BY <1>0, TrackerTypes
    <2>5. /\ t.timer => t.state = "Unknown" /\ t.failures = 0
          /\ t.state = "Online" => t.failures = 0
      BY <1>0, <2>4 DEF HandleWatchStreamFailure, Tracker, HealthInv
    <2>6. HealthInv'
      BY <2>1, <2>2, <2>4, <2>5 DEF HealthInv, HandleWatchStreamStart, Tracker, IsStarted
    <2> QED
      BY <2>3, <2>6, TokensKeep
  <1>5. CASE targets = {}
    <2>1. stream' = f /\ tracker' = UpdateState(tracker, "Unknown")
      BY <1>1, <1>2, <1>5 DEF Reopened
    <2>2. Restarted
      BY <1>0, <1>1, <1>3, <2>1 DEF Restarted
    <2>3. HealthInv'
      BY <1>3, <1>5, <2>1 DEF HealthInv, UpdateState
    <2> QED
      BY <2>2, <2>3, TokensKeep
  <1> QED
    BY <1>4, <1>5

LEMMA RestartHealthy ==
    ASSUME WatchInv, WatchInv', TokensInv, HealthInv, NetworkRestarts
    PROVE  TokensInv' /\ HealthInv'
  <1>0. stream \in StreamState /\ tracker \in Tracker /\ stream.closes \in Nat
    BY DEF WatchInv, NetType, StreamState
  <1>1. UNCHANGED <<worker, targets>> /\ RequestCredentials
    BY DEF NetworkRestarts, app
  <1>2. PICK p \in StreamState : p = Stop(stream)
    BY <1>0, StreamTypes
  <1>3. PICK s \in StreamState : s = InhibitBackoff(p)
    BY <1>2, StreamTypes
  <1>4. /\ ~p.idle
        /\ \/ p.closes = stream.closes + 1
           \/ p.closes = stream.closes /\ stream.state # "Starting"
    <2>1. CASE IsStarted(stream)
      BY <1>0, <1>2, <2>1, StreamSteps
    <2>2. CASE ~IsStarted(stream)
      BY <1>0, <1>2, <2>2, StreamSteps DEF HealthInv, IsStarted, IsOpen
    <2> QED
      BY <2>1, <2>2
  <1>5. s.state = "Initial" /\ s.closes = p.closes /\ ~s.idle
    BY <1>2, <1>3, <1>4, StreamSteps
  <1>6. PICK t \in Tracker : t = UpdateState(tracker, "Unknown")
    BY <1>0, TrackerTypes
  <1>7. t.state = "Unknown" /\ t.failures = 0 /\ ~t.timer
    BY <1>6 DEF UpdateState
  <1>8. CASE targets # {}
    <2>1. stream' = Start(s) /\ tracker' = HandleWatchStreamStart(t)
      BY <1>2, <1>3, <1>6, <1>8 DEF NetworkRestarts
    <2>2. stream'.state = "Starting" /\ stream'.closes = s.closes /\ ~stream'.idle
      BY <1>5, <2>1, StreamSteps
    <2>3. HealthInv'
      BY <1>7, <2>1, <2>2 DEF HealthInv, HandleWatchStreamStart, IsStarted
    <2>4. Restarted
      BY <1>0, <1>1, <1>4, <1>5, <2>2 DEF Restarted
    <2> QED
      BY <1>1, <2>3, <2>4, TokensKeep DEF WorkerMoves
  <1>9. CASE targets = {}
    <2>1. stream' = s /\ tracker' = t
      BY <1>2, <1>3, <1>6, <1>9 DEF NetworkRestarts
    <2>2. HealthInv'
      BY <1>1, <1>5, <1>7, <1>9, <2>1 DEF HealthInv
    <2>3. Restarted
      BY <1>0, <1>1, <1>4, <1>5, <2>1 DEF Restarted
    <2> QED
      BY <1>1, <2>2, <2>3, TokensKeep DEF WorkerMoves
  <1> QED
    BY <1>8, <1>9

LEMMA HealthStep ==
    ASSUME WatchInv, WatchInv', TokensInv, HealthInv, [Next]_vars
    PROVE  TokensInv' /\ HealthInv'
  <1>0. stream \in StreamState /\ tracker \in Tracker /\ worker \in Seq(Task)
    BY DEF WatchInv, NetType, AppType
  <1>1. CASE JoinListeners \/ DropToken
    <2>1. worker # << >> /\ worker' = Tail(worker) /\ UNCHANGED <<stream, tokens, targets, tracker>>
      BY <1>1 DEF JoinListeners, DropToken, NextTask
    <2> QED
      BY <2>1, TokensKeep DEF WorkerMoves, SameStream, HealthInv
  <1>2. CASE Reads
    <2>1. /\ UNCHANGED <<worker, stream, tokens>> /\ tracker' = UpdateState(tracker, "Online")
          /\ targets' \subseteq targets /\ IsOpen(stream)
      BY <1>2 DEF Reads, TargetAdded, TargetRemoved, TargetCurrent, DocumentChange,
         TargetRejected, Snapshot, Read, NextAnswer
    <2>2. HealthInv'
      BY <2>1 DEF HealthInv, UpdateState, IsOpen, IsStarted
    <2> QED
      BY <2>1, <2>2, TokensKeep DEF WorkerMoves, SameStream
  <1>3. CASE Serves \/ ServerChanges \/ UNCHANGED vars
    <2>1. UNCHANGED <<worker, stream, tokens, targets, tracker>>
      BY <1>3 DEF Serves, ServerWatches, ServerUnwatches, ServerSends, ServerChanges, vars
    <2> QED
      BY <2>1, TokensKeep DEF WorkerMoves, SameStream, HealthInv
  <1>4. CASE Get
    <2>1. UNCHANGED <<stream, tokens, targets, tracker>>
      BY <1>4 DEF Get
    <2>2. worker' = Append(worker, [kind |-> "listen", get |-> Len(asks) + 1])
      BY <1>4 DEF Get
    <2>3. [kind |-> "listen", get |-> Len(asks) + 1] \in Task
      BY <1>4, WatchAssumptions DEF Get, Task, Gets, WatchInv, AppType
    <2>4. WorkerMoves
      BY <2>2, <2>3 DEF WorkerMoves
    <2> QED
      BY <2>1, <2>4, TokensKeep DEF SameStream, HealthInv
  <1>5. CASE OnEvent
    <2>1. UNCHANGED <<stream, tokens, targets, tracker>>
      BY <1>5 DEF OnEvent
    <2>2. \/ worker' = worker
          \/ worker' = Append(worker, [kind |-> "remove", get |-> Head(main).get])
      BY <1>5 DEF OnEvent
    <2>3. [kind |-> "remove", get |-> Head(main).get] \in Task
      <3>1. Head(main) \in Answer
        BY <1>5 DEF OnEvent, WatchInv
      <3> QED
        BY <3>1 DEF Answer, Task
    <2>4. WorkerMoves
      BY <2>2, <2>3 DEF WorkerMoves
    <2> QED
      BY <2>1, <2>4, TokensKeep DEF SameStream, HealthInv
  <1>6. CASE BackoffTimer
    <2>1. /\ stream.state = "Backoff" /\ stream' = BackoffElapsed(stream) /\ RequestCredentials
          /\ UNCHANGED <<worker, targets, tracker>>
      BY <1>6 DEF BackoffTimer
    <2>2. stream'.state = "Starting" /\ stream'.closes = stream.closes /\ stream'.idle = stream.idle
      BY <1>0, <2>1, StreamSteps
    <2>3. HealthInv'
      BY <2>1, <2>2 DEF HealthInv, IsOpen, IsStarted
    <2> QED
      BY <2>1, <2>2, <2>3, TokensKeep DEF WorkerMoves, Restarted
  <1>7. CASE IdleTimer
    <2>1. /\ stream.idle /\ stream' = Stop(stream) /\ tracker' = UpdateState(tracker, "Unknown")
          /\ UNCHANGED <<worker, tokens, targets>>
      BY <1>7 DEF IdleTimer
    <2>2. IsStarted(stream) /\ targets = {}
      BY <2>1 DEF HealthInv, IsOpen, IsStarted
    <2>3. stream'.state = "Initial" /\ stream'.closes = stream.closes + 1 /\ ~stream'.idle
      BY <1>0, <2>1, <2>2, StreamSteps
    <2>4. HealthInv'
      BY <2>1, <2>2, <2>3 DEF HealthInv, UpdateState
    <2>5. Restarted
      BY <1>0, <2>1, <2>3 DEF Restarted, RequestCredentials, StreamState
    <2> QED
      BY <2>1, <2>4, <2>5, TokensKeep DEF WorkerMoves
  <1>8. CASE OnlineTimer
    <2>1. /\ tracker.timer /\ UNCHANGED <<worker, stream, tokens, targets>>
          /\ tracker'.state = "Offline" /\ ~tracker'.timer
      BY <1>8 DEF OnlineTimer
    <2> QED
      BY <2>1, TokensKeep DEF WorkerMoves, SameStream, HealthInv
  <1>9. CASE ConnectionLost
    BY <1>9, BrokenHealthy DEF ConnectionLost, WorkerMoves
  <1>10. CASE TokenFails
    BY <1>10, BrokenHealthy DEF TokenFails, WorkerMoves, NextTask
  <1> QED
    BY <1>1, <1>2, <1>3, <1>4, <1>5, <1>6, <1>7, <1>8, <1>9, <1>10, ListenHealthy,
       RemoveHealthy, OpenHealthy, ArrivalHealthy, RestartHealthy DEF Next, Tasks, Faults

LEMMA HealthAlways == Spec => [](WatchInv /\ TokensInv /\ HealthInv)
  <1>1. Init => WatchInv /\ TokensInv /\ HealthInv
    BY WatchInit, HealthInit
  <1>2. WatchInv /\ TokensInv /\ HealthInv /\ [Next]_vars
          => (WatchInv /\ TokensInv /\ HealthInv)'
    BY WatchStep, HealthStep
  <1> QED
    BY <1>1, <1>2, PTL DEF Spec

\* The assertions that end the process hold where they are reached, over errors,
\* restarts of the network and tokens that come too late.
THEOREM NoAssertionFails == Spec => []AssertionsHold
  <1>1. ASSUME WatchInv, TokensInv, HealthInv PROVE AssertionsHold
    <2>1. ASSUME NextTask("token"), IsCurrent(Head(worker)) PROVE stream.state = "Starting"
      <3>1. 1 \in DOMAIN worker /\ worker[1] = Head(worker) /\ worker[1].kind = "token"
        BY <2>1, <1>1 DEF NextTask, WatchInv, AppType
      <3> QED
        BY <1>1, <2>1, <3>1 DEF TokensInv, OfStream, IsCurrent
    <2> QED
      BY <1>1, <2>1 DEF HealthInv, AssertionsHold
  <1> QED
    BY <1>1, HealthAlways, PTL

(***************************************************************************)
(* The registries agree                                                    *)
(***************************************************************************)

SameQueries == views = {q \in Queries : listeners[q] # {}} /\ targets = views

\* A listener that was answered is removed by a task that waits.
RemovalDue(g) == \E k \in DOMAIN worker : worker[k] = [kind |-> "remove", get |-> g]

AnsweredWillGo == \A g \in Listening \cap muted : RemovalDue(g)

LEMMA SameQueriesKeep ==
    ASSUME WatchInv, SameQueries, [Next]_vars
    PROVE  SameQueries'
  <1>0. AppType /\ Known /\ DataType /\ listeners \in [Queries -> SUBSET Gotten]
    BY DEF WatchInv, AppType
  <1> DEFINE g == Head(worker).get
             q == asks[g]
  <1>1. CASE JoinListeners
    <2>1. /\ listeners' = Registered(g) /\ q \in views /\ UNCHANGED <<views, targets>>
      BY <1>1 DEF JoinListeners
    <2> QED
      BY <1>0, <2>1 DEF Registered, SameQueries
  <1>2. CASE Listen
    <2>1. listeners' = Registered(g) /\ views' = views \cup {q} /\ targets' = targets \cup {q}
      BY <1>2 DEF Listen, StartListening
    <2>2. q \in Queries
      BY <1>0, <1>2, TaskTypes DEF Listen
    <2> QED
      BY <1>0, <2>1, <2>2 DEF Registered, SameQueries
  <1>3. CASE RemoveListener
    <2>1. q \in Queries /\ listeners' = Unregistered(g)
      BY <1>0, <1>3, TaskTypes DEF RemoveListener
    <2>2. CASE listeners[q] # {} /\ listeners'[q] = {}
      <3>1. views' = views \ {q} /\ targets' = targets \ {q}
        BY <1>3, <2>2 DEF RemoveListener, StopListening
      <3> QED
        BY <1>0, <2>1, <2>2, <3>1 DEF Unregistered, SameQueries
    <2>3. CASE ~(listeners[q] # {} /\ listeners'[q] = {})
      <3>1. UNCHANGED <<views, targets>>
        BY <1>3, <2>3 DEF RemoveListener
      <3> QED
        BY <1>0, <2>1, <2>3, <3>1 DEF Unregistered, SameQueries
    <2> QED
      BY <2>2, <2>3
  <1>4. CASE TargetRejected
    <2> DEFINE r == Head(answers).query
    <2>1. CASE r \in targets
      <3>1. /\ listeners' = ListenersFailed(r) /\ views' = views \ {r}
            /\ targets' = targets \ {r}
        BY <1>4, <2>1 DEF TargetRejected
      <3> HIDE DEF r
      <3> QED
        BY <1>0, <2>1, <3>1 DEF ListenersFailed, SameQueries
    <2>2. CASE r \notin targets
      BY <1>4, <2>2 DEF TargetRejected, engine, SameQueries
    <2> QED
      BY <2>1, <2>2
  <1>5. CASE DropToken \/ OpenStream \/ Serves \/ TokenArrives \/ OnEvent \/ BackoffTimer
             \/ IdleTimer \/ OnlineTimer \/ Get \/ ServerChanges \/ Faults
             \/ TargetAdded \/ TargetRemoved \/ TargetCurrent \/ DocumentChange \/ Snapshot
             \/ UNCHANGED vars
    <2>1. UNCHANGED <<listeners, views, targets>>
      BY <1>5 DEF DropToken, OpenStream, Serves, ServerWatches, ServerUnwatches,
         ServerSends, TokenArrives, OnEvent, BackoffTimer, IdleTimer, OnlineTimer, Get,
         ServerChanges, Faults, ConnectionLost, TokenFails, NetworkRestarts, TargetAdded,
         TargetRemoved, TargetCurrent, DocumentChange, Snapshot, engine, vars
    <2> QED
      BY <2>1 DEF SameQueries
  <1> QED
    BY <1>1, <1>2, <1>3, <1>4, <1>5 DEF Next, Tasks, Reads

\* A task to remove a listener stays in the queue until its turn.
LEMMA RemovalStays ==
    ASSUME WatchInv, NEW g, RemovalDue(g),
           \/ worker' = worker
           \/ /\ worker # << >> /\ worker' = Tail(worker)
              /\ Head(worker) # [kind |-> "remove", get |-> g]
           \/ \E t \in Task : worker' = Append(worker, t)
    PROVE  RemovalDue(g)'
  <1>0. worker \in Seq(Task)
    BY DEF WatchInv, AppType
  <1>1. PICK k \in DOMAIN worker : worker[k] = [kind |-> "remove", get |-> g]
    BY DEF RemovalDue
  <1>2. CASE worker' = worker
    BY <1>1, <1>2 DEF RemovalDue
  <1>3. CASE /\ worker # << >> /\ worker' = Tail(worker)
             /\ Head(worker) # [kind |-> "remove", get |-> g]
    <2>1. k # 1
      BY <1>0, <1>1, <1>3
    <2>2. k - 1 \in DOMAIN worker' /\ worker'[k - 1] = worker[k]
      BY <1>0, <1>3, <2>1
    <2> QED
      BY <1>1, <2>2 DEF RemovalDue
  <1>4. ASSUME NEW t \in Task, worker' = Append(worker, t) PROVE RemovalDue(g)'
    <2>1. k \in DOMAIN worker' /\ worker'[k] = worker[k]
      BY <1>0, <1>4
    <2> QED
      BY <1>1, <2>1 DEF RemovalDue
  <1> QED
    BY <1>2, <1>3, <1>4

LEMMA WillGoKeeps ==
    ASSUME WatchInv, DataType', OnceInv, AnsweredWillGo, [Next]_vars
    PROVE  AnsweredWillGo'
  <1>0. AppType /\ Known /\ worker \in Seq(Task) /\ listeners \in [Queries -> SUBSET Gotten]
    BY DEF WatchInv, AppType
  <1>1. CASE AnswerSome
    <2>1. UNCHANGED <<Listening, muted>>
      BY <1>1 DEF AnswerSome, Listening
    <2>2. ASSUME NEW g, RemovalDue(g) PROVE RemovalDue(g)'
      <3>1. CASE worker' = worker
        BY <2>2, <3>1, RemovalStays
      <3>2. CASE NextTask("token") /\ worker' = Tail(worker)
        <4>1. worker # << >> /\ Head(worker) # [kind |-> "remove", get |-> g]
          BY <3>2 DEF NextTask
        <4> QED
          BY <2>2, <3>2, <4>1, RemovalStays
      <3>3. ASSUME NEW c \in Nat, worker' = Append(worker, [kind |-> "token", closes |-> c])
            PROVE  RemovalDue(g)'
        <4>1. [kind |-> "token", closes |-> c] \in Task
          BY DEF Task
        <4> QED
          BY <2>2, <3>3, <4>1, RemovalStays
      <3> QED
        BY <1>1, <3>1, <3>2, <3>3 DEF AnswerSome, TokenTasks
    <2> QED
      BY <2>1, <2>2 DEF AnsweredWillGo
  <1>2. CASE ListenTask
    <2> DEFINE h == Head(worker).get
    <2>1. /\ worker # << >> /\ worker' = Tail(worker) /\ UNCHANGED muted
          /\ Head(worker).kind = "listen" /\ listeners' = Registered(h)
      BY <1>2 DEF ListenTask, NextTask
    <2>2. h \notin muted
      <3>1. 1 \in DOMAIN worker /\ worker[1] = Head(worker)
        BY <1>0, <2>1
      <3> QED
        BY <2>1, <3>1 DEF OnceInv, ListensFirst, Untouched
    <2> HIDE DEF h
    <2>3. \A g \in Listening' : g \in Listening \/ g = h
      BY <1>0, <2>1 DEF Registered, Listening
    <2>4. \A g : Head(worker) # [kind |-> "remove", get |-> g]
      BY <2>1
    <2> QED
      BY <2>1, <2>2, <2>3, <2>4, RemovalStays DEF AnsweredWillGo
  <1>3. CASE RemoveTask
    <2> DEFINE h == Head(worker).get
    <2>1. /\ worker # << >> /\ worker' = Tail(worker) /\ UNCHANGED muted
          /\ listeners' = Unregistered(h)
      BY <1>3 DEF RemoveTask, NextTask
    <2>2. \A g : g # h => Head(worker) # [kind |-> "remove", get |-> g]
      OBVIOUS
    <2> HIDE DEF h
    <2>3. \A g \in Listening' : g \in Listening /\ g # h
      <3> SUFFICES ASSUME NEW g \in Listening' PROVE g \in Listening /\ g # h
        OBVIOUS
      <3>1. PICK r \in Queries : g \in listeners'[r]
        BY DEF Listening
      <3>2. g \in listeners[r] /\ (r = asks[h] => g # h)
        BY <1>0, <2>1, <3>1 DEF Unregistered
      <3>3. asks[g] = r
        BY <1>0, <3>2 DEF Known
      <3> QED
        BY <3>2, <3>3 DEF Listening
    <2> QED
      BY <2>1, <2>2, <2>3, RemovalStays DEF AnsweredWillGo
  <1>4. CASE RejectSome
    <2>1. UNCHANGED <<muted, worker>> /\ Listening' \subseteq Listening
      BY <1>0, <1>4 DEF RejectSome, ListenersFailed, Listening
    <2> QED
      BY <2>1 DEF AnsweredWillGo, RemovalDue
  <1>5. CASE Get
    <2>1. UNCHANGED <<muted, Listening>>
      BY <1>5 DEF Get, engine, Listening
    <2>2. worker' = Append(worker, [kind |-> "listen", get |-> Len(asks) + 1])
      BY <1>5 DEF Get
    <2>3. [kind |-> "listen", get |-> Len(asks) + 1] \in Task
      BY <1>0, <1>5, WatchAssumptions DEF Get, Task, Gets, AppType
    <2> QED
      BY <2>1, <2>2, <2>3, RemovalStays DEF AnsweredWillGo
  <1>6. CASE OnEvent
    <2>0. PICK h : h = Head(main).get
      OBVIOUS
    <2>1. UNCHANGED Listening
      BY <1>6 DEF OnEvent, engine, Listening
    <2>2. [kind |-> "remove", get |-> h] \in Task
      <3>1. Head(main) \in Answer
        BY <1>6 DEF OnEvent, WatchInv
      <3> QED
        BY <2>0, <3>1 DEF Answer, Task
    <2>3. \/ UNCHANGED <<muted, worker>>
          \/ /\ muted' \in {muted, muted \cup {h}}
             /\ \/ worker' = Append(worker, [kind |-> "remove", get |-> h])
                \/ worker' = worker /\ (h \notin Listening \/ muted' = muted)
      BY <1>6, <2>0 DEF OnEvent, Muted
    <2>4. CASE UNCHANGED <<muted, worker>>
      BY <2>1, <2>4 DEF AnsweredWillGo, RemovalDue
    <2>5. CASE worker' = Append(worker, [kind |-> "remove", get |-> h])
               /\ muted' \in {muted, muted \cup {h}}
      <3>1. RemovalDue(h)'
        <4>1. /\ Len(worker) + 1 \in DOMAIN worker'
              /\ worker'[Len(worker) + 1] = [kind |-> "remove", get |-> h]
          BY <1>0, <2>2, <2>5
        <4> QED
          BY <4>1 DEF RemovalDue
      <3> QED
        BY <2>1, <2>2, <2>5, <3>1, RemovalStays DEF AnsweredWillGo
    <2>6. CASE worker' = worker /\ (h \notin Listening \/ muted' = muted)
               /\ muted' \in {muted, muted \cup {h}}
      BY <2>1, <2>6 DEF AnsweredWillGo, RemovalDue
    <2> QED
      BY <2>3, <2>4, <2>5, <2>6
  <1>7. CASE UNCHANGED vars
    BY <1>7 DEF vars, app, engine, AnsweredWillGo, RemovalDue, Listening
  <1> QED
    BY <1>1, <1>2, <1>3, <1>4, <1>5, <1>6, <1>7, ReadsStep

\* Whatever was rejected, removed and joined, the three registries name the same
\* queries, there is a stream for them, and answered listeners are about to go.
THEOREM RegistriesHold == Spec => []RegistriesAgree
  <1>1. Init => SameQueries /\ AnsweredWillGo
    BY DEF Init, SameQueries, AnsweredWillGo, Listening
  <1>2. /\ WatchInv /\ WatchInv' /\ OnceInv /\ SameQueries /\ AnsweredWillGo /\ [Next]_vars
        => (SameQueries /\ AnsweredWillGo)'
    <2>1. WatchInv' => DataType'
      BY DEF WatchInv
    <2> QED
      BY <2>1, SameQueriesKeep, WillGoKeeps
  <1>3. ASSUME SameQueries, AnsweredWillGo, HealthInv PROVE RegistriesAgree
    <2>1. \A g \in Listening \cap muted : [kind |-> "remove", get |-> g] \in ToSet(worker)
      BY <1>3 DEF AnsweredWillGo, RemovalDue, ToSet
    <2> QED
      BY <1>3, <2>1 DEF RegistriesAgree, SameQueries, HealthInv
  <1>4. Spec => [](WatchInv /\ OnceInv /\ SameQueries /\ AnsweredWillGo)
    <2>1. Init => WatchInv /\ OnceInv /\ SameQueries /\ AnsweredWillGo
      BY <1>1, WatchInit, OnceInit
    <2>2. WatchInv /\ OnceInv /\ SameQueries /\ AnsweredWillGo /\ [Next]_vars
              => (WatchInv /\ OnceInv /\ SameQueries /\ AnsweredWillGo)'
      BY <1>2, WatchStep, OnceStep
    <2> QED
      BY <2>1, <2>2, PTL DEF Spec
  <1> QED
    BY <1>3, <1>4, HealthAlways, PTL

(***************************************************************************)
(* What is on the stream about a query                                     *)
(***************************************************************************)

\* Of a finite sequence, only so much is about a query.
LEMMA AboutFinite ==
    ASSUME NEW T, NEW s \in Seq(T), NEW q, NEW kinds
    PROVE  /\ IsFiniteSet(About(q, s, kinds))
           /\ Cardinality(About(q, s, kinds)) \in Nat
           /\ About(q, s, kinds) = {} <=> Cardinality(About(q, s, kinds)) = 0
  <1>1. Len(s) \in Nat /\ About(q, s, kinds) \subseteq 1 .. Len(s)
    BY DEF About
  <1>2. IsFiniteSet(1 .. Len(s))
    BY <1>1, FS_Interval
  <1>3. IsFiniteSet(About(q, s, kinds))
    BY <1>1, <1>2, FS_Subset
  <1> QED
    BY <1>3, FS_CardinalityType, FS_EmptySet

LEMMA AboutNothing ==
    ASSUME NEW q, NEW kinds
    PROVE  /\ About(q, << >>, kinds) = {}
           /\ Cardinality(About(q, << >>, kinds)) = 0
  <1>1. About(q, << >>, kinds) = {}
    BY DEF About
  <1> QED
    BY <1>1, FS_EmptySet

\* What was there stays where it is when something is put at the end.
LEMMA AppendKeeps ==
    ASSUME NEW T, NEW s \in Seq(T), NEW m \in T
    PROVE  /\ Append(s, m) \in Seq(T)
           /\ Len(s) \in Nat /\ Len(s) + 1 \notin DOMAIN s /\ DOMAIN s = 1 .. Len(s)
           /\ Len(Append(s, m)) = Len(s) + 1
           /\ DOMAIN Append(s, m) = DOMAIN s \cup {Len(s) + 1}
           /\ Append(s, m)[Len(s) + 1] = m
           /\ \A i \in DOMAIN s : Append(s, m)[i] = s[i]
  <1>1. /\ Append(s, m) \in Seq(T) /\ Len(Append(s, m)) = Len(s) + 1 /\ Len(s) \in Nat
        /\ DOMAIN s = 1 .. Len(s) /\ DOMAIN Append(s, m) = 1 .. Len(Append(s, m))
    OBVIOUS
  <1>2. Append(s, m)[Len(s) + 1] = m /\ \A i \in DOMAIN s : Append(s, m)[i] = s[i]
    OBVIOUS
  <1>3. 1 .. (Len(s) + 1) = (1 .. Len(s)) \cup {Len(s) + 1} /\ Len(s) + 1 \notin 1 .. Len(s)
    BY <1>1
  <1> QED
    BY <1>1, <1>2, <1>3

\* A message that is put at the end is one more about its query.
LEMMA AboutMore ==
    ASSUME NEW T, NEW s \in Seq(T), NEW m \in T, NEW kinds, m.kind \in kinds
    PROVE  /\ \A i : i \in About(m.query, Append(s, m), kinds)
                        <=> i \in About(m.query, s, kinds) \/ i = Len(s) + 1
           /\ Cardinality(About(m.query, Append(s, m), kinds))
                 = Cardinality(About(m.query, s, kinds)) + 1
  <1> DEFINE t == Append(s, m)
             n == Len(s) + 1
             A == About(m.query, s, kinds)
  <1>1. /\ n \notin DOMAIN s /\ DOMAIN t = DOMAIN s \cup {n}
        /\ t[n] = m /\ \A i \in DOMAIN s : t[i] = s[i]
    BY AppendKeeps
  <1>2. IsFiniteSet(A)
    BY AboutFinite
  <1> HIDE DEF t, n
  <1>3. About(m.query, t, kinds) = A \cup {n} /\ n \notin A
    BY <1>1 DEF About
  <1> HIDE DEF A
  <1>4. Cardinality(A \cup {n}) = Cardinality(A) + 1
    BY <1>2, <1>3, FS_AddElement
  <1> QED
    BY <1>3, <1>4 DEF A, t, n

\* ... and changes nothing about another.
LEMMA AboutOther ==
    ASSUME NEW T, NEW s \in Seq(T), NEW m \in T, NEW q, NEW kinds,
           ~(m.kind \in kinds /\ m.query = q)
    PROVE  About(q, Append(s, m), kinds) = About(q, s, kinds)
  <1>1. /\ DOMAIN Append(s, m) = DOMAIN s \cup {Len(s) + 1}
        /\ Append(s, m)[Len(s) + 1] = m
        /\ \A i \in DOMAIN s : Append(s, m)[i] = s[i]
    BY AppendKeeps
  <1> QED
    BY <1>1 DEF About

\* When the head is taken the others move up by one.
LEMMA TailMoves ==
    ASSUME NEW T, NEW s \in Seq(T), s # << >>
    PROVE  /\ Tail(s) \in Seq(T) /\ Head(s) \in T
           /\ DOMAIN Tail(s) = {i \in Nat : i # 0 /\ i + 1 \in DOMAIN s}
           /\ \A i \in DOMAIN Tail(s) : Tail(s)[i] = s[i + 1]
           /\ 1 \in DOMAIN s /\ s[1] = Head(s) /\ DOMAIN s \subseteq Nat \ {0}
  <1> DEFINE t == Tail(s)
  <1>1. Len(t) = Len(s) - 1 /\ Len(s) \in Nat /\ Len(s) # 0
    OBVIOUS
  <1>2. DOMAIN s = 1 .. Len(s) /\ DOMAIN t = 1 .. Len(t)
    OBVIOUS
  <1>3. \A i \in DOMAIN t : t[i] = s[i + 1]
    OBVIOUS
  <1>4. t \in Seq(T) /\ s[1] = Head(s) /\ Head(s) \in T
    OBVIOUS
  <1> HIDE DEF t
  <1>5. DOMAIN t = {i \in Nat : i # 0 /\ i + 1 \in DOMAIN s}
    BY <1>1, <1>2
  <1> QED
    BY <1>1, <1>2, <1>3, <1>4, <1>5 DEF t

\* What is about a query moves up with the rest.
LEMMA AboutTail ==
    ASSUME NEW T, NEW s \in Seq(T), s # << >>, NEW q, NEW kinds
    PROVE  /\ \A i \in Nat : i \in About(q, Tail(s), kinds)
                                <=> i # 0 /\ i + 1 \in About(q, s, kinds)
           /\ Head(s).kind \in kinds /\ Head(s).query = q =>
                Cardinality(About(q, Tail(s), kinds))
                   = Cardinality(About(q, s, kinds)) - 1
           /\ ~(Head(s).kind \in kinds /\ Head(s).query = q) =>
                Cardinality(About(q, Tail(s), kinds)) = Cardinality(About(q, s, kinds))
  <1> DEFINE t == Tail(s)
             A == About(q, s, kinds)
             B == About(q, t, kinds)
             f == [i \in B |-> i + 1]
  <1>1. /\ t \in Seq(T) /\ DOMAIN t = {i \in Nat : i # 0 /\ i + 1 \in DOMAIN s}
        /\ \A i \in DOMAIN t : t[i] = s[i + 1]
        /\ 1 \in DOMAIN s /\ s[1] = Head(s) /\ DOMAIN s \subseteq Nat \ {0}
    BY TailMoves
  <1> HIDE DEF t
  <1>2. \A i \in Nat : i \in B <=> i # 0 /\ i + 1 \in A
    BY <1>1 DEF About
  <1>3. /\ IsFiniteSet(A) /\ IsFiniteSet(B) /\ Cardinality(A) \in Nat
        /\ Cardinality(B) \in Nat
    BY <1>1, AboutFinite
  <1>4. A \subseteq Nat \ {0} /\ B \subseteq Nat \ {0}
    BY <1>1 DEF About
  <1>5. 1 \in A <=> Head(s).kind \in kinds /\ Head(s).query = q
    BY <1>1 DEF About
  <1> HIDE DEF A, B
  <1>6. ExistsBijection(B, A \ {1})
    <2>1. f \in [B -> A \ {1}]
      BY <1>2, <1>4
    <2>2. \A i, j \in B : f[i] = f[j] => i = j
      BY <1>4
    <2>3. \A k \in A \ {1} : \E i \in B : f[i] = k
      <3> SUFFICES ASSUME NEW k \in A \ {1} PROVE \E i \in B : f[i] = k
        OBVIOUS
      <3>1. k - 1 \in Nat /\ k - 1 # 0 /\ (k - 1) + 1 = k
        BY <1>4
      <3>2. k - 1 \in B
        BY <1>2, <3>1
      <3> QED
        BY <3>1, <3>2
    <2> HIDE DEF f
    <2> QED
      BY <2>1, <2>2, <2>3 DEF ExistsBijection, Bijection, Injection, Surjection,
         IsInjective
  <1>7. Cardinality(B) = Cardinality(A \ {1})
    BY <1>3, <1>6, FS_Bijection
  <1>8. Cardinality(A \ {1}) = IF 1 \in A THEN Cardinality(A) - 1 ELSE Cardinality(A)
    BY <1>3, FS_RemoveElement
  <1> QED
    BY <1>2, <1>5, <1>7, <1>8 DEF A, B, t

LEMMA AboutLess ==
    ASSUME NEW T, NEW s \in Seq(T), s # << >>, NEW kinds, Head(s).kind \in kinds
    PROVE  Cardinality(About(Head(s).query, Tail(s), kinds))
              = Cardinality(About(Head(s).query, s, kinds)) - 1
  BY AboutTail

LEMMA AboutSame ==
    ASSUME NEW T, NEW s \in Seq(T), s # << >>, NEW q, NEW kinds,
           ~(Head(s).kind \in kinds /\ Head(s).query = q)
    PROVE  Cardinality(About(q, Tail(s), kinds)) = Cardinality(About(q, s, kinds))
  BY AboutTail

(***************************************************************************)
(* What a step does to the stream and to what is on it                     *)
(***************************************************************************)

\* Nothing on its way, nothing served, nothing known.
Bare ==
    /\ sent = << >> /\ answers = << >> /\ DOMAIN serving = {}
    /\ DOMAIN states = {} /\ DOMAIN docs = {}

BareWhenDown == IsOpen(stream) \/ Bare

StreamKept ==
    /\ UNCHANGED <<targets, states, docs, sent, answers, serving>>
    /\ IsOpen(stream') <=> IsOpen(stream)

StreamDown == ~IsOpen(stream') /\ Bare'

\* The client begins to listen to q, or ends it.
Asks(q) ==
    /\ IsOpen(stream) /\ IsOpen(stream')
    /\ states' = Owing(q)
    /\ \/ sent' = Append(sent, Watch(q)) /\ targets' = targets \cup {q}
       \/ sent' = Append(sent, Unwatch(q)) /\ targets' = targets \ {q}
    /\ UNCHANGED <<docs, answers, serving>>

\* What was on the stream is forgotten with it.
LEMMA GoneIsBare ==
    ASSUME StreamGone, ~IsOpen(stream')
    PROVE  StreamDown
  <1>1. DOMAIN serving' = {} /\ DOMAIN states' = {} /\ DOMAIN docs' = {}
    BY DEF StreamGone
  <1> QED
    BY <1>1 DEF StreamGone, StreamDown, Bare

LEMMA ListenOnStream ==
    ASSUME WatchInv, BareWhenDown, Listen
    PROVE  Asks(asks[Head(worker).get]) \/ StreamDown
  <1> DEFINE q == asks[Head(worker).get]
  <1>0. stream \in StreamState
    BY DEF WatchInv, NetType
  <1>1. StartListening(q) /\ UNCHANGED <<answers, serving>>
    BY DEF Listen
  <1> HIDE DEF q
  <1>2. CASE IsOpen(stream)
    <2>1. /\ states' = Owing(q) /\ sent' = Append(sent, Watch(q)) /\ UNCHANGED docs
          /\ stream' = WriteTo(stream) /\ targets' = targets \cup {q}
      BY <1>1, <1>2 DEF StartListening, SendWatchRequest, IsOpen, IsStarted
    <2>2. IsOpen(stream')
      BY <1>0, <1>2, <2>1, StreamSteps DEF IsOpen
    <2> QED
      BY <1>1, <1>2, <2>1, <2>2 DEF Asks, q
  <1>3. CASE ~IsOpen(stream)
    <2>1. Bare
      BY <1>3 DEF BareWhenDown
    <2>2. /\ stream' = stream \/ stream' = Start(stream)
          /\ states' = states \/ DOMAIN states' = {}
          /\ docs' = docs \/ DOMAIN docs' = {}
          /\ UNCHANGED sent
      BY <1>1, <1>3 DEF StartListening
    <2>3. ~IsOpen(stream')
      BY <1>0, <1>3, <2>2, StreamSteps DEF IsOpen
    <2> QED
      BY <1>1, <2>1, <2>2, <2>3 DEF StreamDown, Bare
  <1> QED
    BY <1>2, <1>3

LEMMA RemoveOnStream ==
    ASSUME WatchInv, BareWhenDown, RemoveListener
    PROVE  Asks(asks[Head(worker).get]) \/ StreamDown \/ StreamKept
  <1> DEFINE q == asks[Head(worker).get]
  <1>0. stream \in StreamState
    BY DEF WatchInv, NetType
  <1>1. /\ StopListening(q) \/ UNCHANGED <<targets, stream, states, sent>>
        /\ UNCHANGED <<docs, answers, serving>>
    BY DEF RemoveListener
  <1> HIDE DEF q
  <1>2. CASE UNCHANGED <<targets, stream, states, sent>>
    BY <1>1, <1>2 DEF StreamKept
  <1>3. CASE StopListening(q) /\ IsOpen(stream)
    <2>1. /\ states' = Owing(q) /\ sent' = Append(sent, Unwatch(q))
          /\ targets' = targets \ {q}
          /\ stream' = WriteTo(stream) \/ stream' = MarkIdle(WriteTo(stream))
      BY <1>3 DEF StopListening, SendUnwatchRequest
    <2>2. WriteTo(stream) \in StreamState
      BY <1>0, StreamTypes
    <2>3. IsOpen(stream')
      BY <1>0, <1>3, <2>1, <2>2, StreamSteps DEF IsOpen
    <2> QED
      BY <1>1, <1>3, <2>1, <2>3 DEF Asks, q
  <1>4. CASE StopListening(q) /\ ~IsOpen(stream)
    <2>1. Bare /\ UNCHANGED <<states, sent, stream>>
      BY <1>4 DEF StopListening, BareWhenDown
    <2> QED
      BY <1>1, <1>4, <2>1 DEF StreamDown, Bare
  <1> QED
    BY <1>1, <1>2, <1>3, <1>4

\* Every step opens the stream, reads from it or serves it, asks for a query, loses
\* everything with the stream, or leaves the stream alone.
LEMMA StreamWays ==
    ASSUME WatchInv, BareWhenDown, [Next]_vars
    PROVE  \/ OpenStream \/ Reads \/ Serves \/ StreamDown \/ StreamKept
           \/ \E q \in Queries : Asks(q)
  <1>0. AppType /\ Known /\ stream \in StreamState
    BY DEF WatchInv, NetType
  <1>1. CASE Listen
    <2>1. asks[Head(worker).get] \in Queries
      BY <1>0, <1>1, TaskTypes DEF Listen
    <2> QED
      BY <1>1, <2>1, ListenOnStream
  <1>2. CASE RemoveListener
    <2>1. asks[Head(worker).get] \in Queries
      BY <1>0, <1>2, TaskTypes DEF RemoveListener
    <2> QED
      BY <1>2, <2>1, RemoveOnStream
  <1>3. CASE JoinListeners \/ DropToken \/ TokenArrives \/ OnEvent \/ OnlineTimer \/ Get
             \/ ServerChanges \/ UNCHANGED vars
    BY <1>3 DEF JoinListeners, DropToken, TokenArrives, OnEvent, OnlineTimer, Get,
       ServerChanges, vars, network, StreamKept
  <1>4. CASE BackoffTimer
    <2>1. /\ UNCHANGED <<targets, states, docs, sent, answers, serving>>
          /\ stream.state = "Backoff" /\ stream' = BackoffElapsed(stream)
      BY <1>4 DEF BackoffTimer, network
    <2>2. ~IsOpen(stream) /\ ~IsOpen(stream')
      BY <1>0, <2>1, StreamSteps DEF IsOpen
    <2> QED
      BY <2>1, <2>2 DEF StreamKept
  <1>5. CASE IdleTimer
    <2>1. StreamGone /\ stream' = Stop(stream)
      BY <1>5 DEF IdleTimer
    <2>2. ~IsOpen(stream')
      BY <1>0, <2>1, StreamSteps DEF IsOpen, IsStarted
    <2> QED
      BY <2>1, <2>2, GoneIsBare
  <1>6. CASE ConnectionLost \/ TokenFails
    <2>1. StreamGone /\ Reopened(stream)
      BY <1>6 DEF ConnectionLost, TokenFails, WatchStreamBroken
    <2>2. PICK f \in StreamState : f = Fail(stream) /\ f.state = "Error"
      BY <1>0, StreamTypes, StreamSteps
    <2>3. stream' = f \/ stream' = Start(f)
      BY <2>1, <2>2 DEF Reopened
    <2>4. ~IsOpen(stream')
      BY <2>2, <2>3, StreamSteps DEF IsOpen
    <2> QED
      BY <2>1, <2>4, GoneIsBare
  <1>7. CASE NetworkRestarts
    <2>1. Stop(stream) \in StreamState
      BY <1>0, StreamTypes
    <2>2. PICK s \in StreamState : s = InhibitBackoff(Stop(stream)) /\ s.state = "Initial"
      BY <2>1, StreamTypes, StreamSteps
    <2>3. StreamGone /\ (stream' = s \/ stream' = Start(s))
      BY <1>7, <2>2 DEF NetworkRestarts
    <2>4. ~IsOpen(stream')
      BY <2>2, <2>3, StreamSteps DEF IsOpen
    <2> QED
      BY <2>3, <2>4, GoneIsBare
  <1> QED
    BY <1>1, <1>2, <1>3, <1>4, <1>5, <1>6, <1>7 DEF Next, Tasks, Faults

\* When the stream opens every target is asked for once, and owes one answer.
LEMMA OpenAsks ==
    ASSUME WatchInv, BareWhenDown, AssertionsHold, OpenStream
    PROVE  /\ Bare /\ IsOpen(stream') /\ UNCHANGED <<targets, docs, answers, serving>>
           /\ states' = [q \in targets |-> [NewTarget EXCEPT !.owed = 1]]
           /\ \A i \in DOMAIN sent' : \E r \in targets : sent'[i] = Watch(r)
           /\ \A i, j \in DOMAIN sent' : sent'[i] = sent'[j] => i = j
           /\ \A q \in targets : \E i \in DOMAIN sent' : sent'[i] = Watch(q)
  <1> DEFINE T == {Watch(q) : q \in targets}
  <1>1. /\ stream' = OnStreamStart(stream) /\ UNCHANGED <<targets, docs, answers, serving>>
        /\ states' = [q \in targets |-> [NewTarget EXCEPT !.owed = 1]]
        /\ sent' \in SetToSeqs(T) /\ stream.state = "Starting"
    BY DEF OpenStream, AssertionsHold
  <1>2. Bare /\ IsOpen(stream')
    <2>1. stream \in StreamState
      BY DEF WatchInv, NetType
    <2> QED
      BY <1>1, <2>1, StreamSteps DEF BareWhenDown, IsOpen
  <1>3. IsFiniteSet(T)
    <2> DEFINE f == [q \in targets |-> Watch(q)]
    <2>1. IsFiniteSet(targets)
      BY WatchAssumptions, FS_Subset DEF WatchInv, DataType
    <2>2. f \in [targets -> T] /\ \A w \in T : \E q \in targets : f[q] = w
      OBVIOUS
    <2>3. f \in Surjection(targets, T)
      BY <2>2 DEF Surjection
    <2> HIDE DEF f, T
    <2> QED
      BY <2>1, <2>3, FS_Surjection
  <1>4. \A w \in T : \E q \in targets : w = Watch(q)
    OBVIOUS
  <1>5. \A q \in targets : Watch(q) \in T
    OBVIOUS
  <1> HIDE DEF T
  <1>6. PICK n \in Nat : n = Cardinality(T)
    BY <1>3, FS_CardinalityType
  <1>7. PICK o \in [1 .. n -> T] : o = sent' /\ \A i, j \in 1 .. n : i # j => o[i] # o[j]
    BY <1>1, <1>6 DEF SetToSeqs
  <1>8. \A w \in T : \E i \in 1 .. n : o[i] = w
    <2>1. o \in Injection(1 .. n, T)
      BY <1>7 DEF Injection, IsInjective
    <2>2. Cardinality(1 .. n) = Cardinality(T)
      BY <1>6, FS_Interval
    <2>3. o \in Surjection(1 .. n, T)
      BY <1>3, <2>1, <2>2, FS_Injection
    <2> QED
      BY <2>3 DEF Surjection
  <1> QED
    BY <1>1, <1>2, <1>4, <1>5, <1>7, <1>8

(***************************************************************************)
(* What is owed is on its way                                              *)
(***************************************************************************)

\* Requests about q that the server has not looked at, and its answers to others.
Asked(q)   == About(q, sent, {"watch", "unwatch"})
Settled(q) == About(q, answers, {"added", "removed"})

Owes(q) == State(q).owed = Cardinality(Asked(q)) + Cardinality(Settled(q))

\* The last request about q says what the client wants; without one, the server
\* does what it wants.
Agrees(q) ==
    /\ Asked(q) = {} => (q \in targets <=> q \in DOMAIN serving)
    /\ \A i \in Asked(q) : (\A j \in Asked(q) : j <= i) =>
          (q \in targets <=> sent[i].kind = "watch")

\* What the server rejects is waited for only until the rejection is read.
Awaits(q) ==
    q \in targets => About(q, sent, {"watch"}) # {} \/ About(q, answers, {"rejected"}) # {}

\* The server rejects just what is forbidden.
Decided(m) ==
    /\ m.kind = "rejected" => m.query \in Forbidden
    /\ m.kind \in {"added", "document", "current"} => m.query \notin Forbidden

DecidedInv ==
    /\ \A i \in DOMAIN answers : Decided(answers[i])
    /\ \A q \in DOMAIN serving : q \notin Forbidden

StreamInv ==
    /\ BareWhenDown /\ DecidedInv
    /\ IsOpen(stream) => /\ \A q \in Queries \ Forbidden : Owes(q) /\ Agrees(q)
                         /\ \A q \in Forbidden : Awaits(q)

DocumentOf(q, v) == [kind |-> "document", query |-> q, version |-> v]
CurrentOf(q)     == [kind |-> "current", query |-> q]
SnapshotMark     == [kind |-> "snapshot"]

\* Answers are put at the end, one by one.
LEMMA SendsWays ==
    ASSUME WatchInv, ServerSends
    PROVE  \E q \in DOMAIN serving :
              /\ serving[q] < version[q] /\ serving' = [serving EXCEPT ![q] = version[q]]
              /\ DocumentOf(q, version[q]) \in Message /\ CurrentOf(q) \in Message
              /\ SnapshotMark \in Message
              /\ \/ answers' = Append(Append(answers, DocumentOf(q, version[q])),
                                      SnapshotMark)
                 \/ answers' = Append(Append(Append(answers, DocumentOf(q, version[q])),
                                             CurrentOf(q)), SnapshotMark)
              /\ serving[q] = 0 =>
                    answers' = Append(Append(Append(answers, DocumentOf(q, version[q])),
                                             CurrentOf(q)), SnapshotMark)
  <1>1. PICK q \in DOMAIN serving :
           /\ serving[q] < version[q]
           /\ serving' = [serving EXCEPT ![q] = version[q]]
           /\ answers' = answers
                 \o << [kind |-> "document", query |-> q, version |-> version[q]] >>
                 \o (IF serving[q] = 0 THEN << [kind |-> "current", query |-> q] >>
                     ELSE << >>)
                 \o << [kind |-> "snapshot"] >>
    BY DEF ServerSends
  <1>2. q \in Queries /\ version[q] \in Versions /\ answers \in Seq(Message)
    BY DEF WatchInv, DataType
  <1>3. PICK d \in Message, c \in Message, z \in Message :
           d = DocumentOf(q, version[q]) /\ c = CurrentOf(q) /\ z = SnapshotMark
    BY <1>2 DEF Message, DocumentOf, CurrentOf, SnapshotMark
  <1>4. /\ \/ answers' = answers \o << d >> \o << >> \o << z >>
           \/ answers' = answers \o << d >> \o << c >> \o << z >>
        /\ serving[q] = 0 => answers' = answers \o << d >> \o << c >> \o << z >>
    BY <1>1, <1>3 DEF DocumentOf, CurrentOf, SnapshotMark
  <1>5. PICK a \in Seq(Message) : a = answers
    BY <1>2
  <1>6. \A t \in Seq(Message), m \in Message :
           Append(t, m) \in Seq(Message) /\ t \o << m >> = Append(t, m) /\ t \o << >> = t
    OBVIOUS
  <1>7. /\ a \o << d >> \o << >> \o << z >> = Append(Append(a, d), z)
        /\ a \o << d >> \o << c >> \o << z >> = Append(Append(Append(a, d), c), z)
    <2>1. PICK b \in Seq(Message) : b = Append(a, d) /\ a \o << d >> = b
      BY <1>6
    <2>2. b \o << >> = b /\ b \o << z >> = Append(b, z)
      BY <1>6
    <2>3. PICK e \in Seq(Message) : e = Append(b, c) /\ b \o << c >> = e
      BY <1>6
    <2>4. e \o << z >> = Append(e, z)
      BY <1>6
    <2> QED
      BY <2>1, <2>2, <2>3, <2>4
  <1> QED
    BY <1>1, <1>3, <1>4, <1>5, <1>7

\* Of the server's steps, each takes a request or puts answers at the end.
LEMMA ServesWays ==
    ASSUME WatchInv, Serves
    PROVE  UNCHANGED <<targets, states, docs, stream>>
  BY DEF Serves, ServerWatches, ServerUnwatches, ServerSends

LEMMA HeadRequest ==
    ASSUME WatchInv, sent # << >>
    PROVE  /\ sent \in Seq(Request) /\ Head(sent) \in Request
           /\ Head(sent).query \in Queries /\ Head(sent).kind \in {"watch", "unwatch"}
  <1>1. sent \in Seq(Request)
    BY DEF WatchInv, NetType
  <1>2. Head(sent) \in Request
    BY <1>1
  <1> QED
    BY <1>1, <1>2 DEF Request

LEMMA HeadAnswer ==
    ASSUME WatchInv, answers # << >>
    PROVE  /\ answers \in Seq(Message) /\ Head(answers) \in Message
           /\ 1 \in DOMAIN answers /\ answers[1] = Head(answers)
           /\ DOMAIN answers \subseteq Nat \ {0}
           /\ \A i \in DOMAIN Tail(answers) :
                 /\ i \in Nat \ {0} /\ i + 1 \in DOMAIN answers
                 /\ Tail(answers)[i] = answers[i + 1]
  <1>1. answers \in Seq(Message)
    BY DEF WatchInv, DataType
  <1> QED
    BY <1>1, TailMoves

\* The state of one target is not that of another.
LEMMA StatePut ==
    ASSUME NEW q, NEW r, NEW s, states' = Put(states, r, s)
    PROVE  State(r)' = s /\ (q # r => State(q)' = State(q))
  BY DEF Put, State

LEMMA StateWithout ==
    ASSUME NEW q, NEW r, states' = Without(states, r)
    PROVE  State(r)' = NewTarget /\ (q # r => State(q)' = State(q))
  BY DEF Without, State

\* What a target owes is a number, and what is on its way is counted.
LEMMA OwesTypes ==
    ASSUME WatchInv, NEW q
    PROVE  /\ State(q).owed \in Int /\ State(q).current \in BOOLEAN
           /\ State(q).changed \in BOOLEAN
           /\ sent \in Seq(Request) /\ answers \in Seq(Message)
           /\ Cardinality(Asked(q)) \in Nat /\ Cardinality(Settled(q)) \in Nat
           /\ Asked(q) = {} <=> Cardinality(Asked(q)) = 0
           /\ Settled(q) = {} <=> Cardinality(Settled(q)) = 0
           /\ Asked(q) \subseteq DOMAIN sent /\ Settled(q) \subseteq DOMAIN answers
           /\ DOMAIN sent \subseteq Nat \ {0} /\ DOMAIN answers \subseteq Nat \ {0}
  <1>1. sent \in Seq(Request) /\ answers \in Seq(Message) /\ StatesType
    BY DEF WatchInv, NetType, DataType
  <1>2. State(q) \in TargetState
    BY <1>1, StateTypes
  <1>3. State(q).owed \in Int /\ State(q).current \in BOOLEAN /\ State(q).changed \in BOOLEAN
    BY <1>2 DEF TargetState
  <1>4. /\ Cardinality(Asked(q)) \in Nat /\ Cardinality(Settled(q)) \in Nat
        /\ Asked(q) = {} <=> Cardinality(Asked(q)) = 0
        /\ Settled(q) = {} <=> Cardinality(Settled(q)) = 0
    BY <1>1, AboutFinite DEF Asked, Settled
  <1>5. Asked(q) \subseteq DOMAIN sent /\ Settled(q) \subseteq DOMAIN answers
    BY DEF Asked, Settled, About
  <1>6. DOMAIN sent = 1 .. Len(sent) /\ Len(sent) \in Nat
    BY <1>1
  <1>7. DOMAIN answers = 1 .. Len(answers) /\ Len(answers) \in Nat
    BY <1>1
  <1> QED
    BY <1>1, <1>3, <1>4, <1>5, <1>6, <1>7

\* A request that is put at the end is the last word about its query.
LEMMA AskingKeeps ==
    ASSUME WatchInv, NEW r \in Queries, NEW q \in Queries, Asks(r), Owes(q), Agrees(q)
    PROVE  Owes(q)' /\ Agrees(q)'
  <1>0. /\ sent \in Seq(Request) /\ State(q).owed \in Int /\ StatesType
        /\ Asked(q) \subseteq DOMAIN sent /\ DOMAIN sent \subseteq Nat
        /\ Cardinality(Asked(q)) \in Nat /\ Cardinality(Settled(q)) \in Nat
    BY OwesTypes DEF WatchInv, NetType
  <1>1. PICK m \in Request :
           /\ m.query = r /\ m.kind \in {"watch", "unwatch"} /\ sent' = Append(sent, m)
           /\ m.kind = "watch" => targets' = targets \cup {r}
           /\ m.kind = "unwatch" => targets' = targets \ {r}
    <2>1. /\ Watch(r) \in Request /\ Watch(r).query = r /\ Watch(r).kind = "watch"
          /\ Unwatch(r) \in Request /\ Unwatch(r).query = r /\ Unwatch(r).kind = "unwatch"
      BY DEF Watch, Unwatch, Request
    <2> QED
      BY <2>1 DEF Asks
  <1>2. UNCHANGED <<answers, serving>> /\ states' = Put(states, r, [State(r) EXCEPT !.owed = @ + 1])
    BY DEF Asks, Owing
  <1>3. Settled(q)' = Settled(q)
    BY <1>2 DEF Settled, About
  <1>4. CASE r = q
    <2>1. /\ Asked(q)' = Asked(q) \cup {Len(sent) + 1}
          /\ Cardinality(Asked(q)') = Cardinality(Asked(q)) + 1
      <3>1. Asked(q)' = About(q, Append(sent, m), {"watch", "unwatch"})
        BY <1>1 DEF Asked, About
      <3>2. m.kind \in {"watch", "unwatch"} /\ m.query = q
        BY <1>1, <1>4
      <3>3. PICK kinds : kinds = {"watch", "unwatch"}
        OBVIOUS
      <3>4. sent \in Seq(Request) /\ m.kind \in kinds /\ m.query = q
        BY <1>0, <3>2, <3>3
      <3>5. Cardinality(About(q, Append(sent, m), kinds))
               = Cardinality(About(q, sent, kinds)) + 1
        BY <3>4, AboutMore
      <3>6. \A i : i \in About(q, Append(sent, m), kinds)
                      <=> i \in About(q, sent, kinds) \/ i = Len(sent) + 1
        BY <3>4, AboutMore
      <3> QED
        BY <3>1, <3>3, <3>5, <3>6 DEF Asked
    <2>2. State(q)' = [State(q) EXCEPT !.owed = @ + 1]
      BY <1>2, <1>4, StatePut, StateWithout
    <2>3. State(q)'.owed = State(q).owed + 1
      <3>1. State(q) \in TargetState
        BY <1>0, StateTypes
      <3> QED
        BY <2>2, <3>1 DEF TargetState
    <2>4. Owes(q)'
      BY <1>0, <1>3, <2>1, <2>3 DEF Owes
    <2>5. Agrees(q)'
      <3>1. sent'[Len(sent) + 1] = m /\ Len(sent) \in Nat /\ DOMAIN sent = 1 .. Len(sent)
        BY <1>0, <1>1, AppendKeeps
      <3>2. \A i \in Asked(q)' : (\A j \in Asked(q)' : j <= i) => i = Len(sent) + 1
        <4> SUFFICES ASSUME NEW i \in Asked(q)', \A j \in Asked(q)' : j <= i
                     PROVE  i = Len(sent) + 1
          OBVIOUS
        <4>1. i \in 1 .. Len(sent) \/ i = Len(sent) + 1
          BY <1>0, <2>1, <3>1
        <4>2. Len(sent) + 1 <= i
          BY <2>1
        <4> QED
          BY <3>1, <4>1, <4>2
      <3>3. q \in targets' <=> m.kind = "watch"
        BY <1>1, <1>4
      <3> QED
        BY <2>1, <3>1, <3>2, <3>3 DEF Agrees
    <2> QED
      BY <2>4, <2>5
  <1>5. CASE r # q
    <2>1. Asked(q)' = Asked(q)
      BY <1>0, <1>1, <1>5, AboutOther DEF Asked
    <2>2. State(q)' = State(q)
      BY <1>2, <1>5, StatePut, StateWithout
    <2>3. \A i \in Asked(q) : sent'[i] = sent[i]
      BY <1>0, <1>1, AppendKeeps
    <2>4. q \in targets' <=> q \in targets
      BY <1>1, <1>5
    <2>5. Owes(q)'
      BY <1>3, <2>1, <2>2 DEF Owes
    <2>6. Agrees(q)'
      BY <1>2, <2>1, <2>3, <2>4 DEF Agrees
    <2> QED
      BY <2>5, <2>6
  <1> QED
    BY <1>4, <1>5

\* When the stream opens each target owes the answer to its one request.
LEMMA OpeningKeeps ==
    ASSUME WatchInv, BareWhenDown, AssertionsHold, OpenStream, NEW q \in Queries
    PROVE  Owes(q)' /\ Agrees(q)' /\ Awaits(q)'
  <1>1. /\ Bare /\ UNCHANGED <<targets, docs, answers, serving>>
        /\ states' = [r \in targets |-> [NewTarget EXCEPT !.owed = 1]]
        /\ \A i \in DOMAIN sent' : \E r \in targets : sent'[i] = Watch(r)
        /\ \A i, j \in DOMAIN sent' : sent'[i] = sent'[j] => i = j
        /\ \A r \in targets : \E i \in DOMAIN sent' : sent'[i] = Watch(r)
    BY OpenAsks
  <1>2. Settled(q)' = {} /\ Cardinality(Settled(q)') = 0
    <2>1. answers' = << >>
      BY <1>1 DEF Bare
    <2> QED
      BY <2>1, AboutNothing DEF Settled
  <1>3. \A r : Watch(r).kind = "watch" /\ Watch(r).query = r
    BY DEF Watch
  <1>4. NewTarget.owed = 0 /\ [NewTarget EXCEPT !.owed = 1].owed = 1
    BY DEF NewTarget
  <1>5. CASE q \in targets
    <2>1. PICK i \in DOMAIN sent' : sent'[i] = Watch(q)
      BY <1>1, <1>5
    <2>2. \A j \in DOMAIN sent' : sent'[j].query = q => j = i
      BY <1>1, <1>3, <2>1
    <2>3. Asked(q)' = {i} /\ About(q, sent, {"watch"})' # {}
      BY <1>3, <2>1, <2>2 DEF Asked, About
    <2>4. Cardinality(Asked(q)') = 1
      BY <2>3, FS_Singleton
    <2>5. State(q)'.owed = 1
      BY <1>1, <1>4, <1>5 DEF State
    <2>6. Agrees(q)'
      BY <1>1, <1>3, <1>5, <2>1, <2>3 DEF Agrees
    <2> QED
      BY <1>2, <2>3, <2>4, <2>5, <2>6 DEF Owes, Awaits
  <1>6. CASE q \notin targets
    <2>1. Asked(q)' = {}
      BY <1>1, <1>3, <1>6 DEF Asked, About
    <2>2. Cardinality(Asked(q)') = 0
      BY <2>1, FS_EmptySet
    <2>3. State(q)'.owed = 0
      BY <1>1, <1>4, <1>6 DEF State
    <2>4. Agrees(q)'
      BY <1>1, <1>6, <2>1 DEF Agrees, Bare
    <2> QED
      BY <1>1, <1>2, <1>6, <2>2, <2>3, <2>4 DEF Owes, Awaits
  <1> QED
    BY <1>5, <1>6

\* The server takes a request: of the others the last is still the last.
LEMMA AgreesRest ==
    ASSUME WatchInv, sent # << >>, sent' = Tail(sent), UNCHANGED targets, NEW q, Agrees(q),
           q \in DOMAIN serving' <=> IF Head(sent).query = q THEN Head(sent).kind = "watch"
                                     ELSE q \in DOMAIN serving
    PROVE  Agrees(q)'
  <1>1. PICK s \in Seq(Request) : s = sent
    BY DEF WatchInv, NetType
  <1>2. /\ \A i \in DOMAIN Tail(s) : Tail(s)[i] = s[i + 1] /\ i \in Nat
        /\ 1 \in DOMAIN s /\ s[1] = Head(s) /\ DOMAIN s \subseteq Nat \ {0}
        /\ DOMAIN Tail(s) = {i \in Nat : i # 0 /\ i + 1 \in DOMAIN s}
    BY <1>1, TailMoves
  <1>3. Head(s).kind \in {"watch", "unwatch"}
    BY <1>1, HeadRequest
  <1>4. /\ 1 \in Asked(q) <=> Head(s).query = q
        /\ \A i \in Asked(q)' : i \in Nat \ {0} /\ i + 1 \in Asked(q) /\ sent'[i] = sent[i + 1]
        /\ \A i \in Asked(q) : i \in Nat \ {0} /\ (i = 1 \/ i - 1 \in Asked(q)')
    <2>1. Asked(q)' = About(q, Tail(s), {"watch", "unwatch"})
      BY <1>1 DEF Asked, About
    <2>2. 1 \in Asked(q) <=> Head(s).query = q
      BY <1>1, <1>2, <1>3 DEF Asked, About
    <2>3. \A i \in Asked(q)' : i \in Nat \ {0} /\ i + 1 \in Asked(q) /\ sent'[i] = sent[i + 1]
      BY <1>1, <1>2, <2>1 DEF Asked, About
    <2>4. ASSUME NEW i \in Asked(q) PROVE i \in Nat \ {0} /\ (i = 1 \/ i - 1 \in Asked(q)')
      <3>1. i \in DOMAIN s /\ i \in Nat \ {0}
        BY <1>1, <1>2 DEF Asked, About
      <3>2. CASE i # 1
        <4>1. i - 1 \in Nat /\ i - 1 # 0 /\ (i - 1) + 1 = i
          BY <3>1, <3>2
        <4>2. i - 1 \in DOMAIN Tail(s) /\ Tail(s)[i - 1] = s[i]
          BY <1>2, <3>1, <4>1
        <4> QED
          BY <1>1, <2>1, <3>1, <4>2 DEF Asked, About
      <3> QED
        BY <3>1, <3>2
    <2> QED
      BY <2>2, <2>3, <2>4
  <1>5. ASSUME Asked(q)' = {} PROVE q \in targets <=> q \in DOMAIN serving'
    <2>1. Asked(q) \subseteq {1}
      BY <1>4, <1>5
    <2>2. CASE 1 \in Asked(q)
      <3>1. q \in targets <=> sent[1].kind = "watch"
        BY <2>1, <2>2 DEF Agrees
      <3> QED
        BY <1>1, <1>2, <1>4, <2>2, <3>1
    <2>3. CASE 1 \notin Asked(q)
      <3>1. Asked(q) = {}
        BY <2>1, <2>3
      <3> QED
        BY <1>1, <1>4, <2>3, <3>1 DEF Agrees
    <2> QED
      BY <2>2, <2>3
  <1>6. ASSUME NEW i \in Asked(q)', \A j \in Asked(q)' : j <= i
        PROVE  q \in targets <=> sent'[i].kind = "watch"
    <2>1. i \in Nat \ {0} /\ i + 1 \in Asked(q) /\ sent'[i] = sent[i + 1]
      BY <1>4
    <2>2. ASSUME NEW j \in Asked(q) PROVE j <= i + 1
      <3>1. j \in Nat \ {0} /\ (j = 1 \/ j - 1 <= i)
        BY <1>4, <1>6
      <3> QED
        BY <2>1, <3>1
    <2> QED
      BY <2>1, <2>2 DEF Agrees
  <1>7. targets' = targets
    OBVIOUS
  <1> QED
    BY <1>5, <1>6, <1>7 DEF Agrees

\* Whether a request of q or of another is looked at, what is owed is on its way.
LEMMA ServingKeeps ==
    ASSUME WatchInv, DecidedInv, Serves, NEW q \in Queries \ Forbidden, Owes(q), Agrees(q)
    PROVE  Owes(q)' /\ Agrees(q)'
  <1>0. /\ sent \in Seq(Request) /\ answers \in Seq(Message) /\ State(q).owed \in Int
        /\ Cardinality(Asked(q)) \in Nat /\ Cardinality(Settled(q)) \in Nat
        /\ State(q)' = State(q) /\ UNCHANGED targets
    <2>1. UNCHANGED <<targets, states>>
      BY ServesWays
    <2> QED
      BY <2>1, OwesTypes DEF State
  <1>1. ASSUME NEW m \in Message, sent # << >>, sent' = Tail(sent),
               answers' = Append(answers, m), m.query = Head(sent).query,
               m.query = q => m.kind \in {"added", "removed"},
               q \in DOMAIN serving' <=> IF Head(sent).query = q THEN Head(sent).kind = "watch"
                                         ELSE q \in DOMAIN serving
        PROVE  Owes(q)' /\ Agrees(q)'
    <2>1. Agrees(q)'
      BY <1>0, <1>1, AgreesRest
    <2>2. PICK asking : asking = {"watch", "unwatch"}
      OBVIOUS
    <2>3. PICK settling : settling = {"added", "removed"}
      OBVIOUS
    <2>4. /\ Asked(q) = About(q, sent, asking) /\ Asked(q)' = About(q, Tail(sent), asking)
          /\ Settled(q) = About(q, answers, settling)
          /\ Settled(q)' = About(q, Append(answers, m), settling)
      BY <1>1, <2>2, <2>3 DEF Asked, Settled, About
    <2>5. CASE m.query = q
      <3>1. Head(sent).kind \in asking /\ Head(sent).query = q /\ m.kind \in settling
        BY <1>1, <2>2, <2>3, <2>5, HeadRequest
      <3>2. Cardinality(About(q, Tail(sent), asking)) = Cardinality(About(q, sent, asking)) - 1
        BY <1>0, <1>1, <3>1, AboutLess
      <3>3. Cardinality(About(q, Append(answers, m), settling))
               = Cardinality(About(q, answers, settling)) + 1
        BY <1>0, <2>5, <3>1, AboutMore
      <3> QED
        BY <1>0, <2>1, <2>4, <3>2, <3>3 DEF Owes
    <2>6. CASE m.query # q
      <3>1. Cardinality(About(q, Tail(sent), asking)) = Cardinality(About(q, sent, asking))
        BY <1>0, <1>1, <2>6, AboutSame
      <3>2. About(q, Append(answers, m), settling) = About(q, answers, settling)
        BY <1>0, <2>6, AboutOther
      <3> QED
        BY <1>0, <2>1, <2>4, <3>1, <3>2 DEF Owes
    <2> QED
      BY <2>5, <2>6
  <1>2. CASE ServerWatches
    <2>1. /\ sent # << >> /\ sent' = Tail(sent) /\ Head(sent).kind = "watch"
      BY <1>2 DEF ServerWatches
    <2>2. PICK r \in Queries : r = Head(sent).query
      BY <2>1, HeadRequest
    <2>3. PICK m \in Message :
             /\ answers' = Append(answers, m) /\ m.query = r
             /\ \/ r \in Forbidden /\ DOMAIN serving' = DOMAIN serving
                \/ /\ r \notin Forbidden /\ m.kind = "added"
                   /\ DOMAIN serving' = DOMAIN serving \cup {r}
      <3>1. CASE r \in Forbidden
        <4>1. [kind |-> "rejected", query |-> r] \in Message
          BY DEF Message
        <4>2. answers' = Append(answers, [kind |-> "rejected", query |-> r]) /\ UNCHANGED serving
          BY <1>2, <2>2, <3>1 DEF ServerWatches
        <4> QED
          BY <3>1, <4>1, <4>2
      <3>2. CASE r \notin Forbidden
        <4>1. [kind |-> "added", query |-> r] \in Message
          BY DEF Message
        <4>2. /\ answers' = Append(answers, [kind |-> "added", query |-> r])
              /\ serving' = Put(serving, r, 0)
          BY <1>2, <2>2, <3>2 DEF ServerWatches
        <4>3. DOMAIN serving' = DOMAIN serving \cup {r}
          BY <4>2 DEF Put
        <4> QED
          BY <3>2, <4>1, <4>2, <4>3
      <3> QED
        BY <3>1, <3>2
    <2>4. q \in DOMAIN serving' <=> IF r = q THEN TRUE ELSE q \in DOMAIN serving
      BY <2>3
    <2> QED
      BY <1>1, <2>1, <2>2, <2>3, <2>4
  <1>3. CASE ServerUnwatches
    <2>1. /\ sent # << >> /\ sent' = Tail(sent) /\ Head(sent).kind = "unwatch"
      BY <1>3 DEF ServerUnwatches
    <2>2. PICK r \in Queries : r = Head(sent).query
      BY <2>1, HeadRequest
    <2>3. PICK m \in Message :
             /\ answers' = Append(answers, m) /\ m.query = r /\ m.kind = "removed"
             /\ DOMAIN serving' = DOMAIN serving \ {r}
      <3>1. [kind |-> "removed", query |-> r] \in Message
        BY DEF Message
      <3>2. DOMAIN Without(serving, r) = DOMAIN serving \ {r}
        BY DEF Without
      <3> QED
        BY <1>3, <2>2, <3>1, <3>2 DEF ServerUnwatches
    <2>4. q \in DOMAIN serving' <=> IF r = q THEN FALSE ELSE q \in DOMAIN serving
      BY <2>3
    <2> QED
      BY <1>1, <2>1, <2>2, <2>3, <2>4
  <1>4. CASE ServerSends
    <2>1. PICK r \in DOMAIN serving :
             /\ serving' = [serving EXCEPT ![r] = version[r]]
             /\ DocumentOf(r, version[r]) \in Message /\ CurrentOf(r) \in Message
             /\ SnapshotMark \in Message
             /\ \/ answers' = Append(Append(answers, DocumentOf(r, version[r])),
                                     SnapshotMark)
                \/ answers' = Append(Append(Append(answers, DocumentOf(r, version[r])),
                                            CurrentOf(r)), SnapshotMark)
      BY <1>4, SendsWays
    <2>2. PICK d \in Message, c \in Message, z \in Message :
             /\ d.kind = "document" /\ c.kind = "current" /\ z.kind = "snapshot"
             /\ \/ answers' = Append(Append(answers, d), z)
                \/ answers' = Append(Append(Append(answers, d), c), z)
      BY <2>1 DEF DocumentOf, CurrentOf, SnapshotMark
    <2>3. \A s \in Seq(Message), m \in Message :
             m.kind \notin {"added", "removed"} =>
                /\ Append(s, m) \in Seq(Message)
                /\ About(q, Append(s, m), {"added", "removed"})
                      = About(q, s, {"added", "removed"})
      BY AboutOther, AppendKeeps
    <2>4. Settled(q)' = Settled(q)
      <3>1. PICK settling : settling = {"added", "removed"}
        OBVIOUS
      <3>2. PICK a \in Seq(Message) :
               a = Append(answers, d) /\ About(q, a, settling) = About(q, answers, settling)
        BY <1>0, <2>2, <2>3, <3>1
      <3>3. PICK b \in Seq(Message) :
               b = Append(a, c) /\ About(q, b, settling) = About(q, a, settling)
        BY <2>2, <2>3, <3>1
      <3>4. answers' = Append(a, z) \/ answers' = Append(b, z)
        BY <2>2, <3>2, <3>3
      <3>5. About(q, answers', settling) = About(q, answers, settling)
        BY <2>2, <2>3, <3>1, <3>2, <3>3, <3>4
      <3> QED
        BY <3>1, <3>5 DEF Settled, About
    <2>5. UNCHANGED sent /\ DOMAIN serving' = DOMAIN serving
      BY <1>4, <2>1 DEF ServerSends
    <2>6. Asked(q)' = Asked(q)
      BY <2>5 DEF Asked, About
    <2> QED
      BY <1>0, <2>4, <2>5, <2>6 DEF Owes, Agrees
  <1> QED
    BY <1>2, <1>3, <1>4 DEF Serves

\* What a message does to the count of a target that is not forbidden.
LEMMA OwedAfterRead ==
    ASSUME WatchInv, DecidedInv, Reads, NEW q \in Queries \ Forbidden
    PROVE  /\ answers # << >> /\ answers' = Tail(answers) /\ UNCHANGED <<sent, serving, stream>>
           /\ q \in targets' <=> q \in targets
           /\ State(q)'.owed = IF /\ Head(answers).kind \in {"added", "removed"}
                                  /\ Head(answers).query = q
                               THEN State(q).owed - 1 ELSE State(q).owed
  <1>0. StatesType /\ DataType /\ State(q) \in TargetState
    BY StateTypes DEF WatchInv, NetType
  <1>1. /\ answers # << >> /\ answers' = Tail(answers) /\ UNCHANGED <<sent, serving, stream>>
    BY DEF Reads, TargetAdded, TargetRemoved, TargetCurrent, DocumentChange, TargetRejected,
       Snapshot, NextAnswer, Read
  <1>2. PICK m \in Message : m = Head(answers)
    BY <1>1, HeadAnswer
  <1>3. ASSUME TargetAdded \/ TargetRemoved \/ TargetCurrent \/ DocumentChange,
               State(q)'.owed = IF m.kind \in {"added", "removed"} /\ m.query = q
                                THEN State(q).owed - 1 ELSE State(q).owed
        PROVE  /\ q \in targets' <=> q \in targets
               /\ State(q)'.owed = IF m.kind \in {"added", "removed"} /\ m.query = q
                                   THEN State(q).owed - 1 ELSE State(q).owed
    <2>1. UNCHANGED targets
      BY <1>3 DEF TargetAdded, TargetRemoved, TargetCurrent, DocumentChange
    <2> QED
      BY <1>3, <2>1
  <1>4. CASE TargetAdded
    <2>1. m.kind = "added" /\ Added(m.query)
      BY <1>2, <1>4 DEF TargetAdded, NextAnswer
    <2>2. PICK t : /\ t.owed = State(m.query).owed - 1 /\ states' = Put(states, m.query, t)
      BY <2>1 DEF Added
    <2>3. State(m.query)' = t /\ (q # m.query => State(q)' = State(q))
      BY <2>2, StatePut, StateWithout
    <2> QED
      BY <1>1, <1>2, <1>3, <1>4, <2>1, <2>2, <2>3
  <1>5. CASE TargetRemoved
    <2>1. m.kind = "removed" /\ Removed(m.query)
      BY <1>2, <1>5 DEF TargetRemoved, NextAnswer
    <2>2. PICK t \in TargetState : t = State(m.query)
      BY <1>0, StateTypes
    <2>3. t.owed - 1 = 0 => states' = Without(states, m.query)
      BY <2>1, <2>2 DEF Removed
    <2>4. PICK u \in TargetState :
             /\ u.owed = t.owed - 1
             /\ t.owed - 1 # 0 => states' = Put(states, m.query, u)
      <3>1. PICK u : u = [t EXCEPT !.owed = t.owed - 1]
        OBVIOUS
      <3>2. u \in TargetState /\ u.owed = t.owed - 1
        BY <1>0, <2>2, <3>1, StateTypes DEF TargetState
      <3>3. t.owed - 1 # 0 => states' = Put(states, m.query, u)
        BY <2>1, <2>2, <3>1 DEF Removed
      <3> QED
        BY <3>2, <3>3
    <2>5. NewTarget.owed = 0
      BY DEF NewTarget
    <2>6. /\ State(m.query)'.owed = t.owed - 1
          /\ q # m.query => State(q)' = State(q)
      <3>1. CASE t.owed - 1 = 0
        <4>1. /\ State(m.query)' = NewTarget
              /\ q # m.query => State(q)' = State(q)
          BY <2>3, <3>1, StatePut, StateWithout
        <4> QED
          BY <2>5, <3>1, <4>1
      <3>2. CASE t.owed - 1 # 0
        <4>1. State(m.query)' = u /\ (q # m.query => State(q)' = State(q))
          BY <2>4, <3>2, StatePut, StateWithout
        <4> QED
          BY <2>4, <4>1
      <3> QED
        BY <3>1, <3>2
    <2> QED
      BY <1>1, <1>2, <1>3, <1>5, <2>1, <2>2, <2>6
  <1>6. CASE TargetCurrent
    <2>1. m.kind = "current" /\ Current(m.query)
      BY <1>2, <1>6 DEF TargetCurrent, NextAnswer
    <2>2. PICK t : /\ t.owed = State(m.query).owed /\ states' = Put(states, m.query, t)
      <3>1. CASE IsActive(m.query)
        <4>1. states' = Put(states, m.query, [owed |-> 0, current |-> TRUE, changed |-> TRUE])
          BY <2>1, <3>1 DEF Current
        <4>2. State(m.query).owed = 0
          BY <3>1 DEF IsActive
        <4> QED
          BY <4>1, <4>2
      <3>2. CASE ~IsActive(m.query)
        BY <2>1, <3>2 DEF Current
      <3> QED
        BY <3>1, <3>2
    <2>3. State(m.query)' = t /\ (q # m.query => State(q)' = State(q))
      BY <2>2, StatePut, StateWithout
    <2> QED
      BY <1>1, <1>2, <1>3, <1>6, <2>1, <2>2, <2>3
  <1>7. CASE DocumentChange
    <2>1. m.kind = "document" /\ Document(m.query, m.version)
      BY <1>2, <1>7 DEF DocumentChange, NextAnswer
    <2>2. CASE IsActive(m.query)
      <3>1. PICK t \in TargetState : t = State(m.query)
        BY <1>0, StateTypes
      <3>2. states' = Put(states, m.query, [t EXCEPT !.changed = TRUE])
        BY <2>1, <2>2, <3>1 DEF Document
      <3>3. [t EXCEPT !.changed = TRUE].owed = t.owed
        BY DEF TargetState
      <3>4. /\ State(m.query)' = [t EXCEPT !.changed = TRUE]
            /\ q # m.query => State(q)' = State(q)
        BY <3>2, StatePut, StateWithout
      <3> QED
        BY <1>1, <1>2, <1>3, <1>7, <2>1, <3>1, <3>3, <3>4
    <2>3. CASE ~IsActive(m.query)
      <3>1. UNCHANGED states
        BY <2>1, <2>3 DEF Document
      <3>2. State(q)' = State(q)
        BY <3>1 DEF State
      <3> QED
        BY <1>1, <1>2, <1>3, <1>7, <2>1, <3>2
    <2> QED
      BY <2>2, <2>3
  <1>8. CASE TargetRejected
    <2>1. m.kind = "rejected"
      BY <1>2, <1>8 DEF TargetRejected, NextAnswer
    <2>2. m.query # q
      <3>1. Decided(answers[1])
        BY <1>1, HeadAnswer DEF DecidedInv
      <3> QED
        BY <1>1, <1>2, <2>1, <3>1, HeadAnswer DEF Decided
    <2>3. \/ targets' = targets \ {m.query} /\ states' = Without(states, m.query)
          \/ UNCHANGED <<targets, states>>
      BY <1>2, <1>8 DEF TargetRejected
    <2>4. State(q)' = State(q)
      BY <2>2, <2>3, StatePut, StateWithout DEF State
    <2> QED
      BY <1>1, <1>2, <2>1, <2>2, <2>3, <2>4
  <1>9. CASE Snapshot
    <2>1. m.kind = "snapshot" /\ UNCHANGED targets
      BY <1>2, <1>9 DEF Snapshot, NextAnswer
    <2>2. PICK changed : states' = [r \in DOMAIN states |-> [states[r] EXCEPT
                                       !.changed = @ /\ r \notin changed]]
      BY <1>9 DEF Snapshot
    <2>3. State(q)'.owed = State(q).owed
      <3>1. CASE q \in DOMAIN states
        <4>1. PICK t \in TargetState : t = states[q] /\ State(q) = t
          BY <1>0, <3>1 DEF StatesType, State
        <4>2. State(q)' = [t EXCEPT !.changed = @ /\ q \notin changed]
          BY <2>2, <3>1, <4>1 DEF State
        <4> QED
          BY <4>1, <4>2 DEF TargetState
      <3>2. CASE q \notin DOMAIN states
        BY <2>2, <3>2 DEF State
      <3> QED
        BY <3>1, <3>2
    <2> QED
      BY <1>1, <1>2, <2>1, <2>3
  <1> QED
    BY <1>4, <1>5, <1>6, <1>7, <1>8, <1>9 DEF Reads

LEMMA ReadingKeeps ==
    ASSUME WatchInv, DecidedInv, Reads, NEW q \in Queries \ Forbidden, Owes(q), Agrees(q)
    PROVE  Owes(q)' /\ Agrees(q)'
  <1>0. /\ sent \in Seq(Request) /\ answers \in Seq(Message) /\ State(q).owed \in Int
        /\ Cardinality(Asked(q)) \in Nat /\ Cardinality(Settled(q)) \in Nat
    BY OwesTypes
  <1>1. /\ answers # << >> /\ answers' = Tail(answers) /\ UNCHANGED <<sent, serving>>
        /\ q \in targets' <=> q \in targets
        /\ State(q)'.owed = IF /\ Head(answers).kind \in {"added", "removed"}
                               /\ Head(answers).query = q
                            THEN State(q).owed - 1 ELSE State(q).owed
    BY OwedAfterRead
  <1>2. Asked(q)' = Asked(q) /\ Agrees(q)'
    <2>1. Asked(q)' = Asked(q)
      BY <1>1 DEF Asked, About
    <2> QED
      BY <1>1, <2>1 DEF Agrees
  <1>3. PICK settling : settling = {"added", "removed"}
    OBVIOUS
  <1>4. /\ Settled(q) = About(q, answers, settling)
        /\ Settled(q)' = About(q, Tail(answers), settling)
    BY <1>1, <1>3 DEF Settled, About
  <1>5. CASE Head(answers).kind \in settling /\ Head(answers).query = q
    <2>1. Cardinality(About(q, Tail(answers), settling))
             = Cardinality(About(q, answers, settling)) - 1
      BY <1>0, <1>1, <1>5, AboutLess
    <2> QED
      BY <1>0, <1>1, <1>2, <1>3, <1>4, <1>5, <2>1 DEF Owes
  <1>6. CASE ~(Head(answers).kind \in settling /\ Head(answers).query = q)
    <2>1. Cardinality(About(q, Tail(answers), settling))
             = Cardinality(About(q, answers, settling))
      BY <1>0, <1>1, <1>6, AboutSame
    <2> QED
      BY <1>0, <1>1, <1>2, <1>3, <1>4, <1>6, <2>1 DEF Owes
  <1> QED
    BY <1>5, <1>6

\* A message put at the end, or the head taken: the others are what they were.
LEMMA DecidedKeeps ==
    ASSUME WatchInv, BareWhenDown, DecidedInv, [Next]_vars,
           OpenStream => Bare /\ UNCHANGED <<answers, serving>>
    PROVE  DecidedInv'
  <1>0. answers \in Seq(Message)
    BY DEF WatchInv, DataType
  <1>1. CASE OpenStream \/ StreamKept \/ \E q \in Queries : Asks(q)
    <2>1. UNCHANGED <<answers, serving>>
      BY <1>1 DEF StreamKept, Asks
    <2> QED
      BY <2>1 DEF DecidedInv
  <1>2. CASE StreamDown
    BY <1>2 DEF StreamDown, Bare, DecidedInv
  <1>3. CASE Reads
    <2>1. answers # << >> /\ answers' = Tail(answers) /\ UNCHANGED serving
      BY <1>3 DEF Reads, TargetAdded, TargetRemoved, TargetCurrent, DocumentChange,
         TargetRejected, Snapshot, NextAnswer, Read
    <2>2. \A i \in DOMAIN answers' : i + 1 \in DOMAIN answers /\ answers'[i] = answers[i + 1]
      BY <2>1, HeadAnswer
    <2> QED
      BY <2>1, <2>2 DEF DecidedInv
  <1>4. ASSUME NEW s \in Seq(Message), NEW m \in Message, Decided(m),
               \A i \in DOMAIN s : Decided(s[i])
        PROVE  \A i \in DOMAIN Append(s, m) : Decided(Append(s, m)[i])
    <2>1. \A i \in DOMAIN Append(s, m) :
             (i \in DOMAIN s /\ Append(s, m)[i] = s[i]) \/ Append(s, m)[i] = m
      BY AppendKeeps
    <2> QED
      BY <1>4, <2>1
  <1>5. CASE ServerWatches \/ ServerUnwatches
    <2>1. PICK r \in Queries : r = Head(sent).query
      BY <1>5, HeadRequest DEF ServerWatches, ServerUnwatches
    <2>2. PICK m \in Message :
             /\ answers' = Append(answers, m) /\ Decided(m)
             /\ \A q \in DOMAIN serving' : q \in DOMAIN serving \/ q \notin Forbidden
      <3>1. /\ [kind |-> "rejected", query |-> r] \in Message
            /\ [kind |-> "added", query |-> r] \in Message
            /\ [kind |-> "removed", query |-> r] \in Message
        BY DEF Message
      <3>2. CASE ServerUnwatches
        <4>1. /\ answers' = Append(answers, [kind |-> "removed", query |-> r])
              /\ serving' = Without(serving, r)
          BY <2>1, <3>2 DEF ServerUnwatches
        <4>2. Decided([kind |-> "removed", query |-> r])
          BY DEF Decided
        <4>3. \A q \in DOMAIN serving' : q \in DOMAIN serving
          BY <4>1 DEF Without
        <4> QED
          BY <3>1, <4>1, <4>2, <4>3
      <3>3. CASE ServerWatches /\ r \in Forbidden
        <4>1. /\ answers' = Append(answers, [kind |-> "rejected", query |-> r])
              /\ UNCHANGED serving
          BY <2>1, <3>3 DEF ServerWatches
        <4>2. Decided([kind |-> "rejected", query |-> r])
          BY <3>3 DEF Decided
        <4> QED
          BY <3>1, <4>1, <4>2
      <3>4. CASE ServerWatches /\ r \notin Forbidden
        <4>1. /\ answers' = Append(answers, [kind |-> "added", query |-> r])
              /\ serving' = Put(serving, r, 0)
          BY <2>1, <3>4 DEF ServerWatches
        <4>2. Decided([kind |-> "added", query |-> r])
          BY <3>4 DEF Decided
        <4>3. \A q \in DOMAIN serving' : q \in DOMAIN serving \/ q = r
          BY <4>1 DEF Put
        <4> QED
          BY <3>1, <3>4, <4>1, <4>2, <4>3
      <3> QED
        BY <1>5, <3>2, <3>3, <3>4
    <2>3. \A i \in DOMAIN answers' : Decided(answers'[i])
      BY <1>0, <1>4, <2>2 DEF DecidedInv
    <2> QED
      BY <2>2, <2>3 DEF DecidedInv, Decided
  <1>6. CASE ServerSends
    <2>1. PICK r \in DOMAIN serving :
             /\ serving' = [serving EXCEPT ![r] = version[r]]
             /\ DocumentOf(r, version[r]) \in Message /\ CurrentOf(r) \in Message
             /\ SnapshotMark \in Message
             /\ \/ answers' = Append(Append(answers, DocumentOf(r, version[r])),
                                     SnapshotMark)
                \/ answers' = Append(Append(Append(answers, DocumentOf(r, version[r])),
                                            CurrentOf(r)), SnapshotMark)
      BY <1>6, SendsWays
    <2>2. r \notin Forbidden /\ DOMAIN serving' = DOMAIN serving
      BY <2>1 DEF DecidedInv
    <2>3. /\ Decided(DocumentOf(r, version[r])) /\ Decided(CurrentOf(r))
          /\ Decided(SnapshotMark)
      BY <2>2 DEF Decided, DocumentOf, CurrentOf, SnapshotMark
    <2>4. PICK a \in Seq(Message) : a = Append(answers, DocumentOf(r, version[r]))
      BY <1>0, <2>1, AppendKeeps
    <2>5. PICK b \in Seq(Message) : b = Append(a, CurrentOf(r))
      BY <2>1, AppendKeeps
    <2>6. (\A i \in DOMAIN a : Decided(a[i])) /\ (\A i \in DOMAIN b : Decided(b[i]))
      <3>1. \A i \in DOMAIN a : Decided(a[i])
        BY <1>0, <1>4, <2>1, <2>3, <2>4 DEF DecidedInv
      <3> QED
        BY <1>4, <2>1, <2>3, <2>5, <3>1
    <2>7. answers' = Append(a, SnapshotMark) \/ answers' = Append(b, SnapshotMark)
      BY <2>1, <2>4, <2>5
    <2>8. \A i \in DOMAIN answers' : Decided(answers'[i])
      BY <1>4, <2>1, <2>3, <2>6, <2>7
    <2> QED
      BY <2>2, <2>8 DEF DecidedInv
  <1> QED
    BY <1>1, <1>2, <1>3, <1>5, <1>6, StreamWays DEF Serves

\* What is on its way stays there, or is looked at: a rejection ends the listening.
LEMMA AwaitsKeeps ==
    ASSUME WatchInv, BareWhenDown, Reads \/ Serves \/ (\E r \in Queries : Asks(r)),
           NEW q \in Forbidden, Awaits(q)
    PROVE  Awaits(q)'
  <1> SUFFICES ASSUME q \in targets'
               PROVE  \/ \E i \in DOMAIN sent' : sent'[i].kind = "watch" /\ sent'[i].query = q
                      \/ \E i \in DOMAIN answers' :
                            answers'[i].kind = "rejected" /\ answers'[i].query = q
    BY DEF Awaits, About
  <1>0. sent \in Seq(Request) /\ answers \in Seq(Message)
    BY DEF WatchInv, NetType, DataType
  <1>1. q \in targets =>
           \/ \E i \in DOMAIN sent : sent[i].kind = "watch" /\ sent[i].query = q
           \/ \E i \in DOMAIN answers : answers[i].kind = "rejected" /\ answers[i].query = q
    BY DEF Awaits, About
  <1>2. ASSUME NEW r \in Queries, Asks(r)
        PROVE  \/ \E i \in DOMAIN sent' : sent'[i].kind = "watch" /\ sent'[i].query = q
               \/ \E i \in DOMAIN answers' :
                     answers'[i].kind = "rejected" /\ answers'[i].query = q
    <2>1. /\ Watch(r) \in Request /\ Watch(r).kind = "watch" /\ Watch(r).query = r
          /\ Unwatch(r) \in Request
      BY DEF Watch, Unwatch, Request
    <2>2. PICK m \in Request :
             /\ sent' = Append(sent, m) /\ UNCHANGED answers
             /\ q \in targets \/ (m.kind = "watch" /\ m.query = q)
      BY <1>2, <2>1 DEF Asks
    <2>3. /\ sent'[Len(sent) + 1] = m /\ Len(sent) + 1 \in DOMAIN sent'
          /\ \A i \in DOMAIN sent : i \in DOMAIN sent' /\ sent'[i] = sent[i]
      BY <1>0, <2>2, AppendKeeps
    <2> QED
      BY <1>1, <2>2, <2>3
  <1>3. CASE Reads
    <2>1. /\ answers # << >> /\ answers' = Tail(answers) /\ UNCHANGED sent
          /\ targets' \subseteq targets
      BY <1>3 DEF Reads, TargetAdded, TargetRemoved, TargetCurrent, DocumentChange,
         TargetRejected, Snapshot, NextAnswer, Read
    <2>2. /\ answers[1] = Head(answers) /\ DOMAIN answers \subseteq Nat \ {0}
          /\ DOMAIN answers' = {i \in Nat : i # 0 /\ i + 1 \in DOMAIN answers}
          /\ \A i \in DOMAIN answers' : answers'[i] = answers[i + 1]
      BY <1>0, <2>1, TailMoves
    <2>3. ~(Head(answers).kind = "rejected" /\ Head(answers).query = q)
      <3> SUFFICES ASSUME Head(answers).kind = "rejected", Head(answers).query = q PROVE FALSE
        OBVIOUS
      <3>1. TargetRejected
        BY <1>3 DEF Reads, TargetAdded, TargetRemoved, TargetCurrent, DocumentChange,
           Snapshot, NextAnswer
      <3> QED
        BY <2>1, <3>1 DEF TargetRejected
    <2>4. ASSUME NEW i \in DOMAIN answers, answers[i].kind = "rejected", answers[i].query = q
          PROVE  \E j \in DOMAIN answers' :
                    answers'[j].kind = "rejected" /\ answers'[j].query = q
      <3>1. i # 1 /\ i \in Nat \ {0}
        BY <2>2, <2>3, <2>4
      <3>2. i - 1 \in Nat /\ i - 1 # 0 /\ (i - 1) + 1 = i
        BY <3>1
      <3>3. i - 1 \in DOMAIN answers' /\ answers'[i - 1] = answers[i]
        BY <2>2, <3>2
      <3> QED
        BY <2>4, <3>3
    <2> QED
      BY <1>1, <2>1, <2>4
  <1>4. CASE Serves
    <2>1. UNCHANGED targets
      BY <1>4, ServesWays
    <2>2. \A i \in DOMAIN answers : i \in DOMAIN answers' /\ answers'[i] = answers[i]
      <3>1. \A s \in Seq(Message), m \in Message :
               /\ Append(s, m) \in Seq(Message)
               /\ \A i \in DOMAIN s : i \in DOMAIN Append(s, m) /\ Append(s, m)[i] = s[i]
        BY AppendKeeps
      <3>2. CASE ServerSends
        <4>1. PICK d \in Message, c \in Message, z \in Message :
                 \/ answers' = Append(Append(answers, d), z)
                 \/ answers' = Append(Append(Append(answers, d), c), z)
          BY <3>2, SendsWays
        <4>2. PICK a \in Seq(Message) :
                 /\ a = Append(answers, d)
                 /\ \A i \in DOMAIN answers : i \in DOMAIN a /\ a[i] = answers[i]
          BY <1>0, <3>1
        <4>3. PICK b \in Seq(Message) :
                 b = Append(a, c) /\ \A i \in DOMAIN a : i \in DOMAIN b /\ b[i] = a[i]
          BY <3>1
        <4>4. answers' = Append(a, z) \/ answers' = Append(b, z)
          BY <4>1, <4>2, <4>3
        <4> QED
          BY <3>1, <4>2, <4>3, <4>4
      <3>3. CASE ServerWatches \/ ServerUnwatches
        <4>1. PICK r \in Queries : r = Head(sent).query
          BY <3>3, HeadRequest DEF ServerWatches, ServerUnwatches
        <4>2. /\ [kind |-> "rejected", query |-> r] \in Message
              /\ [kind |-> "added", query |-> r] \in Message
              /\ [kind |-> "removed", query |-> r] \in Message
          BY DEF Message
        <4>3. \/ answers' = Append(answers, [kind |-> "rejected", query |-> r])
              \/ answers' = Append(answers, [kind |-> "added", query |-> r])
              \/ answers' = Append(answers, [kind |-> "removed", query |-> r])
          BY <3>3, <4>1 DEF ServerWatches, ServerUnwatches
        <4> QED
          BY <1>0, <3>1, <4>2, <4>3
      <3> QED
        BY <1>4, <3>2, <3>3 DEF Serves
    <2>3. ASSUME NEW i \in DOMAIN sent, sent[i].kind = "watch", sent[i].query = q
          PROVE  \/ \E j \in DOMAIN sent' : sent'[j].kind = "watch" /\ sent'[j].query = q
                 \/ \E j \in DOMAIN answers' :
                       answers'[j].kind = "rejected" /\ answers'[j].query = q
      <3>1. sent # << >>
        BY <2>3
      <3>2. /\ sent[1] = Head(sent) /\ DOMAIN sent \subseteq Nat \ {0}
            /\ DOMAIN Tail(sent) = {j \in Nat : j # 0 /\ j + 1 \in DOMAIN sent}
            /\ \A j \in DOMAIN Tail(sent) : Tail(sent)[j] = sent[j + 1]
        BY <1>0, <3>1, TailMoves
      <3>3. CASE sent' = sent
        BY <2>3, <3>3
      <3>4. CASE i # 1 /\ sent' = Tail(sent)
        <4>1. i - 1 \in Nat /\ i - 1 # 0 /\ (i - 1) + 1 = i
          BY <3>2, <3>4
        <4>2. i - 1 \in DOMAIN sent' /\ sent'[i - 1] = sent[i]
          BY <3>2, <3>4, <4>1
        <4> QED
          BY <2>3, <4>2
      <3>5. CASE i = 1 /\ sent' = Tail(sent)
        <4>1. ServerWatches /\ Head(sent).query = q
          BY <1>4, <2>3, <3>2, <3>5
             DEF Serves, ServerWatches, ServerUnwatches, ServerSends
        <4>2. PICK m \in Message :
                 answers' = Append(answers, m) /\ m.kind = "rejected" /\ m.query = q
          <5>1. [kind |-> "rejected", query |-> q] \in Message
            BY WatchAssumptions DEF Message
          <5> QED
            BY <4>1, <5>1 DEF ServerWatches
        <4>3. Len(answers) + 1 \in DOMAIN answers' /\ answers'[Len(answers) + 1] = m
          BY <1>0, <4>2, AppendKeeps
        <4> QED
          BY <4>2, <4>3
      <3>6. sent' = sent \/ sent' = Tail(sent)
        BY <1>4 DEF Serves, ServerWatches, ServerUnwatches, ServerSends
      <3> QED
        BY <3>3, <3>4, <3>5, <3>6
    <2> QED
      BY <1>1, <2>1, <2>2, <2>3
  <1> QED
    BY <1>2, <1>3, <1>4

LEMMA BareKeeps ==
    ASSUME WatchInv, BareWhenDown, AssertionsHold, [Next]_vars
    PROVE  BareWhenDown'
  <1>1. CASE OpenStream
    BY <1>1, OpenAsks DEF BareWhenDown
  <1>2. CASE Reads
    <2>1. IsOpen(stream) /\ UNCHANGED stream
      BY <1>2 DEF Reads, TargetAdded, TargetRemoved, TargetCurrent, DocumentChange,
         TargetRejected, Snapshot, NextAnswer, Read
    <2> QED
      BY <2>1 DEF BareWhenDown, IsOpen
  <1>3. CASE Serves
    <2>1. UNCHANGED stream /\ (sent # << >> \/ DOMAIN serving # {})
      BY <1>3 DEF Serves, ServerWatches, ServerUnwatches, ServerSends
    <2>2. IsOpen(stream)
      BY <2>1 DEF BareWhenDown, Bare
    <2> QED
      BY <2>1, <2>2 DEF BareWhenDown, IsOpen
  <1>4. CASE StreamDown \/ \E q \in Queries : Asks(q)
    BY <1>4 DEF StreamDown, Asks, BareWhenDown
  <1>5. CASE StreamKept
    BY <1>5 DEF StreamKept, BareWhenDown, Bare
  <1> QED
    BY <1>1, <1>2, <1>3, <1>4, <1>5, StreamWays

LEMMA StreamInit == Init => StreamInv
  <1> SUFFICES ASSUME Init PROVE StreamInv
    OBVIOUS
  <1>1. ~IsOpen(stream) /\ Bare
    BY DEF Init, NewStream, IsOpen, Bare
  <1> QED
    BY <1>1 DEF StreamInv, BareWhenDown, DecidedInv, Bare

LEMMA StreamStep ==
    ASSUME WatchInv, AssertionsHold, StreamInv, [Next]_vars
    PROVE  StreamInv'
  <1>0. BareWhenDown /\ DecidedInv
    BY DEF StreamInv
  <1>1. BareWhenDown'
    BY <1>0, BareKeeps
  <1>2. DecidedInv'
    BY <1>0, OpenAsks, DecidedKeeps
  <1>3. ASSUME IsOpen(stream')
        PROVE  /\ \A q \in Queries \ Forbidden : Owes(q)' /\ Agrees(q)'
               /\ \A q \in Forbidden : Awaits(q)'
    <2>1. CASE OpenStream
      BY <1>0, <2>1, WatchAssumptions, OpeningKeeps
    <2>2. CASE Reads \/ Serves \/ \E r \in Queries : Asks(r)
      <3>1. IsOpen(stream)
        <4>1. CASE Reads
          BY <4>1 DEF Reads, TargetAdded, TargetRemoved, TargetCurrent, DocumentChange,
             TargetRejected, Snapshot, NextAnswer
        <4>2. CASE Serves
          BY <1>3, <4>2, ServesWays
        <4> QED
          BY <2>2, <4>1, <4>2 DEF Asks
      <3>2. /\ \A q \in Queries \ Forbidden : Owes(q) /\ Agrees(q)
            /\ \A q \in Forbidden : Awaits(q)
        BY <3>1 DEF StreamInv
      <3>3. ASSUME NEW q \in Queries \ Forbidden PROVE Owes(q)' /\ Agrees(q)'
        BY <1>0, <2>2, <3>2, AskingKeeps, ReadingKeeps, ServingKeeps
      <3>4. ASSUME NEW q \in Forbidden PROVE Awaits(q)'
        BY <1>0, <2>2, <3>2, AwaitsKeeps
      <3> QED
        BY <3>3, <3>4
    <2>3. CASE StreamDown
      BY <1>3, <2>3 DEF StreamDown
    <2>4. CASE StreamKept
      <3>1. IsOpen(stream) /\ UNCHANGED <<targets, states, sent, answers, serving>>
        BY <1>3, <2>4 DEF StreamKept
      <3> QED
        BY <3>1 DEF StreamInv, Owes, Agrees, Awaits, Asked, Settled, About, State
    <2> QED
      BY <1>0, <2>1, <2>2, <2>3, <2>4, StreamWays
  <1> QED
    BY <1>1, <1>2, <1>3 DEF StreamInv

LEMMA StreamAlways == Spec => [](WatchInv /\ AssertionsHold /\ StreamInv)
  <1>1. WatchInv /\ AssertionsHold /\ StreamInv /\ [Next]_vars => StreamInv'
    BY StreamStep
  <1>2. Spec => []WatchInv
    BY HealthAlways, PTL
  <1> QED
    BY <1>1, <1>2, StreamInit, NoAssertionFails, PTL DEF Spec

\* Whatever is asked, given up, answered out of turn or lost with the stream, the
\* count of a target is of what is on its way, and no count is ever left over.
THEOREM OwedIsCounted == Spec => []OwedIsOnItsWay
  <1>1. StreamInv => OwedIsOnItsWay
    BY DEF StreamInv, OwedIsOnItsWay, Owes, Asked, Settled
  <1> QED
    BY <1>1, StreamAlways, PTL

\* The server ends up watching what the client listens to, and nothing else.
THEOREM ServerAgrees == Spec => []ServerWillAgree
  <1>1. ASSUME WatchInv, StreamInv PROVE ServerWillAgree
    <2> SUFFICES ASSUME IsOpen(stream) PROVE ServerWillAgree
      BY DEF ServerWillAgree
    <2>1. ASSUME NEW q \in Queries \ Forbidden, NEW asked, asked = Asked(q)
          PROVE  q \in targets <=> IF asked # {} THEN sent[Max(asked)].kind = "watch"
                                   ELSE q \in DOMAIN serving
      <3>1. Agrees(q)
        BY <1>1 DEF StreamInv
      <3>2. CASE asked = {}
        BY <2>1, <3>1, <3>2 DEF Agrees
      <3>3. CASE asked # {}
        <4>1. /\ asked \in SUBSET Nat /\ Len(sent) \in Nat
              /\ \A i \in asked : i <= Len(sent)
          <5>1. sent \in Seq(Request)
            BY <1>1 DEF WatchInv, NetType
          <5>2. DOMAIN sent = 1 .. Len(sent) /\ Len(sent) \in Nat
            BY <5>1
          <5>3. asked \subseteq DOMAIN sent
            BY <2>1 DEF Asked, About
          <5> QED
            BY <5>2, <5>3
        <4>2. Max(asked) \in asked /\ \A j \in asked : Max(asked) >= j
          BY <3>3, <4>1, MaxOfBounded
        <4>3. \A j \in asked : j <= Max(asked)
          BY <4>1, <4>2
        <4> QED
          BY <2>1, <3>1, <3>3, <4>2, <4>3 DEF Agrees
      <3> QED
        BY <3>2, <3>3
    <2>2. \A q \in Forbidden : Awaits(q)
      BY <1>1 DEF StreamInv
    <2> QED
      BY <2>1, <2>2 DEF ServerWillAgree, Asked, Awaits
  <1> QED
    BY <1>1, StreamAlways, PTL

(***************************************************************************)
(* An answer in sync is no older than the listening                        *)
(***************************************************************************)

\* The documents of q in the cache, or about to go there, are fresh: at least as new
\* as those the server had when the view was made.
InCache(q) == cache[q] >= since[q]
InHand(q)  == InCache(q) \/ (q \in DOMAIN docs /\ docs[q] >= since[q])

Fresh(s) == \A k \in DOMAIN s : s[k].from = "synced" => s[k].version >= s[k].since

\* What changed of a target that counts is fresh.
HandFresh(q) ==
    q \in DOMAIN states /\ states[q].owed = 0 /\ states[q].changed => InHand(q)

\* A document of the last listen to q, which no answer to a request follows, is
\* fresh; and it is read just before the mark that q is current.
FreshDocument(q, m) == m.kind = "document" /\ m.query = q /\ m.version >= since[q]

LastListen(q, a, i) == \A j \in About(q, a, {"added", "removed"}) : j <= i

FreshAnswers(q, a) ==
    \A i \in DOMAIN a :
        LastListen(q, a, i) /\ a[i].kind \in {"document", "current"} /\ a[i].query = q =>
            /\ a[i].kind = "document" => FreshDocument(q, a[i])
            /\ a[i].kind = "current" => IF i = 1 THEN InHand(q) ELSE FreshDocument(q, a[i - 1])

AnswersFresh(q) == Asked(q) = {} => FreshAnswers(q, answers)

\* What the server rejects is never current.
NeverCurrent == \A q \in Forbidden : q \notin current /\ State(q).current = FALSE

FreshInv ==
    /\ Fresh(main) /\ Fresh(told)
    /\ \A q \in Queries : since[q] <= version[q]
    /\ \A q \in current : InCache(q)
    /\ NeverCurrent
    /\ \A q \in targets \ Forbidden : HandFresh(q) /\ AnswersFresh(q)

\* Of what is answered, the fresh answers stay so.
LEMMA PostsFresh ==
    ASSUME main \in Seq(Answer), NEW gets, NEW kinds, Posts(gets, kinds), Fresh(main),
           \A q \in current' : InCache(q)'
    PROVE  Fresh(main')
  <1>1. PICK s \in Seq(Answer) :
           /\ main' = main \o s
           /\ \A k \in DOMAIN s : s[k].from = "synced" =>
                 \E q \in current' : s[k].version = cache'[q] /\ s[k].since = since'[q]
    BY DEF Posts
  <1>2. \A k \in DOMAIN s : s[k].from = "synced" => s[k].version >= s[k].since
    BY <1>1 DEF InCache
  <1>3. \A k \in DOMAIN (main \o s) :
           \/ k \in DOMAIN main /\ (main \o s)[k] = main[k]
           \/ k - Len(main) \in DOMAIN s /\ (main \o s)[k] = s[k - Len(main)]
    BY <1>1
  <1> QED
    BY <1>1, <1>2, <1>3 DEF Fresh

LEMMA ToldFresh ==
    ASSUME WatchInv, WatchInv', FreshInv, \A q \in current' : InCache(q)', [Next]_vars
    PROVE  Fresh(main') /\ Fresh(told')
  <1>0. main \in Seq(Answer) /\ told \in Seq(Answer) /\ Fresh(main) /\ Fresh(told) /\ DataType'
    BY DEF WatchInv, AppType, FreshInv
  <1>1. CASE OnEvent
    <2>1. /\ main # << >> /\ main' = Tail(main)
          /\ told' = told \/ told' = Append(told, Head(main))
      BY <1>1 DEF OnEvent
    <2>2. /\ Head(main) \in Answer /\ 1 \in DOMAIN main /\ main[1] = Head(main)
          /\ \A k \in DOMAIN main' : k + 1 \in DOMAIN main /\ main'[k] = main[k + 1]
      BY <1>0, <2>1, TailMoves
    <2>3. Fresh(main')
      BY <1>0, <2>2 DEF Fresh
    <2>4. CASE told' = told
      BY <1>0, <2>3, <2>4
    <2>5. CASE told' = Append(told, Head(main))
      <3>1. \A k \in DOMAIN told' : \/ k \in DOMAIN told /\ told'[k] = told[k]
                                    \/ told'[k] = Head(main)
        BY <1>0, <2>2, <2>5, AppendKeeps
      <3>2. Head(main).from = "synced" => Head(main).version >= Head(main).since
        BY <1>0, <2>2 DEF Fresh
      <3>3. Fresh(told')
        BY <1>0, <3>1, <3>2 DEF Fresh
      <3> QED
        BY <2>3, <3>3
    <2> QED
      BY <2>1, <2>4, <2>5
  <1>2. CASE AnswerSome \/ ListenTask \/ RejectSome
    <2>1. UNCHANGED told /\ \E gets, kinds : Posts(gets, kinds)
      BY <1>2 DEF AnswerSome, ListenTask, RejectSome
    <2> QED
      BY <1>0, <2>1, PostsFresh
  <1>3. CASE RemoveTask \/ Get \/ UNCHANGED vars
    <2>1. UNCHANGED <<main, told>>
      BY <1>3 DEF RemoveTask, Get, vars, app
    <2> QED
      BY <1>0, <2>1
  <1> QED
    BY <1>0, <1>1, <1>2, <1>3, ReadsStep

\* While there is a view of q its beginning does not change, nor does the cache lose
\* what it has, nor the server.
LEMMA TimesKeep ==
    ASSUME WatchInv, WatchInv', FreshInv, [Next]_vars
    PROVE  \A q \in Queries : /\ q \in views => since'[q] = since[q]
                              /\ cache'[q] >= cache[q]
                              /\ since'[q] <= version'[q]
  <1>0. /\ since \in [Queries -> Int] /\ cache \in [Queries -> Int]
        /\ version \in [Queries -> Int]
        /\ \A q \in Queries : since[q] <= version[q]
    <2>1. Versions \subseteq Int
      BY WatchAssumptions DEF Versions
    <2> QED
      BY <2>1 DEF WatchInv, DataType, FreshInv
  <1>1. CASE Listen
    <2>1. PICK r : /\ r \notin views /\ since' = [since EXCEPT ![r] = version[r]]
                   /\ UNCHANGED <<cache, version>>
      BY <1>1 DEF Listen
    <2> QED
      BY <1>0, <2>1
  <1>2. CASE Snapshot
    <2>1. PICK newDocs :
             /\ \A q \in newDocs : docs[q] > cache[q]
             /\ newDocs \subseteq DOMAIN docs
             /\ cache' = [q \in Queries |-> IF q \in newDocs THEN docs[q] ELSE cache[q]]
      BY <1>2 DEF Snapshot
    <2>2. UNCHANGED <<since, version>>
      BY <1>2 DEF Snapshot, Read
    <2>3. \A q \in DOMAIN docs : docs[q] \in Int
      BY WatchAssumptions DEF WatchInv, DataType, Versions
    <2> QED
      BY <1>0, <2>1, <2>2, <2>3
  <1>3. CASE ServerChanges
    <2>1. PICK r \in Queries : version' = [version EXCEPT ![r] = @ + 1]
      BY <1>3 DEF ServerChanges
    <2>2. UNCHANGED <<since, cache>>
      BY <1>3 DEF ServerChanges, engine
    <2> QED
      BY <1>0, <2>1, <2>2
  <1>4. CASE UNCHANGED <<since, cache, version>>
    BY <1>0, <1>4
  <1>5. CASE TargetRejected
    <2>1. UNCHANGED <<since, cache, version>>
      BY <1>5 DEF TargetRejected, Read, engine
    <2> QED
      BY <1>4, <2>1
  <1>6. CASE ConnectionLost \/ TokenFails
    <2>1. UNCHANGED <<since, cache, version>>
      BY <1>6 DEF ConnectionLost, TokenFails, WatchStreamBroken
    <2> QED
      BY <1>4, <2>1
  <1>7. CASE JoinListeners \/ RemoveListener \/ DropToken \/ OpenStream \/ Serves
             \/ TokenArrives \/ OnEvent \/ BackoffTimer \/ IdleTimer \/ OnlineTimer \/ Get
             \/ NetworkRestarts \/ TargetAdded \/ TargetRemoved \/ TargetCurrent
             \/ DocumentChange \/ UNCHANGED vars
    <2>1. UNCHANGED <<since, cache, version>>
      BY <1>7 DEF JoinListeners, RemoveListener, DropToken, OpenStream, Serves,
         ServerWatches, ServerUnwatches, ServerSends, TokenArrives, OnEvent, BackoffTimer,
         IdleTimer, OnlineTimer, Get, NetworkRestarts, TargetAdded, TargetRemoved,
         TargetCurrent, DocumentChange, Read, engine, vars
    <2> QED
      BY <1>4, <2>1
  <1> QED
    BY <1>1, <1>2, <1>3, <1>5, <1>6, <1>7 DEF Next, Tasks, Reads, Faults

\* Outside of a snapshot no view becomes current.
LEMMA CurrentShrinks ==
    ASSUME [Next]_vars, ~Snapshot
    PROVE  current' \subseteq current
  <1>1. CASE RemoveListener \/ TargetRejected
    BY <1>1 DEF RemoveListener, TargetRejected
  <1>2. CASE ConnectionLost \/ TokenFails \/ OnlineTimer
    <2>1. Broadcast
      BY <1>2 DEF ConnectionLost, TokenFails, OnlineTimer, WatchStreamBroken
    <2> QED
      BY <2>1 DEF Broadcast
  <1>3. CASE JoinListeners \/ Listen \/ DropToken \/ OpenStream \/ Serves
             \/ TokenArrives \/ OnEvent \/ BackoffTimer \/ IdleTimer \/ Get \/ ServerChanges
             \/ NetworkRestarts \/ TargetAdded \/ TargetRemoved \/ TargetCurrent
             \/ DocumentChange \/ UNCHANGED vars
    BY <1>3 DEF JoinListeners, Listen, DropToken, OpenStream, Serves,
       ServerWatches, ServerUnwatches, ServerSends, TokenArrives, OnEvent, BackoffTimer,
       IdleTimer, Get, ServerChanges, NetworkRestarts, TargetAdded, TargetRemoved,
       TargetCurrent, DocumentChange, Read, vars
  <1> QED
    BY <1>1, <1>2, <1>3 DEF Next, Tasks, Reads, Faults

\* What a snapshot does to a query: the newer documents go to the cache, and what
\* changed of a target that counts is settled.
LEMMA SnapshotParts ==
    ASSUME WatchInv, RegistriesAgree, Snapshot, NEW q \in Queries
    PROVE  /\ cache'[q] = IF q \in DOMAIN docs /\ docs[q] > cache[q] THEN docs[q] ELSE cache[q]
           /\ q \in current' =>
                 \/ q \in current
                 \/ /\ q \in targets /\ q \in DOMAIN states /\ states[q].owed = 0
                    /\ states[q].changed /\ states[q].current
           /\ DOMAIN states' = DOMAIN states
           /\ q \in DOMAIN states =>
                 /\ states'[q].owed = states[q].owed /\ states'[q].current = states[q].current
                 /\ q \in targets /\ states'[q].owed = 0 => ~states'[q].changed
  <1>1. PICK changed :
           /\ changed = {r \in DOMAIN states : IsActive(r) /\ states[r].changed}
           /\ states' = [r \in DOMAIN states |-> [states[r] EXCEPT
                                !.changed = @ /\ r \notin changed]]
           /\ current' = {r \in views : IF r \in changed THEN states[r].current
                                        ELSE r \in current}
    BY DEF Snapshot
  <1>2. cache'[q] = IF q \in DOMAIN docs /\ docs[q] > cache[q] THEN docs[q] ELSE cache[q]
    BY DEF Snapshot
  <1>3. views = targets
    BY DEF RegistriesAgree
  <1>4. q \in current' => \/ q \in current
                          \/ /\ q \in targets /\ q \in DOMAIN states /\ states[q].owed = 0
                             /\ states[q].changed /\ states[q].current
    BY <1>1, <1>3 DEF IsActive, State
  <1>5. ASSUME q \in DOMAIN states
        PROVE  /\ states'[q].owed = states[q].owed /\ states'[q].current = states[q].current
               /\ q \in targets /\ states'[q].owed = 0 => ~states'[q].changed
    <2>1. PICK t \in TargetState : t = states[q] /\ State(q) = t
      BY <1>5 DEF WatchInv, NetType, StatesType, State
    <2>2. states'[q] = [t EXCEPT !.changed = @ /\ q \notin changed]
      BY <1>1, <1>5, <2>1
    <2>3. /\ states'[q].owed = t.owed /\ states'[q].current = t.current
          /\ states'[q].changed = (t.changed /\ q \notin changed)
      BY <2>2 DEF TargetState
    <2>4. q \in targets /\ t.owed = 0 /\ t.changed => q \in changed
      BY <1>1, <1>5, <2>1 DEF IsActive
    <2> QED
      BY <2>1, <2>3, <2>4
  <1>6. DOMAIN states' = DOMAIN states
    BY <1>1
  <1> QED
    BY <1>2, <1>4, <1>5, <1>6

LEMMA NeverCurrentKeeps ==
    ASSUME WatchInv, RegistriesAgree, StreamInv, NeverCurrent, [Next]_vars
    PROVE  NeverCurrent'
  <1> SUFFICES ASSUME NEW q \in Forbidden PROVE q \notin current' /\ State(q)'.current = FALSE
    BY DEF NeverCurrent
  <1>0. /\ q \in Queries /\ StatesType /\ BareWhenDown /\ DecidedInv /\ NewTarget.current = FALSE
        /\ q \notin current /\ State(q).current = FALSE
    BY WatchAssumptions
       DEF WatchInv, NetType, StreamInv, NewTarget, NeverCurrent
  <1>1. q \notin current'
    <2>1. CASE Snapshot
      BY <1>0, <2>1, SnapshotParts DEF State
    <2> QED
      BY <1>0, <2>1, CurrentShrinks
  <1>2. UNCHANGED states => State(q)'.current = FALSE
    BY <1>0 DEF State
  <1>3. \A r, t : states' = Put(states, r, t) /\ (r = q => t.current = FALSE)
                     => State(q)'.current = FALSE
    BY <1>0, StatePut
  <1>4. \A r : states' = Without(states, r) => State(q)'.current = FALSE
    BY <1>0, StateWithout
  <1>5. State(q)'.current = FALSE
    <2>1. CASE StreamKept
      BY <1>2, <2>1 DEF StreamKept
    <2>2. CASE StreamDown
      BY <1>0, <2>2 DEF StreamDown, Bare, State
    <2>3. CASE OpenStream
      <3>1. states' = [r \in targets |-> [NewTarget EXCEPT !.owed = 1]]
        BY <2>3 DEF OpenStream
      <3>2. [NewTarget EXCEPT !.owed = 1].current = FALSE
        BY DEF NewTarget
      <3> QED
        BY <1>0, <3>1, <3>2 DEF State
    <2>4. ASSUME NEW r \in Queries, Asks(r) PROVE State(q)'.current = FALSE
      <3>1. PICK s \in TargetState : s = State(r)
        BY <1>0, StateTypes
      <3>2. PICK t : states' = Put(states, r, t) /\ t.current = s.current
        <4>1. [s EXCEPT !.owed = @ + 1].current = s.current
          BY DEF TargetState
        <4> QED
          BY <2>4, <3>1, <4>1 DEF Asks, Owing
      <3> QED
        BY <1>0, <1>3, <3>1, <3>2
    <2>5. CASE Serves
      BY <1>2, <2>5, ServesWays
    <2> DEFINE r == Head(answers).query
    <2>6. PICK s \in TargetState : s = State(r)
      BY <1>0, StateTypes
    <2>7. CASE TargetAdded
      <3>1. PICK t : states' = Put(states, r, t) /\ t.current = s.current
        BY <2>6, <2>7 DEF TargetAdded, Added
      <3> QED
        BY <1>0, <1>3, <2>6, <3>1
    <2>8. CASE TargetRemoved
      <3>1. [s EXCEPT !.owed = s.owed - 1].current = s.current
        BY DEF TargetState
      <3>2. \/ states' = Without(states, r)
            \/ \E t : states' = Put(states, r, t) /\ t.current = s.current
        BY <2>6, <2>8, <3>1 DEF TargetRemoved, Removed
      <3> QED
        BY <1>0, <1>3, <1>4, <2>6, <3>2
    <2>9. CASE TargetCurrent
      <3>1. r # q
        <4>1. Head(answers).kind = "current" /\ answers # << >>
          BY <2>9 DEF TargetCurrent, NextAnswer
        <4>2. Decided(Head(answers))
          BY <1>0, <4>1, HeadAnswer DEF DecidedInv
        <4> QED
          BY <4>1, <4>2 DEF Decided
      <3>2. PICK t : states' = Put(states, r, t)
        BY <2>9 DEF TargetCurrent, Current
      <3> QED
        BY <1>3, <3>1, <3>2
    <2>10. CASE DocumentChange
      <3>1. [s EXCEPT !.changed = TRUE].current = s.current
        BY DEF TargetState
      <3>2. UNCHANGED states \/ \E t : states' = Put(states, r, t) /\ t.current = s.current
        BY <2>6, <2>10, <3>1 DEF DocumentChange, Document
      <3> QED
        BY <1>0, <1>2, <1>3, <2>6, <3>2
    <2>11. CASE TargetRejected
      BY <1>2, <1>4, <2>11 DEF TargetRejected
    <2>12. CASE Snapshot
      BY <1>0, <2>12, SnapshotParts DEF State
    <2> QED
      BY <1>0, <2>1, <2>2, <2>3, <2>4, <2>5, <2>7, <2>8, <2>9, <2>10, <2>11, <2>12,
         StreamWays DEF Reads
  <1> QED
    BY <1>1, <1>5

\* A view becomes current only with documents that are fresh.
LEMMA CurrentFresh ==
    ASSUME WatchInv, WatchInv', RegistriesAgree, FreshInv, [Next]_vars
    PROVE  \A q \in current' : InCache(q)'
  <1>0. /\ since \in [Queries -> Int] /\ cache \in [Queries -> Int] /\ current \subseteq views
        /\ views \subseteq Queries /\ views = targets /\ current' \subseteq Queries
        /\ \A q \in DOMAIN docs : docs[q] \in Int
        /\ since' \in [Queries -> Int] /\ cache' \in [Queries -> Int]
    <2>1. Versions \subseteq Int
      BY WatchAssumptions DEF Versions
    <2> QED
      BY <2>1 DEF WatchInv, DataType, RegistriesAgree
  <1>1. \A q \in Queries : (q \in views => since'[q] = since[q]) /\ cache'[q] >= cache[q]
    BY TimesKeep
  <1>2. ASSUME NEW q \in current PROVE InCache(q)'
    <2>1. cache[q] >= since[q] /\ q \in Queries /\ q \in views
      BY <1>0 DEF FreshInv, InCache
    <2>2. cache'[q] >= cache[q] /\ since'[q] = since[q]
      BY <1>1, <2>1
    <2>3. cache'[q] >= since'[q]
      BY <1>0, <2>1, <2>2
    <2> QED
      BY <2>3 DEF InCache
  <1>3. ASSUME Snapshot, NEW q \in current', q \notin current PROVE InCache(q)'
    <2>1. /\ q \in targets /\ q \in DOMAIN states /\ states[q].owed = 0
          /\ states[q].changed /\ states[q].current /\ q \in Queries
          /\ cache'[q] = IF q \in DOMAIN docs /\ docs[q] > cache[q] THEN docs[q] ELSE cache[q]
      BY <1>0, <1>3, SnapshotParts
    <2>2. q \notin Forbidden
      BY <2>1 DEF FreshInv, NeverCurrent, State
    <2>3. cache[q] >= since[q] \/ (q \in DOMAIN docs /\ docs[q] >= since[q])
      BY <2>1, <2>2 DEF FreshInv, HandFresh, InHand, InCache
    <2>4. since'[q] = since[q]
      BY <1>0, <1>1, <2>1
    <2>5. cache'[q] >= since'[q]
      BY <1>0, <2>1, <2>3, <2>4
    <2> QED
      BY <2>5 DEF InCache
  <1> QED
    BY <1>2, <1>3, CurrentShrinks

\* A message that is put at the end leaves the answers fresh if it is itself.
LEMMA FreshAppend ==
    ASSUME NEW q, NEW a \in Seq(Message), NEW m \in Message, FreshAnswers(q, a),
           \/ m.kind \notin {"document", "current"}
           \/ m.query # q
           \/ FreshDocument(q, m)
           \/ m.kind = "current" /\ a # << >> /\ FreshDocument(q, a[Len(a)])
    PROVE  FreshAnswers(q, Append(a, m))
  <1> DEFINE b == Append(a, m)
             n == Len(a) + 1
  <1>1. /\ Len(a) \in Nat /\ DOMAIN a = 1 .. Len(a) /\ DOMAIN b = DOMAIN a \cup {n}
        /\ b[n] = m /\ \A i \in DOMAIN a : b[i] = a[i]
    BY AppendKeeps
  <1>2. a # << >> => Len(a) # 0
    OBVIOUS
  <1> HIDE DEF b
  <1>3. ASSUME NEW i \in DOMAIN a, LastListen(q, b, i) PROVE LastListen(q, a, i)
    BY <1>1, <1>3 DEF LastListen, About
  <1>4. ASSUME NEW i \in DOMAIN a, LastListen(q, b, i), b[i].kind \in {"document", "current"},
               b[i].query = q
        PROVE  /\ b[i].kind = "document" => FreshDocument(q, b[i])
               /\ b[i].kind = "current" => IF i = 1 THEN InHand(q)
                                           ELSE FreshDocument(q, b[i - 1])
    <2>1. b[i] = a[i] /\ (i # 1 => b[i - 1] = a[i - 1])
      BY <1>1
    <2> QED
      BY <1>3, <1>4, <2>1 DEF FreshAnswers
  <1>5. ASSUME b[n].kind \in {"document", "current"}, b[n].query = q
        PROVE  /\ b[n].kind = "document" => FreshDocument(q, b[n])
               /\ b[n].kind = "current" => IF n = 1 THEN InHand(q)
                                           ELSE FreshDocument(q, b[n - 1])
    <2>1. CASE m.kind = "document"
      BY <1>1, <1>5, <2>1
    <2>2. CASE m.kind = "current"
      <3>1. a # << >> /\ FreshDocument(q, a[Len(a)])
        BY <1>1, <1>5, <2>2 DEF FreshDocument
      <3>2. n # 1 /\ n - 1 = Len(a) /\ Len(a) \in DOMAIN a
        BY <1>1, <1>2, <3>1
      <3>3. b[n - 1] = a[Len(a)]
        BY <1>1, <3>2
      <3> QED
        BY <1>1, <2>2, <3>1, <3>2, <3>3
    <2> QED
      BY <1>1, <1>5, <2>1, <2>2
  <1> QED
    BY <1>1, <1>4, <1>5 DEF FreshAnswers, b

\* No document precedes the answer to a request that is the last.
LEMMA FreshListen ==
    ASSUME NEW a \in Seq(Message), NEW m \in Message, m.kind \in {"added", "removed"}
    PROVE  FreshAnswers(m.query, Append(a, m))
  <1> DEFINE b == Append(a, m)
             n == Len(a) + 1
  <1>1. /\ Len(a) \in Nat /\ DOMAIN a = 1 .. Len(a) /\ DOMAIN b = DOMAIN a \cup {n}
        /\ b[n] = m
    BY AppendKeeps
  <1> HIDE DEF b
  <1>2. n \in About(m.query, b, {"added", "removed"})
    BY <1>1 DEF About
  <1>3. ASSUME NEW i \in DOMAIN b, LastListen(m.query, b, i) PROVE i = n
    BY <1>1, <1>2, <1>3 DEF LastListen
  <1>4. b[n].kind \notin {"document", "current"}
    BY <1>1
  <1> QED
    BY <1>3, <1>4 DEF FreshAnswers, b

\* When the head is read the answers that follow stay fresh, if what makes the next
\* one fresh is then in hand.
LEMMA FreshReads ==
    ASSUME WatchInv, answers # << >>, answers' = Tail(answers), NEW q,
           since'[q] = since[q], FreshAnswers(q, answers),
           Settled(q) = {} /\ FreshDocument(q, Head(answers)) => InHand(q)'
    PROVE  FreshAnswers(q, answers)'
  <1> DEFINE a == answers
             b == answers'
  <1>1. /\ a \in Seq(Message) /\ a[1] = Head(a)
        /\ DOMAIN b = {i \in Nat : i # 0 /\ i + 1 \in DOMAIN a}
        /\ \A i \in DOMAIN b : b[i] = a[i + 1]
        /\ DOMAIN a \subseteq Nat \ {0}
    <2>1. answers \in Seq(Message)
      BY DEF WatchInv, DataType
    <2> QED
      BY <2>1, TailMoves
  <1>2. ASSUME NEW i \in DOMAIN b, LastListen(q, b, i) PROVE LastListen(q, a, i + 1)
    <2> SUFFICES ASSUME NEW j \in About(q, a, {"added", "removed"}) PROVE j <= i + 1
      BY DEF LastListen
    <2>1. j \in DOMAIN a /\ j \in Nat \ {0} /\ i \in Nat \ {0}
      BY <1>1 DEF About
    <2>2. CASE j # 1
      <3>1. j - 1 \in Nat /\ j - 1 # 0 /\ (j - 1) + 1 = j
        BY <2>1, <2>2
      <3>2. j - 1 \in DOMAIN b /\ b[j - 1] = a[j]
        BY <1>1, <2>1, <3>1
      <3>3. j - 1 \in About(q, b, {"added", "removed"})
        BY <3>2 DEF About
      <3>4. j - 1 <= i
        BY <1>2, <3>3 DEF LastListen
      <3> QED
        BY <2>1, <3>4
    <2> QED
      BY <2>1, <2>2
  <1>3. ASSUME NEW i \in DOMAIN b, LastListen(q, b, i), b[i].kind \in {"document", "current"},
               b[i].query = q
        PROVE  /\ b[i].kind = "document" => FreshDocument(q, b[i])
               /\ b[i].kind = "current" => IF i = 1 THEN InHand(q)'
                                           ELSE FreshDocument(q, b[i - 1])
    <2>0. i \in Nat /\ i # 0 /\ i + 1 \in DOMAIN a /\ b[i] = a[i + 1]
      BY <1>1
    <2>1. /\ i \in Nat \ {0} /\ i + 1 \in DOMAIN a /\ b[i] = a[i + 1] /\ i + 1 # 1
          /\ (i + 1) - 1 = i
      BY <2>0
    <2>2. /\ a[i + 1].kind = "document" => FreshDocument(q, a[i + 1])
          /\ a[i + 1].kind = "current" => FreshDocument(q, a[i])
      BY <1>2, <1>3, <2>1 DEF FreshAnswers
    <2>3. CASE i # 1
      <3>1. i - 1 \in Nat \ {0} /\ (i - 1) + 1 = i
        BY <2>1, <2>3
      <3>2. i \in DOMAIN a
        <4>1. a \in Seq(Message)
          BY <1>1
        <4>2. DOMAIN a = 1 .. Len(a) /\ Len(a) \in Nat
          BY <4>1
        <4> QED
          BY <2>1, <4>2
      <3>3. i - 1 \in DOMAIN b /\ b[i - 1] = a[i]
        BY <1>1, <3>1, <3>2
      <3> QED
        BY <2>1, <2>2, <2>3, <3>3
    <2>4. CASE i = 1 /\ a[2].kind = "current"
      <3>1. FreshDocument(q, Head(a))
        BY <1>1, <2>1, <2>2, <2>4
      <3>2. LastListen(q, a, 2)
        BY <1>2, <1>3, <2>4
      <3>3. Settled(q) = {}
        <4> SUFFICES ASSUME NEW j \in Settled(q) PROVE FALSE
          OBVIOUS
        <4>1. j \in DOMAIN a /\ j \in Nat \ {0} /\ a[j].kind \in {"added", "removed"}
          BY <1>1 DEF Settled, About
        <4>2. j <= 2
          BY <3>2 DEF LastListen, Settled
        <4>3. j # 1
          BY <1>1, <3>1, <4>1 DEF FreshDocument
        <4>4. j # 2
          BY <2>4, <4>1
        <4> QED
          BY <4>1, <4>2, <4>3, <4>4
      <3> QED
        BY <2>1, <2>2, <2>4, <3>1, <3>3
    <2> QED
      BY <2>1, <2>2, <2>3, <2>4
  <1>4. \A m : FreshDocument(q, m)' <=> FreshDocument(q, m)
    BY DEF FreshDocument
  <1> QED
    BY <1>3 DEF FreshAnswers, LastListen, FreshDocument

\* While a request about q is on its way, nothing that was answered counts.
LEMMA AskedIsOwed ==
    ASSUME WatchInv', StreamInv', IsOpen(stream'), NEW q \in Queries \ Forbidden,
           Asked(q)' # {}
    PROVE  HandFresh(q)' /\ AnswersFresh(q)'
  <1>1. sent' \in Seq(Request) /\ answers' \in Seq(Message)
    BY DEF WatchInv, NetType, DataType
  <1>2. PICK x : x = Asked(q)' /\ Cardinality(x) \in Nat /\ Cardinality(x) # 0
    BY <1>1, AboutFinite DEF Asked
  <1>3. PICK y : y = Settled(q)' /\ Cardinality(y) \in Nat
    BY <1>1, AboutFinite DEF Settled
  <1>4. State(q)'.owed = Cardinality(x) + Cardinality(y)
    BY <1>2, <1>3 DEF StreamInv, Owes
  <1>5. State(q)'.owed # 0
    BY <1>2, <1>3, <1>4
  <1>6. HandFresh(q)'
    BY <1>5 DEF HandFresh, State
  <1> QED
    BY <1>6 DEF AnswersFresh

\* A target without requests or answers to them on their way counts.
LEMMA NothingOwed ==
    ASSUME WatchInv, StreamInv, IsOpen(stream), NEW q \in Queries \ Forbidden,
           Asked(q) = {}, Settled(q) = {}
    PROVE  State(q).owed = 0
  <1>1. Cardinality(Asked(q)) = 0 /\ Cardinality(Settled(q)) = 0
    BY FS_EmptySet
  <1> QED
    BY <1>1 DEF StreamInv, Owes

\* As long as the documents about to go to the cache stay, what is in hand does.
LEMMA InHandStays ==
    ASSUME WatchInv, WatchInv', RegistriesAgree, FreshInv, [Next]_vars,
           NEW q \in targets,
           q \in DOMAIN docs => q \in DOMAIN docs' /\ docs'[q] = docs[q]
    PROVE  since'[q] = since[q] /\ (InHand(q) => InHand(q)')
  <1>1. /\ q \in Queries /\ q \in views /\ cache[q] \in Int /\ cache'[q] \in Int
        /\ since[q] \in Int
    <2>1. Versions \subseteq Int
      BY WatchAssumptions DEF Versions
    <2> QED
      BY <2>1 DEF WatchInv, DataType, RegistriesAgree
  <1>2. since'[q] = since[q] /\ cache'[q] >= cache[q]
    BY <1>1, TimesKeep
  <1>3. cache[q] >= since[q] => cache'[q] >= since'[q]
    BY <1>1, <1>2
  <1> QED
    BY <1>2, <1>3 DEF InHand, InCache

\* Asking for another query changes nothing for this one.
LEMMA AskingFresh ==
    ASSUME WatchInv, WatchInv', RegistriesAgree, StreamInv, StreamInv', FreshInv,
           [Next]_vars, NEW r \in Queries, Asks(r), NEW q \in targets' \ Forbidden
    PROVE  HandFresh(q)' /\ AnswersFresh(q)'
  <1>0. q \in Queries /\ sent \in Seq(Request) /\ IsOpen(stream')
    BY DEF WatchInv, NetType, DataType, Asks
  <1>1. PICK m \in Request :
           /\ m.query = r /\ m.kind \in {"watch", "unwatch"} /\ sent' = Append(sent, m)
           /\ targets' = targets \cup {r} \/ targets' = targets \ {r}
    <2>1. /\ Watch(r) \in Request /\ Watch(r).query = r /\ Watch(r).kind = "watch"
          /\ Unwatch(r) \in Request /\ Unwatch(r).query = r /\ Unwatch(r).kind = "unwatch"
      BY DEF Watch, Unwatch, Request
    <2> QED
      BY <2>1 DEF Asks
  <1>2. CASE r = q
    <2>1. Len(sent) + 1 \in DOMAIN sent' /\ sent'[Len(sent) + 1] = m
      BY <1>0, <1>1, AppendKeeps
    <2>2. Len(sent) + 1 \in Asked(q)'
      BY <1>1, <1>2, <2>1 DEF Asked, About
    <2> QED
      BY <1>0, <2>2, AskedIsOwed
  <1>3. CASE r # q
    <2>1. q \in targets /\ UNCHANGED <<docs, answers>>
      BY <1>1, <1>3 DEF Asks
    <2>2. since'[q] = since[q] /\ (InHand(q) => InHand(q)')
      BY <2>1, InHandStays
    <2>3. Asked(q)' = Asked(q)
      BY <1>0, <1>1, <1>3, AboutOther DEF Asked
    <2>4. (q \in DOMAIN states')  => q \in DOMAIN states /\ states'[q] = states[q]
      BY <1>3 DEF Asks, Owing, Put
    <2>5. HandFresh(q) /\ AnswersFresh(q)
      BY <2>1 DEF FreshInv
    <2>6. HandFresh(q)'
      BY <2>2, <2>4, <2>5 DEF HandFresh
    <2>7. AnswersFresh(q)'
      BY <2>1, <2>2, <2>3, <2>5 DEF AnswersFresh, FreshAnswers, FreshDocument, LastListen
    <2> QED
      BY <2>6, <2>7
  <1> QED
    BY <1>2, <1>3

\* The server sends what it has, which is no older than the view.
LEMMA ServingFresh ==
    ASSUME WatchInv, WatchInv', RegistriesAgree, StreamInv, FreshInv,
           [Next]_vars, Serves, NEW q \in targets' \ Forbidden
    PROVE  HandFresh(q)' /\ AnswersFresh(q)'
  <1>0. /\ UNCHANGED <<targets, states, docs, stream>> /\ q \in targets /\ q \in Queries
        /\ answers \in Seq(Message)
    BY ServesWays DEF WatchInv, DataType
  <1>1. since'[q] = since[q] /\ (InHand(q) => InHand(q)')
    BY <1>0, InHandStays
  <1>2. HandFresh(q) /\ AnswersFresh(q)
    BY <1>0 DEF FreshInv
  <1>3. HandFresh(q)'
    BY <1>0, <1>1, <1>2 DEF HandFresh
  <1>4. FreshAnswers(q, answers') => AnswersFresh(q)'
    BY <1>0, <1>1 DEF AnswersFresh, FreshAnswers, FreshDocument, LastListen
  <1>5. CASE ServerWatches \/ ServerUnwatches
    <2>1. PICK r \in Queries : r = Head(sent).query
      BY <1>5, HeadRequest DEF ServerWatches, ServerUnwatches
    <2>2. /\ [kind |-> "rejected", query |-> r] \in Message
          /\ [kind |-> "added", query |-> r] \in Message
          /\ [kind |-> "removed", query |-> r] \in Message
      BY DEF Message
    <2>3. PICK m \in Message :
             /\ answers' = Append(answers, m) /\ m.query = r
             /\ m.kind \notin {"document", "current"}
             /\ r = q => m.kind \in {"added", "removed"}
      BY <1>5, <2>1, <2>2 DEF ServerWatches, ServerUnwatches
    <2>4. CASE r = q
      <3>1. FreshAnswers(m.query, Append(answers, m))
        BY <1>0, <2>3, <2>4, FreshListen
      <3> QED
        BY <1>3, <1>4, <2>3, <2>4, <3>1
    <2>5. CASE r # q
      <3>1. ASSUME Asked(q)' = {} PROVE Asked(q) = {}
        <4>1. sent # << >> /\ sent' = Tail(sent) /\ sent \in Seq(Request)
          BY <1>5, HeadRequest DEF ServerWatches, ServerUnwatches
        <4>2. ~(Head(sent).kind \in {"watch", "unwatch"} /\ Head(sent).query = q)
          BY <2>1, <2>5
        <4>3. Cardinality(Asked(q)') = Cardinality(Asked(q))
          BY <4>1, <4>2, AboutSame DEF Asked
        <4> QED
          BY <3>1, <4>3, FS_EmptySet, OwesTypes
      <3>2. Asked(q)' = {} => FreshAnswers(q, answers')
        BY <1>0, <1>2, <2>3, <3>1, FreshAppend DEF AnswersFresh
      <3> QED
        BY <1>3, <1>4, <3>2 DEF AnswersFresh
    <2> QED
      BY <2>4, <2>5
  <1>6. CASE ServerSends
    <2>1. PICK r \in DOMAIN serving, d \in Message, c \in Message, z \in Message :
             /\ d = DocumentOf(r, version[r]) /\ c = CurrentOf(r) /\ z = SnapshotMark
             /\ \/ answers' = Append(Append(answers, d), z)
                \/ answers' = Append(Append(Append(answers, d), c), z)
      BY <1>6, SendsWays
    <2>2. Asked(q)' = Asked(q)
      BY <1>6 DEF ServerSends, Asked, About
    <2>3. r = q => FreshDocument(q, d)
      <3>1. since[q] \in Int /\ version[q] \in Int /\ since[q] <= version[q]
        <4>1. Versions \subseteq Int
          BY WatchAssumptions DEF Versions
        <4> QED
          BY <1>0, <4>1 DEF WatchInv, DataType, FreshInv
      <3> QED
        BY <2>1, <3>1 DEF FreshDocument, DocumentOf
    <2>4. d.query = r /\ c.query = r /\ c.kind = "current" /\ z.kind = "snapshot"
      BY <2>1 DEF DocumentOf, CurrentOf, SnapshotMark
    <2>5. PICK a \in Seq(Message) : a = Append(answers, d) /\ a # << >> /\ a[Len(a)] = d
      <3>1. /\ Append(answers, d) \in Seq(Message)
            /\ Len(Append(answers, d)) = Len(answers) + 1 /\ Len(answers) \in Nat
            /\ Append(answers, d)[Len(answers) + 1] = d
        BY <1>0, AppendKeeps
      <3>2. Append(answers, d) # << >>
        BY <3>1
      <3> QED
        BY <3>1, <3>2
    <2>6. PICK b \in Seq(Message) : b = Append(a, c)
      BY <2>5, AppendKeeps
    <2>7. ASSUME FreshAnswers(q, answers) PROVE FreshAnswers(q, answers')
      <3>1. FreshAnswers(q, a)
        BY <1>0, <2>3, <2>4, <2>5, <2>7, FreshAppend
      <3>2. FreshAnswers(q, b)
        BY <2>3, <2>4, <2>5, <2>6, <3>1, FreshAppend
      <3>3. FreshAnswers(q, Append(a, z)) /\ FreshAnswers(q, Append(b, z))
        BY <2>4, <2>5, <2>6, <3>1, <3>2, FreshAppend
      <3> QED
        BY <2>1, <2>5, <2>6, <3>3
    <2>8. AnswersFresh(q)'
      BY <1>2, <1>4, <2>2, <2>7 DEF AnswersFresh
    <2> QED
      BY <1>3, <2>8
  <1> QED
    BY <1>5, <1>6 DEF Serves

\* An answer that is read leaves fresh what counts, and what follows.
LEMMA ReadingFresh ==
    ASSUME WatchInv, WatchInv', RegistriesAgree, StreamInv, StreamInv', FreshInv,
           [Next]_vars, Reads, NEW q \in targets' \ Forbidden
    PROVE  HandFresh(q)' /\ AnswersFresh(q)'
  <1> DEFINE h == Head(answers)
  <1>0. /\ IsOpen(stream) /\ IsOpen(stream') /\ answers # << >> /\ answers' = Tail(answers)
        /\ UNCHANGED sent /\ targets' \subseteq targets
    BY DEF Reads, TargetAdded, TargetRemoved, TargetCurrent, DocumentChange,
       TargetRejected, Snapshot, NextAnswer, Read, IsOpen
  <1>1. /\ q \in targets /\ q \in Queries \ Forbidden /\ q \in views
        /\ HandFresh(q) /\ AnswersFresh(q)
    BY <1>0 DEF FreshInv, WatchInv, NetType, DataType, RegistriesAgree
  <1>2. since'[q] = since[q]
    BY <1>1, TimesKeep
  <1>3. CASE Asked(q) # {}
    <2>1. Asked(q)' # {}
      BY <1>0, <1>3 DEF Asked, About
    <2> QED
      BY <1>0, <1>1, <2>1, AskedIsOwed
  <1>4. CASE Asked(q) = {}
    <2>1. /\ FreshAnswers(q, answers) /\ h = answers[1] /\ 1 \in DOMAIN answers
          /\ DOMAIN answers \subseteq Nat
      BY <1>0, <1>1, <1>4, HeadAnswer DEF AnswersFresh
    <2>2. Settled(q) = {} <=> State(q).owed = 0
      <3>1. /\ Cardinality(Settled(q)) \in Nat /\ Cardinality(Asked(q)) = 0
            /\ Settled(q) = {} <=> Cardinality(Settled(q)) = 0
        BY <1>4, OwesTypes
      <3>2. State(q).owed = Cardinality(Asked(q)) + Cardinality(Settled(q))
        BY <1>0, <1>1 DEF StreamInv, Owes
      <3> QED
        BY <3>1, <3>2
    <2>3. Settled(q) = {} => LastListen(q, answers, 1)
      BY DEF LastListen, Settled
    <2>4. ASSUME h.kind = "document", h.query = q, State(q).owed = 0 PROVE InHand(q)'
      <3>1. DocumentChange /\ IsActive(q)
        BY <1>1, <2>4 DEF Reads, TargetAdded, TargetRemoved, TargetCurrent, DocumentChange,
           TargetRejected, Snapshot, NextAnswer, IsActive
      <3>2. docs' = Put(docs, q, h.version)
        BY <2>4, <3>1 DEF DocumentChange, Document
      <3>3. h.version >= since[q]
        BY <2>1, <2>2, <2>3, <2>4 DEF FreshAnswers, FreshDocument
      <3> QED
        BY <1>2, <3>2, <3>3 DEF InHand, Put
    <2>5. AnswersFresh(q)'
      <3>1. Settled(q) = {} /\ FreshDocument(q, Head(answers)) => InHand(q)'
        BY <2>2, <2>4 DEF FreshDocument
      <3>2. FreshAnswers(q, answers)'
        BY <1>0, <1>2, <2>1, <3>1, FreshReads
      <3> QED
        BY <3>2 DEF AnswersFresh
    <2>6. ASSUME q \in DOMAIN states' => q \in DOMAIN states /\ states'[q] = states[q],
                 q \in DOMAIN docs => q \in DOMAIN docs' /\ docs'[q] = docs[q]
          PROVE  HandFresh(q)'
      <3>1. InHand(q) => InHand(q)'
        BY <1>1, <2>6, InHandStays
      <3> QED
        BY <1>1, <2>6, <3>1 DEF HandFresh
    <2>7. HandFresh(q)'
      <3>1. CASE TargetAdded
        <4>1. Added(h.query) /\ UNCHANGED docs
          BY <3>1 DEF TargetAdded
        <4>2. CASE h.query = q
          BY <4>1, <4>2 DEF Added, Put, HandFresh
        <4>3. CASE h.query # q
          BY <2>6, <4>1, <4>3 DEF Added, Put
        <4> QED
          BY <4>2, <4>3
      <3>2. CASE TargetRemoved
        <4>1. Removed(h.query) /\ UNCHANGED docs
          BY <3>2 DEF TargetRemoved
        <4>2. CASE h.query = q
          <5>1. PICK s \in TargetState : s = State(q)
            BY StateTypes DEF WatchInv, NetType
          <5>2. [s EXCEPT !.owed = s.owed - 1].owed = s.owed - 1
            BY DEF TargetState
          <5> QED
            BY <4>1, <4>2, <5>1, <5>2 DEF Removed, Put, Without, HandFresh
        <4>3. CASE h.query # q
          BY <2>6, <4>1, <4>3 DEF Removed, Put, Without
        <4> QED
          BY <4>2, <4>3
      <3>3. CASE TargetCurrent
        <4>1. Current(h.query) /\ UNCHANGED docs /\ h.kind = "current"
          BY <3>3 DEF TargetCurrent, NextAnswer
        <4>2. CASE h.query = q /\ State(q).owed = 0
          <5>1. InHand(q)
            BY <2>1, <2>2, <2>3, <4>1, <4>2 DEF FreshAnswers
          <5>2. InHand(q)'
            BY <1>1, <4>1, <5>1, InHandStays
          <5> QED
            BY <5>2 DEF HandFresh
        <4>3. CASE h.query = q /\ State(q).owed # 0
          BY <4>1, <4>3 DEF Current, IsActive, Put, HandFresh
        <4>4. CASE h.query # q
          BY <2>6, <4>1, <4>4 DEF Current, Put
        <4> QED
          BY <4>2, <4>3, <4>4
      <3>4. CASE DocumentChange
        <4>1. Document(h.query, h.version) /\ h.kind = "document"
          BY <3>4 DEF DocumentChange, NextAnswer
        <4>2. CASE h.query = q /\ State(q).owed = 0
          BY <2>4, <4>1, <4>2 DEF HandFresh
        <4>3. CASE h.query = q /\ State(q).owed # 0
          BY <2>6, <4>1, <4>3 DEF Document, IsActive
        <4>4. CASE h.query # q
          BY <2>6, <4>1, <4>4 DEF Document, Put
        <4> QED
          BY <4>2, <4>3, <4>4
      <3>5. CASE TargetRejected
        <4>1. h.kind = "rejected" /\ Decided(h)
          BY <2>1, <3>5 DEF TargetRejected, NextAnswer, StreamInv, DecidedInv
        <4>2. h.query # q
          BY <4>1 DEF Decided
        <4>3. UNCHANGED docs /\ (UNCHANGED states \/ states' = Without(states, h.query))
          BY <3>5 DEF TargetRejected
        <4> QED
          BY <2>6, <4>2, <4>3 DEF Without
      <3>6. CASE Snapshot
        <4>1. /\ DOMAIN states' = DOMAIN states
              /\ q \in DOMAIN states /\ states'[q].owed = 0 => ~states'[q].changed
          BY <1>1, <3>6, SnapshotParts
        <4> QED
          BY <4>1 DEF HandFresh
      <3> QED
        BY <3>1, <3>2, <3>3, <3>4, <3>5, <3>6 DEF Reads
    <2> QED
      BY <2>5, <2>7
  <1> QED
    BY <1>3, <1>4

LEMMA HandKeeps ==
    ASSUME WatchInv, WatchInv', RegistriesAgree, AssertionsHold, StreamInv, StreamInv',
           FreshInv, [Next]_vars, NEW q \in targets' \ Forbidden
    PROVE  HandFresh(q)' /\ AnswersFresh(q)'
  <1>0. q \in Queries \ Forbidden /\ BareWhenDown
    BY DEF WatchInv, NetType, DataType, StreamInv
  <1>1. CASE OpenStream
    <2>1. IsOpen(stream') /\ DOMAIN serving' = {}
      BY <1>0, <1>1, OpenAsks DEF Bare
    <2>2. Asked(q)' # {}
      BY <1>0, <2>1 DEF StreamInv, Agrees
    <2> QED
      BY <1>0, <2>1, <2>2, AskedIsOwed
  <1>2. CASE Reads
    BY <1>2, ReadingFresh
  <1>3. CASE Serves
    BY <1>3, ServingFresh
  <1>4. CASE StreamDown
    BY <1>4 DEF StreamDown, Bare, HandFresh, AnswersFresh, FreshAnswers
  <1>5. CASE StreamKept
    <2>1. UNCHANGED <<targets, states, docs, sent, answers>> /\ q \in targets
      BY <1>5 DEF StreamKept
    <2>2. since'[q] = since[q] /\ (InHand(q) => InHand(q)')
      BY <2>1, InHandStays
    <2>3. HandFresh(q) /\ AnswersFresh(q)
      BY <2>1 DEF FreshInv
    <2>4. HandFresh(q)'
      BY <2>1, <2>2, <2>3 DEF HandFresh
    <2>5. Asked(q)' = Asked(q)
      BY <2>1 DEF Asked, About
    <2>6. AnswersFresh(q)'
      BY <2>1, <2>2, <2>3, <2>5 DEF AnswersFresh, FreshAnswers, FreshDocument, LastListen
    <2> QED
      BY <2>4, <2>6
  <1>6. ASSUME NEW r \in Queries, Asks(r) PROVE HandFresh(q)' /\ AnswersFresh(q)'
    BY <1>6, AskingFresh
  <1> QED
    BY <1>0, <1>1, <1>2, <1>3, <1>4, <1>5, <1>6, StreamWays

LEMMA FreshInit == ASSUME Init PROVE FreshInv
  <1>1. \A q \in Queries : since[q] <= version[q]
    BY DEF Init
  <1>2. /\ main = << >> /\ told = << >> /\ current = {} /\ targets = {}
        /\ \A q : State(q).current = FALSE
    BY DEF Init, State, NewTarget
  <1> QED
    BY <1>1, <1>2 DEF FreshInv, Fresh, NeverCurrent

LEMMA FreshStep ==
    WatchInv /\ WatchInv' /\ AssertionsHold /\ RegistriesAgree /\ StreamInv /\ StreamInv'
       /\ FreshInv /\ [Next]_vars => FreshInv'
  <1> SUFFICES ASSUME WatchInv, AssertionsHold, StreamInv, RegistriesAgree,
                      WatchInv', StreamInv', FreshInv, [Next]_vars
               PROVE  FreshInv'
    OBVIOUS
  <1>1. \A q \in current' : InCache(q)'
    BY CurrentFresh
  <1>2. Fresh(main') /\ Fresh(told')
    BY <1>1, ToldFresh
  <1>3. \A q \in Queries : since'[q] <= version'[q]
    BY TimesKeep
  <1>4. NeverCurrent'
    BY NeverCurrentKeeps DEF FreshInv
  <1>5. \A q \in targets' \ Forbidden : HandFresh(q)' /\ AnswersFresh(q)'
    BY HandKeeps
  <1> QED
    BY <1>1, <1>2, <1>3, <1>4, <1>5 DEF FreshInv, Fresh

\* Whatever was on its way for an earlier listen to the same query, in whatever order
\* reads come and go, no read is told that it is in sync with documents older than
\* those the server had when the listening began.
THEOREM SyncedReadsAreFresh == Spec => []SyncedIsFresh
  <1>1. Init => FreshInv
    BY FreshInit
  <1>2. Spec => []FreshInv
    BY <1>1, FreshStep, StreamAlways, RegistriesHold, PTL DEF Spec
  <1>3. FreshInv => SyncedIsFresh
    BY DEF FreshInv, Fresh, SyncedIsFresh
  <1> QED
    BY <1>2, <1>3, PTL

(***************************************************************************)
(* No read is forgotten: each has its task, its answer or a listener       *)
(***************************************************************************)

TaskDue(t) == \E k \in DOMAIN worker : worker[k] = t
ListenOf(g) == [kind |-> "listen", get |-> g]

Replied(g) == \E k \in DOMAIN main : main[k].get = g
Got(g)     == \E k \in DOMAIN told : told[k].get = g

Accounted ==
    \A g \in Gotten :
        TaskDue(ListenOf(g)) \/ Replied(g) \/ Got(g) \/ (g \in Listening /\ g \notin raised)

\* Who is to be removed, who is muted and who was raised has an answer.
RemovesGot    == \A k \in DOMAIN worker : worker[k].kind = "remove" => Got(worker[k].get)
MutedGot      == \A g \in muted : Got(g)
RaisedReplied == \A g \in raised : Replied(g) \/ Got(g)

AccountInv == Accounted /\ RemovesGot /\ MutedGot /\ RaisedReplied

\* A task stays in the queue until its turn, and another is no longer in it.
LEMMA DueStays ==
    ASSUME WatchInv, NEW t, TaskDue(t),
           \/ worker' = worker
           \/ worker # << >> /\ worker' = Tail(worker) /\ Head(worker) # t
           \/ \E u \in Task : worker' = Append(worker, u)
    PROVE  TaskDue(t)'
  <1>0. worker \in Seq(Task)
    BY DEF WatchInv, AppType
  <1>1. PICK k \in DOMAIN worker : worker[k] = t
    BY DEF TaskDue
  <1>2. CASE worker' = worker
    BY <1>1, <1>2 DEF TaskDue
  <1>3. CASE worker # << >> /\ worker' = Tail(worker) /\ Head(worker) # t
    <2>1. k # 1
      BY <1>0, <1>1, <1>3
    <2>2. k - 1 \in DOMAIN worker' /\ worker'[k - 1] = worker[k]
      BY <1>0, <1>3, <2>1
    <2> QED
      BY <1>1, <2>2 DEF TaskDue
  <1>4. ASSUME NEW u \in Task, worker' = Append(worker, u) PROVE TaskDue(t)'
    <2>1. k \in DOMAIN worker' /\ worker'[k] = worker[k]
      BY <1>0, <1>4
    <2> QED
      BY <1>1, <2>1 DEF TaskDue
  <1> QED
    BY <1>2, <1>3, <1>4

\* A removal that is due after a step that asks for none was due before.
LEMMA DueFromBefore ==
    ASSUME WatchInv,
           \/ worker' = worker
           \/ worker # << >> /\ worker' = Tail(worker)
           \/ \E u \in Task : u.kind # "remove" /\ worker' = Append(worker, u)
    PROVE  \A k \in DOMAIN worker' : worker'[k].kind = "remove" =>
              \E j \in DOMAIN worker : worker[j] = worker'[k]
  <1>0. worker \in Seq(Task)
    BY DEF WatchInv, AppType
  <1>1. CASE worker # << >> /\ worker' = Tail(worker)
    BY <1>0, <1>1, TailTasks
  <1>2. ASSUME NEW u \in Task, u.kind # "remove", worker' = Append(worker, u)
        PROVE  \A k \in DOMAIN worker' : worker'[k].kind = "remove" =>
                  \E j \in DOMAIN worker : worker[j] = worker'[k]
    BY <1>0, <1>2, AppendTasks
  <1> QED
    BY <1>1, <1>2

\* Those who were replied to are still, and so are those who are answered.
LEMMA RepliesStay ==
    ASSUME main \in Seq(Answer), NEW gets, NEW kinds, Posts(gets, kinds), NEW g,
           Replied(g) \/ g \in gets
    PROVE  Replied(g)'
  <1>1. PICK s \in Seq(Answer) :
           main' = main \o s /\ (g \in gets => \E k \in DOMAIN s : s[k].get = g)
    BY DEF Posts
  <1>2. CASE Replied(g)
    <2>1. PICK k \in DOMAIN main : main[k].get = g
      BY <1>2 DEF Replied
    <2>2. k \in DOMAIN main' /\ main'[k] = main[k]
      BY <1>1, <2>1
    <2> QED
      BY <2>1, <2>2 DEF Replied
  <1>3. CASE g \in gets
    <2>1. PICK k \in DOMAIN s : s[k].get = g
      BY <1>1, <1>3
    <2>2. Len(main) + k \in DOMAIN main' /\ main'[Len(main) + k] = s[k]
      BY <1>1, <2>1
    <2> QED
      BY <2>1, <2>2 DEF Replied
  <1> QED
    BY <1>2, <1>3

\* A task of a token tells nothing of the reads.
LEMMA TokenTasksKeep ==
    ASSUME WatchInv, TokenTasks
    PROVE  /\ \A g : TaskDue(ListenOf(g)) => TaskDue(ListenOf(g))'
           /\ \A k \in DOMAIN worker' : worker'[k].kind = "remove" =>
                 \E j \in DOMAIN worker : worker[j] = worker'[k]
  <1>1. \A c \in Nat : /\ [kind |-> "token", closes |-> c] \in Task
                       /\ [kind |-> "token", closes |-> c].kind # "remove"
    BY DEF Task
  <1>2. \/ worker' = worker
        \/ worker # << >> /\ worker' = Tail(worker) /\ Head(worker).kind = "token"
        \/ \E u \in Task : u.kind # "remove" /\ worker' = Append(worker, u)
    BY <1>1 DEF TokenTasks, NextTask
  <1>3. \A g : ListenOf(g).kind = "listen"
    BY DEF ListenOf
  <1> QED
    BY <1>2, <1>3, DueStays, DueFromBefore

\* At first nothing was asked for.
LEMMA AccountInit == Init => AccountInv
  BY DEF Init, AccountInv, Accounted, RemovesGot, MutedGot, RaisedReplied, Gotten

\* Answers that are posted leave each read what it had, or answer it.
LEMMA AnswerAccounts == ASSUME WatchInv, AccountInv, AnswerSome PROVE AccountInv'
  <1>1. /\ UNCHANGED <<Gotten, muted, told, Listening>> /\ TokenTasks
        /\ main \in Seq(Answer)
    BY DEF AnswerSome, Listening, Gotten, WatchInv
  <1>2. PICK gets \in SUBSET Listening : raised' = raised \cup gets /\ Posts(gets, Kept)
    BY DEF AnswerSome
  <1>3. \A g : Replied(g) \/ g \in gets => Replied(g)'
    BY <1>1, <1>2, RepliesStay
  <1>4. \A g : Got(g)' <=> Got(g)
    BY <1>1 DEF Got
  <1>5. Accounted'
    BY <1>1, <1>2, <1>3, <1>4, TokenTasksKeep DEF AccountInv, Accounted
  <1>6. RemovesGot'
    BY <1>1, <1>4, TokenTasksKeep DEF AccountInv, RemovesGot
  <1>7. MutedGot' /\ RaisedReplied'
    BY <1>1, <1>2, <1>3, <1>4 DEF AccountInv, MutedGot, RaisedReplied
  <1> QED
    BY <1>5, <1>6, <1>7 DEF AccountInv

\* A read whose task is done is listened to or answered.
LEMMA ListenAccounts == ASSUME WatchInv, OnceInv, AccountInv, ListenTask PROVE AccountInv'
  <1> DEFINE g == Head(worker).get
  <1>0. /\ AppType /\ Known /\ main \in Seq(Answer) /\ worker \in Seq(Task)
        /\ listeners \in [Queries -> SUBSET Gotten]
    BY DEF WatchInv, AppType
  <1>1. g \in Gotten /\ asks[g] \in Queries
    BY <1>0, TaskTypes DEF ListenTask
  <1>2. /\ worker # << >> /\ worker' = Tail(worker) /\ Head(worker).kind = "listen"
        /\ 1 \in DOMAIN worker /\ worker[1] = Head(worker)
    BY <1>0 DEF ListenTask, NextTask
  <1>3. Untouched(g)
    BY <1>2 DEF OnceInv, ListensFirst
  <1>4. UNCHANGED <<asks, muted, told, Gotten>> /\ listeners' = Registered(g)
    BY DEF ListenTask, Gotten
  <1>5. PICK gets \in SUBSET {g} : raised' = raised \cup gets /\ Posts(gets, Kept)
    BY DEF ListenTask
  <1>6. \A h : h # g => Head(worker) # ListenOf(h)
    BY DEF ListenOf
  <1> HIDE DEF g
  <1>7. Listening \subseteq Listening' /\ g \in Listening'
    BY <1>0, <1>1, <1>4 DEF Registered, Listening
  <1>8. g \notin raised
    BY <1>3 DEF AccountInv, RaisedReplied, Replied, Got, Untouched
  <1>9. \A h : Replied(h) \/ h \in gets => Replied(h)'
    BY <1>0, <1>5, RepliesStay
  <1>10. \A h : Got(h)' <=> Got(h)
    BY <1>4 DEF Got
  <1>11. \A h : h # g /\ TaskDue(ListenOf(h)) => TaskDue(ListenOf(h))'
    BY <1>2, <1>6, DueStays
  <1>12. Accounted'
    BY <1>4, <1>5, <1>7, <1>8, <1>9, <1>10, <1>11 DEF AccountInv, Accounted
  <1>13. RemovesGot'
    BY <1>2, <1>10, DueFromBefore DEF AccountInv, RemovesGot
  <1>14. MutedGot' /\ RaisedReplied'
    BY <1>4, <1>5, <1>9, <1>10 DEF AccountInv, MutedGot, RaisedReplied
  <1> QED
    BY <1>12, <1>13, <1>14 DEF AccountInv

\* A listener is removed only for a read that was answered.
LEMMA RemoveAccounts == ASSUME WatchInv, AccountInv, RemoveTask PROVE AccountInv'
  <1> DEFINE g == Head(worker).get
  <1>0. /\ worker \in Seq(Task) /\ listeners \in [Queries -> SUBSET Gotten]
    BY DEF WatchInv, AppType
  <1>1. /\ worker # << >> /\ worker' = Tail(worker) /\ Head(worker).kind = "remove"
        /\ 1 \in DOMAIN worker /\ worker[1] = Head(worker)
        /\ UNCHANGED <<asks, muted, told, main, raised, Gotten>>
        /\ listeners' = Unregistered(g)
    BY <1>0 DEF RemoveTask, NextTask, Gotten
  <1>2. Got(g)
    BY <1>1 DEF AccountInv, RemovesGot
  <1> HIDE DEF g
  <1>3. \A h \in Listening : h # g => h \in Listening'
    BY <1>0, <1>1 DEF Unregistered, Listening
  <1>4. \A h : (Got(h)' <=> Got(h)) /\ (Replied(h)' <=> Replied(h))
    BY <1>1 DEF Got, Replied
  <1>5. \A h : TaskDue(ListenOf(h)) => TaskDue(ListenOf(h))'
    <2>1. \A h : Head(worker) # ListenOf(h)
      BY <1>1 DEF ListenOf
    <2> QED
      BY <1>1, <2>1, DueStays
  <1>6. Accounted'
    BY <1>1, <1>2, <1>3, <1>4, <1>5 DEF AccountInv, Accounted
  <1>7. RemovesGot'
    BY <1>1, <1>4, DueFromBefore DEF AccountInv, RemovesGot
  <1> QED
    BY <1>1, <1>4, <1>6, <1>7 DEF AccountInv, MutedGot, RaisedReplied

\* Who is no longer listened to for a rejection has its error posted.
LEMMA RejectAccounts == ASSUME WatchInv, AccountInv, RejectSome PROVE AccountInv'
  <1>0. main \in Seq(Answer) /\ listeners \in [Queries -> SUBSET Gotten]
    BY DEF WatchInv, AppType
  <1>1. UNCHANGED <<asks, muted, told, raised, worker, Gotten>>
    BY DEF RejectSome, Gotten
  <1>2. PICK q \in Queries : listeners' = ListenersFailed(q) /\ Posts(listeners[q], {"error"})
    BY DEF RejectSome
  <1>3. \A h : Replied(h) \/ h \in listeners[q] => Replied(h)'
    BY <1>0, <1>2, RepliesStay
  <1>4. \A h \in Listening : h \in listeners[q] \/ h \in Listening'
    BY <1>0, <1>2 DEF ListenersFailed, Listening
  <1>5. \A h : (Got(h)' <=> Got(h)) /\ (TaskDue(ListenOf(h))' <=> TaskDue(ListenOf(h)))
    BY <1>1 DEF Got, TaskDue
  <1>6. Accounted'
    BY <1>1, <1>3, <1>4, <1>5 DEF AccountInv, Accounted
  <1> QED
    BY <1>1, <1>3, <1>5, <1>6 DEF AccountInv, RemovesGot, MutedGot, RaisedReplied

\* A new read has its task.
LEMMA GetAccounts == ASSUME WatchInv, AccountInv, Get PROVE AccountInv'
  <1>0. worker \in Seq(Task) /\ asks \in Seq(Queries)
    BY DEF WatchInv, AppType
  <1>10. PICK g : g = Len(asks) + 1
    OBVIOUS
  <1>1. PICK q \in Queries : /\ asks' = Append(asks, q)
                             /\ worker' = Append(worker, ListenOf(g)) /\ Len(asks) < MaxGets
    BY <1>10 DEF Get, ListenOf
  <1>2. UNCHANGED <<main, muted, told, raised, Listening>>
    BY DEF Get, engine, Listening
  <1>3. ListenOf(g) \in Task /\ ListenOf(g).kind # "remove"
    BY <1>0, <1>1, <1>10, WatchAssumptions DEF ListenOf, Task, Gets
  <1>4. \A h \in Gotten' : h \in Gotten \/ h = g
    BY <1>0, <1>1, <1>10, AppendKeeps DEF Gotten
  <1>5. TaskDue(ListenOf(g))'
    <2>1. PICK t \in Task : t = ListenOf(g)
      BY <1>3
    <2>2. Len(worker) + 1 \in DOMAIN worker' /\ worker'[Len(worker) + 1] = t
      BY <1>0, <1>1, <2>1, AppendKeeps
    <2> QED
      BY <2>1, <2>2 DEF TaskDue
  <1>6. \A h : TaskDue(ListenOf(h)) => TaskDue(ListenOf(h))'
    BY <1>1, <1>3, DueStays
  <1>7. \A h : (Got(h)' <=> Got(h)) /\ (Replied(h)' <=> Replied(h))
    BY <1>2 DEF Got, Replied
  <1>8. Accounted'
    BY <1>2, <1>4, <1>5, <1>6, <1>7 DEF AccountInv, Accounted
  <1>9. RemovesGot'
    BY <1>1, <1>3, <1>7, DueFromBefore DEF AccountInv, RemovesGot
  <1> QED
    BY <1>2, <1>7, <1>8, <1>9 DEF AccountInv, MutedGot, RaisedReplied

\* An answer that leaves the main queue was given, now or before.
LEMMA EventAccounts == ASSUME WatchInv, AccountInv, OnEvent PROVE AccountInv'
  <1>0. worker \in Seq(Task) /\ main \in Seq(Answer) /\ told \in Seq(Answer)
    BY DEF WatchInv, AppType
  <1> DEFINE answer == Head(main)
  <1>14. PICK a \in Answer : a = answer
    BY <1>0 DEF OnEvent
  <1>15. PICK g : g = answer.get
    OBVIOUS
  <1>1. main # << >> /\ main' = Tail(main) /\ UNCHANGED <<raised, Listening, Gotten>>
    BY DEF OnEvent, engine, Listening, Gotten
  <1>2. /\ answer \in Answer /\ 1 \in DOMAIN main /\ main[1] = answer
        /\ DOMAIN main \subseteq Nat \ {0}
        /\ DOMAIN main' = {i \in Nat : i # 0 /\ i + 1 \in DOMAIN main}
        /\ \A i \in DOMAIN main' : main'[i] = main[i + 1]
    BY <1>0, <1>1, TailMoves
  <1>3. [kind |-> "remove", get |-> g] \in Task
    BY <1>2, <1>15 DEF Answer, Task
  <1>4. \/ g \in muted /\ UNCHANGED <<muted, told, worker>>
        \/ /\ told' = Append(told, answer) /\ muted' \in {muted, muted \cup {g}}
           /\ \/ worker' = worker
              \/ worker' = Append(worker, [kind |-> "remove", get |-> g])
    BY <1>15 DEF OnEvent, Muted
  <1> HIDE DEF answer
  <1>6. (\A h : Got(h) => Got(h)') /\ Got(g)'
    <2>1. CASE g \in muted /\ UNCHANGED told
      BY <2>1 DEF AccountInv, MutedGot, Got
    <2>2. CASE told' = Append(told, answer)
      <3>1. told' = Append(told, a)
        BY <1>14, <2>2
      <3>2. /\ DOMAIN told' = DOMAIN told \cup {Len(told) + 1}
            /\ told'[Len(told) + 1] = a /\ \A i \in DOMAIN told : told'[i] = told[i]
        BY <1>0, <3>1, AppendKeeps
      <3> QED
        BY <1>14, <1>15, <3>2 DEF Got
    <2> QED
      BY <1>4, <2>1, <2>2
  <1>7. \A h : Replied(h) => Replied(h)' \/ h = g
    <2> SUFFICES ASSUME NEW k \in DOMAIN main, k # 1
                 PROVE  \E i \in DOMAIN main' : main'[i] = main[k]
      BY <1>2, <1>15 DEF Replied
    <2>1. k - 1 \in Nat /\ k - 1 # 0 /\ (k - 1) + 1 = k
      BY <1>2
    <2>2. k - 1 \in DOMAIN main' /\ main'[k - 1] = main[k]
      BY <1>2, <2>1
    <2> QED
      BY <2>2
  <1>8. \A h : TaskDue(ListenOf(h)) => TaskDue(ListenOf(h))'
    BY <1>3, <1>4, DueStays
  <1>9. \A k \in DOMAIN worker' : worker'[k].kind = "remove" =>
           \/ \E j \in DOMAIN worker : worker[j] = worker'[k]
           \/ worker'[k].get = g
    <2>1. CASE worker' = worker
      BY <2>1
    <2>2. CASE worker' = Append(worker, [kind |-> "remove", get |-> g])
      BY <1>0, <1>3, <2>2, AppendTasks
    <2> QED
      BY <1>4, <2>1, <2>2
  <1>10. \A h \in muted' : h \in muted \/ h = g
    BY <1>4
  <1>11. Accounted'
    BY <1>1, <1>6, <1>7, <1>8 DEF AccountInv, Accounted
  <1>12. RemovesGot'
    BY <1>6, <1>9 DEF AccountInv, RemovesGot
  <1>13. MutedGot' /\ RaisedReplied'
    BY <1>1, <1>6, <1>7, <1>10 DEF AccountInv, MutedGot, RaisedReplied
  <1> QED
    BY <1>11, <1>12, <1>13 DEF AccountInv

\* Every step keeps the account.
LEMMA AccountStep == WatchInv /\ WatchInv' /\ OnceInv /\ AccountInv /\ [Next]_vars => AccountInv'
  <1> SUFFICES ASSUME WatchInv, WatchInv', OnceInv, AccountInv, [Next]_vars PROVE AccountInv'
    OBVIOUS
  <1>1. CASE Next
    <2>1. DataType'
      BY DEF WatchInv
    <2> QED
      BY <1>1, <2>1, ReadsStep, AnswerAccounts, ListenAccounts, RemoveAccounts,
         RejectAccounts, GetAccounts, EventAccounts
  <1>2. CASE UNCHANGED vars
    BY <1>2 DEF vars, app, engine, AccountInv, Accounted, RemovesGot, MutedGot,
       RaisedReplied, TaskDue, Replied, Got, Listening, Gotten
  <1> QED
    BY <1>1, <1>2

(***************************************************************************)
(* Who waits has something to wait for: a token                            *)
(***************************************************************************)

TokenOf(c) == [kind |-> "token", closes |-> c]

TokenInv == stream.state = "Starting" => stream.closes \in tokens \/ TaskDue(TokenOf(stream.closes))

\* A stream that starts asks for its token; one that is starting still waits for it.
LEMMA TokenStays ==
    ASSUME TokenInv,
           \/ RequestCredentials
           \/ UNCHANGED tokens /\ (stream'.state = "Starting" =>
                 stream.state = "Starting" /\ stream'.closes = stream.closes),
           stream'.state = "Starting" /\ stream'.closes = stream.closes =>
              \A c : c = stream.closes /\ TaskDue(TokenOf(c)) => TaskDue(TokenOf(c))'
    PROVE  TokenInv'
  <1> SUFFICES ASSUME stream'.state = "Starting"
               PROVE  stream'.closes \in tokens' \/ TaskDue(TokenOf(stream.closes))'
    BY DEF TokenInv
  <1>1. PICK c : c = stream'.closes
    OBVIOUS
  <1>2. CASE stream' = stream
    <2>1. stream.closes = c /\ stream.state = "Starting" /\ tokens' = tokens
      BY <1>1, <1>2 DEF RequestCredentials
    <2>2. c \in tokens \/ TaskDue(TokenOf(c))
      BY <2>1 DEF TokenInv
    <2>3. TaskDue(TokenOf(c)) => TaskDue(TokenOf(c))'
      BY <1>1, <2>1
    <2> QED
      BY <1>1, <2>1, <2>2, <2>3
  <1>3. CASE stream' # stream /\ RequestCredentials
    BY <1>3 DEF RequestCredentials
  <1>4. CASE ~RequestCredentials
    <2>1. stream.closes = c /\ stream.state = "Starting" /\ tokens' = tokens
      BY <1>1, <1>4
    <2>2. c \in tokens \/ TaskDue(TokenOf(c))
      BY <2>1 DEF TokenInv
    <2>3. TaskDue(TokenOf(c)) => TaskDue(TokenOf(c))'
      BY <1>1, <2>1
    <2> QED
      BY <1>1, <2>1, <2>2, <2>3
  <1> QED
    BY <1>2, <1>3, <1>4

\* Every step leaves a starting stream its token or the task of it.
LEMMA TokenStep ==
    ASSUME WatchInv, HealthInv, TokenInv, [Next]_vars
    PROVE  TokenInv'
  <1>0. stream \in StreamState /\ worker \in Seq(Task) /\ tokens \subseteq Nat
    BY DEF WatchInv, NetType, AppType
  <1>1. \A c : TokenOf(c).kind = "token" /\ TokenOf(c).closes = c
    BY DEF TokenOf
  <1>2. CASE Listen \/ JoinListeners \/ RemoveListener
    <2>1. worker # << >> /\ worker' = Tail(worker) /\ Head(worker).kind \in {"listen", "remove"}
      BY <1>2 DEF Listen, JoinListeners, RemoveListener, NextTask
    <2>2. \A c : Head(worker) # TokenOf(c)
      BY <1>1, <2>1
    <2>3. \A c : TaskDue(TokenOf(c)) => TaskDue(TokenOf(c))'
      BY <2>1, <2>2, DueStays
    <2>4. CASE Listen
      BY <2>3, <2>4, TokenStays DEF Listen, StartListening
    <2>5. CASE JoinListeners
      BY <2>3, <2>5, TokenStays DEF JoinListeners
    <2>6. CASE RemoveListener
      <3>1. UNCHANGED tokens /\ (StopListening(asks[Head(worker).get]) \/ UNCHANGED stream)
        BY <2>6 DEF RemoveListener
      <3>2. UNCHANGED stream \/ (IsOpen(stream) /\ (\/ stream' = WriteTo(stream)
                                                  \/ stream' = MarkIdle(WriteTo(stream))))
        BY <3>1 DEF StopListening, SendUnwatchRequest
      <3>3. WriteTo(stream) \in StreamState
        BY <1>0, StreamTypes
      <3>4. UNCHANGED stream \/ stream'.state = "Open"
        BY <1>0, <3>2, <3>3, StreamSteps DEF IsOpen
      <3> QED
        BY <2>3, <3>1, <3>4, TokenStays
    <2> QED
      BY <1>2, <2>4, <2>5, <2>6
  <1>3. CASE DropToken
    <2>1. /\ worker # << >> /\ worker' = Tail(worker) /\ Head(worker).closes # stream.closes
          /\ UNCHANGED <<stream, tokens>>
      BY <1>3 DEF DropToken, NextTask, IsCurrent
    <2>2. \A c : c = stream.closes => Head(worker) # TokenOf(c)
      BY <1>1, <2>1
    <2>3. \A c : c = stream.closes /\ TaskDue(TokenOf(c)) => TaskDue(TokenOf(c))'
      BY <2>1, <2>2, DueStays
    <2> QED
      BY <2>1, <2>3, TokenStays
  <1>4. CASE OpenStream
    <2>1. stream'.state = "Open"
      BY <1>0, <1>4, StreamSteps DEF OpenStream
    <2> QED
      BY <2>1 DEF TokenInv
  <1>5. CASE TokenArrives
    <2>1. PICK c \in tokens : tokens' = tokens \ {c} /\ worker' = Append(worker, TokenOf(c))
      BY <1>5 DEF TokenArrives, TokenOf
    <2>2. PICK t \in Task : t = TokenOf(c)
      BY <1>0 DEF Task, TokenOf
    <2>3. \A d : TaskDue(TokenOf(d)) => TaskDue(TokenOf(d))'
      BY <2>1, <2>2, DueStays
    <2>4. TaskDue(TokenOf(c))'
      <3>1. worker' = Append(worker, t)
        BY <2>1, <2>2
      <3>2. Len(worker) + 1 \in DOMAIN worker' /\ worker'[Len(worker) + 1] = t
        BY <1>0, <3>1, AppendKeeps
      <3> QED
        BY <2>2, <3>2 DEF TaskDue
    <2>5. PICK d : d = stream.closes /\ stream' = stream
      BY <1>5 DEF TokenArrives
    <2>6. stream.state = "Starting" => d \in tokens' \/ TaskDue(TokenOf(d))'
      BY <2>1, <2>3, <2>4, <2>5 DEF TokenInv
    <2>7. TaskDue(TokenOf(d))' => TaskDue(TokenOf(stream.closes))'
      BY <2>5
    <2> QED
      BY <2>5, <2>6, <2>7 DEF TokenInv
  <1>6. CASE OnEvent \/ Get
    <2>1. UNCHANGED <<stream, tokens>>
      BY <1>6 DEF OnEvent, Get
    <2>2. worker' = worker \/ \E u \in Task : worker' = Append(worker, u)
      <3>1. CASE Get
        <4>1. [kind |-> "listen", get |-> Len(asks) + 1] \in Task
          BY <3>1, WatchAssumptions DEF Get, Task, Gets, WatchInv, AppType
        <4> QED
          BY <3>1, <4>1 DEF Get
      <3>2. CASE OnEvent
        <4>1. Head(main) \in Answer
          BY <3>2 DEF OnEvent, WatchInv
        <4>2. [kind |-> "remove", get |-> Head(main).get] \in Task
          BY <4>1 DEF Answer, Task
        <4> QED
          BY <3>2, <4>2 DEF OnEvent
      <3> QED
        BY <1>6, <3>1, <3>2
    <2>3. \A c : TaskDue(TokenOf(c)) => TaskDue(TokenOf(c))'
      BY <2>2, DueStays
    <2> QED
      BY <2>1, <2>3, TokenStays
  <1>7. CASE BackoffTimer \/ NetworkRestarts \/ ConnectionLost
    <2>1. RequestCredentials /\ UNCHANGED worker
      BY <1>7 DEF BackoffTimer, NetworkRestarts, ConnectionLost, WatchStreamBroken, app
    <2> QED
      BY <2>1, TokenStays DEF TaskDue
  <1>8. CASE TokenFails
    <2>1. Reopened(stream)
      BY <1>8 DEF TokenFails, WatchStreamBroken
    <2>2. PICK f \in StreamState : f = Fail(stream)
      BY <1>0, StreamTypes
    <2>3. f.state = "Error" /\ (stream' = f \/ stream' = Start(f))
      BY <1>0, <2>1, <2>2, StreamSteps DEF Reopened
    <2>4. stream'.state # "Starting"
      BY <2>3, StreamSteps
    <2> QED
      BY <2>4 DEF TokenInv
  <1>9. CASE IdleTimer
    <2>1. stream'.state = "Initial"
      BY <1>0, <1>9, StreamSteps DEF IdleTimer, HealthInv, IsOpen, IsStarted
    <2> QED
      BY <2>1 DEF TokenInv
  <1>10. CASE Reads \/ Serves \/ ServerChanges \/ OnlineTimer \/ UNCHANGED vars
    <2>1. UNCHANGED <<stream, tokens, worker>>
      BY <1>10 DEF Reads, TargetAdded, TargetRemoved, TargetCurrent, DocumentChange,
         TargetRejected, Snapshot, Read, Serves, ServerWatches, ServerUnwatches, ServerSends,
         ServerChanges, OnlineTimer, vars
    <2> QED
      BY <2>1, TokenStays DEF TaskDue
  <1> QED
    BY <1>2, <1>3, <1>4, <1>5, <1>6, <1>7, <1>8, <1>9, <1>10 DEF Next, Tasks, Faults

(***************************************************************************)
(* Who waits is not in sync, and the client may be online                  *)
(***************************************************************************)

WaitInv ==
    \A g \in Listening : g \notin raised =>
        asks[g] \notin current /\ tracker.state # "Offline"

\* After a broadcast nobody waits, or nothing has changed for those who do.
LEMMA BroadcastWaits ==
    ASSUME WatchInv, WaitInv, Broadcast, UNCHANGED <<asks, listeners>>
    PROVE  WaitInv'
  <1>1. Listening' = Listening /\ \A g : asks'[g] = asks[g]
    BY DEF Listening
  <1>2. CASE tracker.state # "Offline" /\ tracker'.state = "Offline"
    <2>1. raised' = raised \cup {g \in Listening : g \notin raised \/ asks[g] \in current}
      BY <1>2 DEF Broadcast, Raise
    <2> QED
      BY <1>1, <2>1 DEF WaitInv
  <1>3. CASE ~(tracker.state # "Offline" /\ tracker'.state = "Offline")
    <2>1. UNCHANGED <<raised, current>>
      BY <1>3 DEF Broadcast, RaiseNothing
    <2> QED
      BY <1>1, <1>3, <2>1 DEF WaitInv
  <1> QED
    BY <1>2, <1>3

\* Who listens to a query that a snapshot makes current is raised by it.
LEMMA SnapshotWaits ==
    ASSUME WatchInv, WaitInv, Snapshot
    PROVE  WaitInv'
  <1>1. UNCHANGED <<asks, listeners>> /\ tracker' = UpdateState(tracker, "Online")
    BY DEF Snapshot, Read, app
  <1>2. Listening' = Listening /\ \A g : asks'[g] = asks[g]
    BY <1>1 DEF Listening
  <1>3. PICK synced, news :
           /\ current' = synced /\ synced \subseteq views
           /\ \A q \in synced : q \notin current => q \in news
           /\ raised' = raised \cup {g \in Listening :
                 asks[g] \in news /\ (g \in raised \/ asks[g] \in synced)}
    <2> DEFINE changed == {q \in DOMAIN states : IsActive(q) /\ states[q].changed}
               synced  == {q \in views : IF q \in changed THEN states[q].current
                                         ELSE q \in current}
               newDocs == {q \in DOMAIN docs : docs[q] > cache[q]}
               news    == {q \in views : q \in newDocs \/ (q \in synced) # (q \in current)}
    <2>1. /\ current' = synced
          /\ raised' = raised \cup {g \in Listening :
                asks[g] \in news /\ (g \in raised \/ asks[g] \in synced)}
      BY DEF Snapshot, Raise
    <2>2. synced \subseteq views
      OBVIOUS
    <2> HIDE DEF synced, newDocs
    <2>3. \A q \in synced : q \notin current => q \in news
      BY <2>2
    <2> QED
      BY <2>1, <2>2, <2>3
  <1>4. tracker'.state = "Online"
    BY <1>1 DEF UpdateState
  <1> QED
    BY <1>2, <1>3, <1>4 DEF WaitInv

\* Every step leaves those who wait with something to wait for.
LEMMA WaitStep ==
    ASSUME WatchInv, WaitInv, [Next]_vars
    PROVE  WaitInv'
  <1>0. /\ AppType /\ Known /\ current \subseteq views /\ tracker \in Tracker
        /\ listeners \in [Queries -> SUBSET Gotten] /\ Listening \subseteq Gotten
    BY ListeningGotten DEF WatchInv, DataType, NetType, AppType
  <1>1. ASSUME Listening' \subseteq Listening, \A g \in Listening : asks'[g] = asks[g],
               raised \subseteq raised', current' \subseteq current,
               tracker'.state = "Offline" => tracker.state = "Offline"
        PROVE  WaitInv'
    BY <1>1 DEF WaitInv
  <1>2. CASE JoinListeners \/ Listen
    <2> DEFINE g == Head(worker).get
               q == asks[g]
    <2>1. /\ UNCHANGED <<asks, current>> /\ listeners' = Registered(g)
          /\ tracker'.state \in {tracker.state, "Unknown"}
          /\ \/ Raise({g})
             \/ RaiseNothing /\ q \notin current /\ tracker.state # "Offline"
      <3>1. CASE JoinListeners
        BY <3>1 DEF JoinListeners, app
      <3>2. CASE Listen
        <4>1. StartListening(q)
          BY <3>2 DEF Listen
        <4>2. tracker'.state \in {tracker.state, "Unknown"}
          BY <4>1 DEF StartListening, HandleWatchStreamStart
        <4> QED
          BY <1>0, <3>2, <4>2 DEF Listen, app
      <3> QED
        BY <1>2, <3>1, <3>2
    <2>2. g \in Gotten /\ q \in Queries
      BY <1>0, <1>2, TaskTypes DEF JoinListeners, Listen
    <2>3. \A h \in Listening' : h \in Listening \/ h = g
      BY <1>0, <2>1 DEF Registered, Listening
    <2>4. /\ raised \subseteq raised'
          /\ \/ g \in raised'
             \/ q \notin current /\ tracker.state # "Offline"
      BY <2>1 DEF Raise, RaiseNothing
    <2>5. PICK h : h = g
      OBVIOUS
    <2> HIDE DEF g
    <2>6. ASSUME NEW k \in Listening', k \notin raised'
          PROVE  asks'[k] \notin current' /\ tracker'.state # "Offline"
      <3>1. asks[k] \notin current /\ tracker.state # "Offline"
        BY <2>3, <2>4, <2>6 DEF WaitInv
      <3> QED
        BY <2>1, <3>1
    <2> QED
      BY <2>6 DEF WaitInv
  <1>3. CASE RemoveListener
    <2>1. /\ UNCHANGED <<asks, raised>> /\ listeners' = Unregistered(Head(worker).get)
          /\ current' \subseteq current
          /\ StopListening(asks[Head(worker).get]) \/ UNCHANGED tracker
      BY <1>3 DEF RemoveListener, app
    <2>2. Listening' \subseteq Listening
      BY <1>0, <2>1 DEF Unregistered, Listening
    <2>3. tracker'.state = "Offline" => tracker.state = "Offline"
      BY <2>1 DEF StopListening, UpdateState
    <2> QED
      BY <1>1, <2>1, <2>2, <2>3
  <1>4. CASE TargetAdded \/ TargetRemoved \/ TargetCurrent \/ DocumentChange \/ TargetRejected
    <2>1. /\ UNCHANGED <<asks, raised>> /\ tracker' = UpdateState(tracker, "Online")
          /\ current' \subseteq current
          /\ listeners' = listeners \/ \E q : listeners' = ListenersFailed(q)
      BY <1>4 DEF TargetAdded, TargetRemoved, TargetCurrent, DocumentChange, TargetRejected,
         Read, app, engine
    <2>2. Listening' \subseteq Listening
      BY <1>0, <2>1 DEF ListenersFailed, Listening
    <2>3. tracker'.state # "Offline"
      BY <2>1 DEF UpdateState
    <2> QED
      BY <1>1, <2>1, <2>2, <2>3
  <1>5. CASE Snapshot
    BY <1>5, SnapshotWaits
  <1>6. CASE ConnectionLost \/ TokenFails \/ OnlineTimer
    BY <1>6, BroadcastWaits
       DEF ConnectionLost, TokenFails, OnlineTimer, WatchStreamBroken, app
  <1>7. CASE IdleTimer \/ NetworkRestarts
    <2>1. UNCHANGED <<asks, Listening, raised, current>> /\ tracker'.state = "Unknown"
      BY <1>7 DEF IdleTimer, NetworkRestarts, app, engine, Listening, UpdateState,
         HandleWatchStreamStart
    <2> QED
      BY <1>1, <2>1
  <1>8. CASE Get
    <2>1. UNCHANGED <<Listening, raised, current, tracker>>
      BY <1>8 DEF Get, engine, Listening
    <2>2. \A g \in Gotten : asks'[g] = asks[g]
      BY <1>0, <1>8, AppendKeeps DEF Get, Gotten, AppType
    <2> QED
      BY <1>0, <1>1, <2>1, <2>2
  <1>9. CASE DropToken \/ OpenStream \/ TokenArrives \/ OnEvent \/ BackoffTimer \/ Serves
             \/ ServerChanges \/ UNCHANGED vars
    <2>1. UNCHANGED <<asks, Listening, raised, current, tracker>>
      BY <1>9 DEF DropToken, OpenStream, TokenArrives, OnEvent, BackoffTimer, Serves,
         ServerWatches, ServerUnwatches, ServerSends, ServerChanges, vars, app, engine, Listening
    <2> QED
      BY <1>1, <2>1
  <1> QED
    BY <1>2, <1>3, <1>4, <1>5, <1>6, <1>7, <1>8, <1>9 DEF Next, Tasks, Reads, Faults

(***************************************************************************)
(* What is listened to is in sync, or will be                              *)
(***************************************************************************)

Synced(q) ==
    /\ q \in current /\ ~tracker.timer
    /\ q \in DOMAIN states /\ states[q].owed = 0 /\ states[q].current

\* The mark of q and the snapshot that follows are among the answers a.
MarkIn(q, a) ==
    \E k \in DOMAIN a : \E i \in 1 .. k :
        /\ a[k].kind = "snapshot" /\ a[i].kind = "current" /\ a[i].query = q
        /\ \A j \in About(q, a, {"added", "removed"}) : j < i

\* The mark was read, and the snapshot was not.
Ready(q) ==
    /\ IsActive(q) /\ State(q).current /\ State(q).changed
    /\ \E k \in DOMAIN answers : answers[k].kind = "snapshot"

ToBeSynced(q) ==
    \/ Asked(q) # {}
    \/ q \in DOMAIN serving /\ serving[q] = 0
    \/ Ready(q) \/ MarkIn(q, answers)

SyncInv == IsOpen(stream) => \A q \in targets \ Forbidden : Synced(q) \/ ToBeSynced(q)

\* A stream that breaks is not open after that.
LEMMA BrokenIsDown ==
    ASSUME WatchInv, ConnectionLost \/ TokenFails \/ NetworkRestarts
    PROVE  ~IsOpen(stream')
  <1>0. stream \in StreamState
    BY DEF WatchInv, NetType
  <1>1. CASE ConnectionLost \/ TokenFails
    <2>1. Reopened(stream)
      BY <1>1 DEF ConnectionLost, TokenFails, WatchStreamBroken
    <2>2. PICK f \in StreamState : f = Fail(stream) /\ f.state = "Error"
      BY <1>0, StreamTypes, StreamSteps
    <2>3. stream' = f \/ stream' = Start(f)
      BY <2>1, <2>2 DEF Reopened
    <2> QED
      BY <2>2, <2>3, StreamSteps DEF IsOpen
  <1>2. CASE NetworkRestarts
    <2>1. Stop(stream) \in StreamState
      BY <1>0, StreamTypes
    <2>2. PICK s \in StreamState : s = InhibitBackoff(Stop(stream)) /\ s.state = "Initial"
      BY <2>1, StreamTypes, StreamSteps
    <2>3. stream' = s \/ stream' = Start(s)
      BY <1>2, <2>2 DEF NetworkRestarts
    <2> QED
      BY <2>2, <2>3, StreamSteps DEF IsOpen
  <1> QED
    BY <1>1, <1>2

\* On an open stream a view that is current stays so, and the timer stays off.
LEMMA CurrentStays ==
    ASSUME WatchInv, [Next]_vars, ~Snapshot, IsOpen(stream), IsOpen(stream'),
           NEW q \in targets', q \in current, ~tracker.timer
    PROVE  q \in current' /\ ~tracker'.timer
  <1>1. CASE RemoveListener
    <2>1. \/ UNCHANGED <<current, tracker>>
          \/ \E r : /\ current' = current \ {r} /\ targets' = targets \ {r}
                    /\ tracker' = tracker
      BY <1>1 DEF RemoveListener, StopListening
    <2> QED
      BY <2>1
  <1>2. CASE TargetRejected
    <2>1. \/ UNCHANGED current
          \/ \E r : current' = current \ {r} /\ targets' = targets \ {r}
      BY <1>2 DEF TargetRejected
    <2>2. ~tracker'.timer
      BY <1>2 DEF TargetRejected, Read, UpdateState
    <2> QED
      BY <2>1, <2>2
  <1>3. CASE TargetAdded \/ TargetRemoved \/ TargetCurrent \/ DocumentChange
    <2>1. UNCHANGED current /\ tracker' = UpdateState(tracker, "Online")
      BY <1>3 DEF TargetAdded, TargetRemoved, TargetCurrent, DocumentChange, Read
    <2> QED
      BY <2>1 DEF UpdateState
  <1>4. CASE Listen
    <2>1. UNCHANGED current /\ \E r : StartListening(r)
      BY <1>4 DEF Listen
    <2>2. UNCHANGED tracker
      BY <2>1 DEF StartListening, IsOpen, IsStarted
    <2> QED
      BY <2>1, <2>2
  <1>5. CASE IdleTimer
    <2>1. UNCHANGED current /\ tracker' = UpdateState(tracker, "Unknown")
      BY <1>5 DEF IdleTimer
    <2> QED
      BY <2>1 DEF UpdateState
  <1>6. CASE OnlineTimer \/ ConnectionLost \/ TokenFails \/ NetworkRestarts
    BY <1>6, BrokenIsDown DEF OnlineTimer
  <1>7. CASE JoinListeners \/ DropToken \/ OpenStream \/ Serves \/ TokenArrives \/ OnEvent
             \/ BackoffTimer \/ Get \/ ServerChanges \/ UNCHANGED vars
    <2>1. UNCHANGED <<current, tracker>>
      BY <1>7 DEF JoinListeners, DropToken, OpenStream, Serves, ServerWatches,
         ServerUnwatches, ServerSends, TokenArrives, OnEvent, BackoffTimer, Get,
         ServerChanges, vars
    <2> QED
      BY <2>1
  <1> QED
    BY <1>1, <1>2, <1>3, <1>4, <1>5, <1>6, <1>7 DEF Next, Tasks, Reads, Faults

\* A target in sync stays so as long as its state does.
LEMMA SyncedStays ==
    ASSUME WatchInv, [Next]_vars, ~Snapshot, IsOpen(stream), IsOpen(stream'),
           NEW q \in targets', Synced(q),
           q \in DOMAIN states', states'[q].owed = 0, states'[q].current
    PROVE  Synced(q)'
  BY CurrentStays DEF Synced

\* What is put at the end does not undo a mark, unless it answers a request about q.
LEMMA MarkAppend ==
    ASSUME NEW a \in Seq(Message), NEW m \in Message, NEW q,
           ~(m.kind \in {"added", "removed"} /\ m.query = q), MarkIn(q, a)
    PROVE  MarkIn(q, Append(a, m))
  <1>1. PICK k \in DOMAIN a : \E i \in 1 .. k :
           /\ a[k].kind = "snapshot" /\ a[i].kind = "current" /\ a[i].query = q
           /\ \A j \in About(q, a, {"added", "removed"}) : j < i
    BY DEF MarkIn
  <1>2. PICK i \in 1 .. k :
           /\ a[k].kind = "snapshot" /\ a[i].kind = "current" /\ a[i].query = q
           /\ \A j \in About(q, a, {"added", "removed"}) : j < i
    BY <1>1
  <1>3. /\ DOMAIN a = 1 .. Len(a) /\ Len(a) \in Nat
        /\ DOMAIN Append(a, m) = DOMAIN a \cup {Len(a) + 1}
        /\ \A n \in DOMAIN a : Append(a, m)[n] = a[n]
    BY AppendKeeps
  <1>4. i \in DOMAIN a
    BY <1>3
  <1>5. About(q, Append(a, m), {"added", "removed"}) = About(q, a, {"added", "removed"})
    BY AboutOther
  <1>6. k \in DOMAIN Append(a, m) /\ Append(a, m)[k] = a[k] /\ Append(a, m)[i] = a[i]
    BY <1>3, <1>4
  <1> QED
    BY <1>2, <1>5, <1>6 DEF MarkIn

\* A mark and a snapshot at the end are after every answer.
LEMMA MarkEnds ==
    ASSUME NEW a \in Seq(Message), NEW c \in Message, NEW z \in Message,
           c.kind = "current", z.kind = "snapshot"
    PROVE  MarkIn(c.query, Append(Append(a, c), z))
  <1>1. PICK b \in Seq(Message) : b = Append(a, c)
    BY AppendKeeps
  <1>2. PICK d \in Seq(Message) : d = Append(b, z)
    BY AppendKeeps
  <1>3. /\ Len(a) \in Nat /\ DOMAIN a = 1 .. Len(a) /\ Len(b) = Len(a) + 1
        /\ b[Len(a) + 1] = c /\ DOMAIN b = DOMAIN a \cup {Len(a) + 1}
    BY <1>1, AppendKeeps
  <1>4. /\ DOMAIN d = DOMAIN b \cup {Len(b) + 1} /\ d[Len(b) + 1] = z
        /\ \A n \in DOMAIN b : d[n] = b[n]
    BY <1>2, AppendKeeps
  <1>5. About(c.query, d, {"added", "removed"}) = About(c.query, a, {"added", "removed"})
    <2>1. About(c.query, b, {"added", "removed"}) = About(c.query, a, {"added", "removed"})
      BY <1>1, AboutOther
    <2>2. About(c.query, d, {"added", "removed"}) = About(c.query, b, {"added", "removed"})
      BY <1>2, AboutOther
    <2> QED
      BY <2>1, <2>2
  <1>6. \A j \in About(c.query, d, {"added", "removed"}) : j < Len(a) + 1
    BY <1>3, <1>5 DEF About
  <1>7. PICK i : i = Len(a) + 1 /\ i \in Nat /\ i # 0
    BY <1>3
  <1>8. i + 1 \in DOMAIN d /\ d[i + 1] = z /\ d[i] = c /\ i \in 1 .. (i + 1)
    BY <1>3, <1>4, <1>7
  <1> QED
    BY <1>1, <1>2, <1>6, <1>7, <1>8 DEF MarkIn

\* When the head is read, the mark behind it moves up with its snapshot.
LEMMA MarkTail ==
    ASSUME NEW a \in Seq(Message), a # << >>, NEW q, MarkIn(q, a)
    PROVE  \/ MarkIn(q, Tail(a))
           \/ /\ Head(a).kind = "current" /\ Head(a).query = q
              /\ About(q, a, {"added", "removed"}) = {}
              /\ \E k \in DOMAIN Tail(a) : Tail(a)[k].kind = "snapshot"
  <1>1. PICK k \in DOMAIN a : \E i \in 1 .. k :
           /\ a[k].kind = "snapshot" /\ a[i].kind = "current" /\ a[i].query = q
           /\ \A j \in About(q, a, {"added", "removed"}) : j < i
    BY DEF MarkIn
  <1>2. PICK i \in 1 .. k :
           /\ a[k].kind = "snapshot" /\ a[i].kind = "current" /\ a[i].query = q
           /\ \A j \in About(q, a, {"added", "removed"}) : j < i
    BY <1>1
  <1>3. /\ DOMAIN Tail(a) = {n \in Nat : n # 0 /\ n + 1 \in DOMAIN a}
        /\ \A n \in DOMAIN Tail(a) : Tail(a)[n] = a[n + 1]
        /\ a[1] = Head(a) /\ DOMAIN a \subseteq Nat \ {0}
    BY TailMoves
  <1>4. k \in Nat /\ k # 1 /\ k # 0 /\ i \in Nat /\ i # 0 /\ i <= k
    BY <1>2, <1>3
  <1>5. k - 1 \in Nat /\ k - 1 # 0 /\ (k - 1) + 1 = k
    BY <1>4
  <1>6. k - 1 \in DOMAIN Tail(a) /\ Tail(a)[k - 1] = a[k]
    BY <1>3, <1>5
  <1>7. CASE i = 1
    <2>1. \A j \in About(q, a, {"added", "removed"}) : j \in Nat \ {0} /\ j < 1
      BY <1>2, <1>3, <1>7 DEF About
    <2>2. About(q, a, {"added", "removed"}) = {}
      BY <2>1
    <2> QED
      BY <1>2, <1>3, <1>6, <1>7, <2>2
  <1>8. CASE i # 1
    <2>1. i - 1 \in Nat /\ i - 1 # 0 /\ (i - 1) + 1 = i /\ i - 1 \in 1 .. (k - 1)
      BY <1>4, <1>5, <1>8
    <2>2. i \in DOMAIN a
      <3>1. DOMAIN a = 1 .. Len(a) /\ Len(a) \in Nat
        OBVIOUS
      <3> QED
        BY <1>4, <3>1
    <2>3. i - 1 \in DOMAIN Tail(a) /\ Tail(a)[i - 1] = a[i]
      BY <1>3, <2>1, <2>2
    <2>4. PICK kinds : kinds = {"added", "removed"}
      OBVIOUS
    <2>5. \A j \in About(q, Tail(a), kinds) : j \in Nat /\ j + 1 \in About(q, a, kinds)
      BY <1>3 DEF About
    <2>6. \A j \in About(q, Tail(a), kinds) : j < i - 1
      BY <1>2, <1>4, <2>4, <2>5
    <2> QED
      BY <1>2, <1>6, <2>1, <2>3, <2>4, <2>6 DEF MarkIn
  <1> QED
    BY <1>7, <1>8

\* Asking for another query changes nothing for this one.
LEMMA AskingSyncs ==
    ASSUME WatchInv, SyncInv, [Next]_vars, NEW r \in Queries, Asks(r),
           NEW q \in targets' \ Forbidden
    PROVE  Synced(q)' \/ ToBeSynced(q)'
  <1>0. sent \in Seq(Request) /\ IsOpen(stream) /\ IsOpen(stream')
    BY DEF WatchInv, NetType, Asks
  <1>1. PICK m \in Request :
           /\ m.query = r /\ m.kind \in {"watch", "unwatch"} /\ sent' = Append(sent, m)
           /\ targets' = targets \cup {r} \/ targets' = targets \ {r}
    <2>1. /\ Watch(r) \in Request /\ Watch(r).query = r /\ Watch(r).kind = "watch"
          /\ Unwatch(r) \in Request /\ Unwatch(r).query = r /\ Unwatch(r).kind = "unwatch"
      BY DEF Watch, Unwatch, Request
    <2> QED
      BY <2>1 DEF Asks
  <1>2. CASE r = q
    <2>1. Len(sent) + 1 \in DOMAIN sent' /\ sent'[Len(sent) + 1] = m
      BY <1>0, <1>1, AppendKeeps
    <2>2. Len(sent) + 1 \in Asked(q)'
      BY <1>1, <1>2, <2>1 DEF Asked, About
    <2> QED
      BY <2>2 DEF ToBeSynced
  <1>3. CASE r # q
    <2>1. q \in targets /\ UNCHANGED <<answers, serving>>
      BY <1>1, <1>3 DEF Asks
    <2>2. Asked(q)' = Asked(q)
      BY <1>0, <1>1, <1>3, AboutOther DEF Asked
    <2>3. /\ q \in DOMAIN states => q \in DOMAIN states' /\ states'[q] = states[q]
          /\ State(q)' = State(q)
      <3>1. states' = Put(states, r, [State(r) EXCEPT !.owed = @ + 1])
        BY DEF Asks, Owing
      <3> QED
        BY <1>3, <3>1 DEF Put, State
    <2>4. Synced(q) \/ ToBeSynced(q)
      BY <1>0, <2>1 DEF SyncInv
    <2>5. CASE Synced(q)
      <3>1. ~Snapshot
        BY <1>1, AppendKeeps, <1>0 DEF Snapshot, Read
      <3> QED
        BY <1>0, <2>3, <2>5, <3>1, SyncedStays DEF Synced
    <2>6. CASE ToBeSynced(q)
      <3>1. Ready(q) => Ready(q)'
        BY <2>1, <2>3 DEF Ready, IsActive
      <3>2. MarkIn(q, answers)' <=> MarkIn(q, answers)
        BY <2>1
      <3> QED
        BY <2>1, <2>2, <2>6, <3>1, <3>2 DEF ToBeSynced
    <2> QED
      BY <2>4, <2>5, <2>6
  <1> QED
    BY <1>2, <1>3

\* The server looks at a request for q, or sends the documents of q and the mark.
LEMMA ServingSyncs ==
    ASSUME WatchInv, StreamInv, StreamInv', SyncInv, Serves, NEW q \in targets' \ Forbidden
    PROVE  IsOpen(stream) => Synced(q)' \/ ToBeSynced(q)'
  <1>0. /\ UNCHANGED <<targets, states, docs, stream, current, tracker>> /\ q \in targets
        /\ q \in Queries \ Forbidden /\ answers \in Seq(Message) /\ sent \in Seq(Request)
    BY ServesWays DEF WatchInv, DataType, NetType, Serves, ServerWatches, ServerUnwatches,
       ServerSends
  <1> SUFFICES ASSUME IsOpen(stream) PROVE Synced(q)' \/ ToBeSynced(q)'
    OBVIOUS
  <1>1. Synced(q) \/ ToBeSynced(q)
    BY <1>0 DEF SyncInv
  <1>2. IsOpen(stream')
    BY <1>0
  <1>3. CASE Synced(q)
    BY <1>0, <1>3 DEF Synced
  <1>4. ASSUME NEW k \in DOMAIN answers, answers[k].kind = "snapshot", IsActive(q),
               State(q).current, State(q).changed,
               k \in DOMAIN answers' /\ answers'[k] = answers[k]
        PROVE  Ready(q)'
    <2>1. State(q)' = State(q)
      BY <1>0 DEF State
    <2> QED
      BY <1>0, <1>4, <2>1 DEF Ready, IsActive
  <1>5. CASE ToBeSynced(q) /\ (ServerWatches \/ ServerUnwatches)
    <2>1. PICK r \in Queries : r = Head(sent).query
      BY <1>5, HeadRequest DEF ServerWatches, ServerUnwatches
    <2>2. /\ [kind |-> "rejected", query |-> r] \in Message
          /\ [kind |-> "added", query |-> r] \in Message
          /\ [kind |-> "removed", query |-> r] \in Message
      BY DEF Message
    <2>3. PICK m \in Message : answers' = Append(answers, m) /\ m.query = r
      BY <1>5, <2>1, <2>2 DEF ServerWatches, ServerUnwatches
    <2>4. sent # << >> /\ sent' = Tail(sent)
      BY <1>5 DEF ServerWatches, ServerUnwatches
    <2>5. CASE r = q
      <3>1. CASE Asked(q)' = {}
        <4>1. q \in DOMAIN serving'
          BY <1>0, <1>2, <3>1 DEF StreamInv, Agrees
        <4>2. ServerWatches
          BY <1>5, <2>1, <2>5, <4>1 DEF ServerUnwatches, Without
        <4>3. serving' = Put(serving, q, 0)
          BY <1>0, <2>1, <2>5, <4>2 DEF ServerWatches
        <4> QED
          BY <4>3 DEF Put, ToBeSynced
      <3>2. CASE Asked(q)' # {}
        BY <3>2 DEF ToBeSynced
      <3> QED
        BY <3>1, <3>2
    <2>6. CASE r # q
      <3>1. Asked(q) # {} => Asked(q)' # {}
        <4>1. ~(Head(sent).kind \in {"watch", "unwatch"} /\ Head(sent).query = q)
          BY <2>1, <2>6
        <4>2. Cardinality(Asked(q)') = Cardinality(Asked(q))
          BY <1>0, <2>4, <4>1, AboutSame DEF Asked
        <4> QED
          BY <4>2, FS_EmptySet, OwesTypes
      <3>2. q \in DOMAIN serving /\ serving[q] = 0 => q \in DOMAIN serving' /\ serving'[q] = 0
        BY <1>5, <2>1, <2>6 DEF ServerWatches, ServerUnwatches, Put, Without
      <3>3. Ready(q) => Ready(q)'
        BY <1>0, <1>4, <2>3, AppendKeeps DEF Ready
      <3>4. MarkIn(q, answers) => MarkIn(q, answers')
        BY <1>0, <2>3, <2>6, MarkAppend
      <3>5. MarkIn(q, answers)' <=> MarkIn(q, answers')
        OBVIOUS
      <3> QED
        BY <1>5, <3>1, <3>2, <3>3, <3>4, <3>5 DEF ToBeSynced
    <2> QED
      BY <2>5, <2>6
  <1>6. CASE ToBeSynced(q) /\ ServerSends
    <2>1. PICK r \in DOMAIN serving, d \in Message, c \in Message, z \in Message :
             /\ d = DocumentOf(r, version[r]) /\ c = CurrentOf(r) /\ z = SnapshotMark
             /\ \/ answers' = Append(Append(answers, d), z)
                \/ answers' = Append(Append(Append(answers, d), c), z)
             /\ serving[r] = 0 => answers' = Append(Append(Append(answers, d), c), z)
             /\ serving' = [serving EXCEPT ![r] = version[r]]
      BY <1>6, SendsWays
    <2>2. Asked(q)' = Asked(q)
      BY <1>6 DEF ServerSends, Asked, About
    <2>3. /\ d.kind = "document" /\ c.query = r /\ c.kind = "current" /\ z.kind = "snapshot"
      BY <2>1 DEF DocumentOf, CurrentOf, SnapshotMark
    <2>4. PICK a \in Seq(Message) : a = Append(answers, d)
      BY <1>0, AppendKeeps
    <2>5. PICK b \in Seq(Message) : b = Append(a, c)
      BY <2>4, AppendKeeps
    <2>6. \A k \in DOMAIN answers : k \in DOMAIN answers' /\ answers'[k] = answers[k]
      <3>1. \A k \in DOMAIN answers : k \in DOMAIN a /\ a[k] = answers[k]
        BY <1>0, <2>4, AppendKeeps
      <3>2. \A k \in DOMAIN a : k \in DOMAIN b /\ b[k] = a[k]
        BY <2>5, AppendKeeps
      <3>3. \A k \in DOMAIN a : k \in DOMAIN Append(a, z) /\ Append(a, z)[k] = a[k]
        BY AppendKeeps
      <3>4. \A k \in DOMAIN b : k \in DOMAIN Append(b, z) /\ Append(b, z)[k] = b[k]
        BY AppendKeeps
      <3> QED
        BY <2>1, <2>4, <2>5, <3>1, <3>2, <3>3, <3>4
    <2>7. Ready(q) => Ready(q)'
      BY <1>4, <2>6 DEF Ready
    <2>8. MarkIn(q, answers) => MarkIn(q, answers')
      <3>1. ASSUME MarkIn(q, answers)
            PROVE  MarkIn(q, Append(a, z)) /\ MarkIn(q, Append(b, z))
        <4>1. MarkIn(q, a)
          BY <1>0, <2>3, <2>4, <3>1, MarkAppend
        <4>2. MarkIn(q, b)
          BY <2>3, <2>5, <4>1, MarkAppend
        <4> QED
          BY <2>3, <4>1, <4>2, MarkAppend
      <3> QED
        BY <2>1, <2>4, <2>5, <3>1
    <2>9. q \in DOMAIN serving /\ serving[q] = 0 =>
             (q \in DOMAIN serving' /\ serving'[q] = 0) \/ MarkIn(q, answers')
      <3>1. CASE r = q /\ serving[q] = 0
        <4>1. answers' = Append(Append(a, c), z)
          BY <2>1, <2>4, <3>1
        <4> QED
          BY <2>3, <3>1, <4>1, MarkEnds
      <3>2. CASE r # q
        BY <2>1, <3>2
      <3> QED
        BY <3>1, <3>2
    <2>10. MarkIn(q, answers)' <=> MarkIn(q, answers')
      OBVIOUS
    <2> QED
      BY <1>6, <2>2, <2>7, <2>8, <2>9, <2>10 DEF ToBeSynced
  <1> QED
    BY <1>1, <1>3, <1>5, <1>6 DEF Serves

\* While nothing is owed, an answer that is read keeps what is known of the target.
LEMMA StateStays ==
    ASSUME WatchInv, DecidedInv, Reads, ~Snapshot, NEW q \in Queries \ Forbidden,
           q \in targets, State(q).owed = 0, Settled(q) = {}
    PROVE  /\ State(q).current => State(q)'.current
           /\ State(q).changed => State(q)'.changed
           /\ q \in DOMAIN states => q \in DOMAIN states'
           /\ Head(answers).kind = "current" /\ Head(answers).query = q =>
                 State(q)'.current /\ State(q)'.changed
  <1>1. answers # << >>
    BY DEF Reads, TargetAdded, TargetRemoved, TargetCurrent, DocumentChange, TargetRejected,
       NextAnswer
  <1>2. PICK m \in Message : m = Head(answers) /\ m = answers[1] /\ 1 \in DOMAIN answers
    BY <1>1, HeadAnswer
  <1>3. ~(m.kind \in {"added", "removed"} /\ m.query = q)
    BY <1>2 DEF Settled, About
  <1>4. IsActive(q)
    BY DEF IsActive
  <1>5. ASSUME NEW r, r # q,
               \/ (\E s : states' = Put(states, r, s)) \/ states' = Without(states, r)
               \/ UNCHANGED states
        PROVE  State(q)' = State(q) /\ (q \in DOMAIN states => q \in DOMAIN states')
    BY <1>5 DEF State, Put, Without
  <1>6. CASE TargetAdded
    <2>1. m.kind = "added" /\ \E s : states' = Put(states, m.query, s)
      BY <1>2, <1>6 DEF TargetAdded, NextAnswer, Added
    <2> QED
      BY <1>2, <1>3, <1>5, <2>1
  <1>7. CASE TargetRemoved
    <2>1. /\ m.kind = "removed"
          /\ (\E s : states' = Put(states, m.query, s)) \/ states' = Without(states, m.query)
      BY <1>2, <1>7 DEF TargetRemoved, NextAnswer, Removed
    <2> QED
      BY <1>2, <1>3, <1>5, <2>1
  <1>8. CASE TargetCurrent
    <2>1. m.kind = "current" /\ Current(m.query)
      BY <1>2, <1>8 DEF TargetCurrent, NextAnswer
    <2>2. CASE m.query = q
      <3>1. states' = Put(states, q, [owed |-> 0, current |-> TRUE, changed |-> TRUE])
        BY <1>4, <2>1, <2>2 DEF Current
      <3> QED
        BY <3>1 DEF Put, State
    <2>3. CASE m.query # q
      <3>1. \E s : states' = Put(states, m.query, s)
        BY <2>1 DEF Current
      <3> QED
        BY <1>2, <1>5, <2>3, <3>1
    <2> QED
      BY <2>2, <2>3
  <1>9. CASE DocumentChange
    <2>1. m.kind = "document" /\ Document(m.query, m.version)
      BY <1>2, <1>9 DEF DocumentChange, NextAnswer
    <2>2. CASE m.query = q
      <3>1. PICK t \in TargetState : t = State(q)
        BY StateTypes DEF WatchInv, NetType
      <3>2. states' = Put(states, q, [t EXCEPT !.changed = TRUE])
        BY <1>4, <2>1, <2>2, <3>1 DEF Document
      <3>3. PICK u : u = [t EXCEPT !.changed = TRUE]
        OBVIOUS
      <3>4. u.current = t.current /\ u.changed
        BY <3>3 DEF TargetState
      <3>5. State(q)' = u /\ q \in DOMAIN states'
        BY <3>2, <3>3 DEF Put, State
      <3> QED
        BY <1>2, <2>1, <3>1, <3>4, <3>5
    <2>3. CASE m.query # q
      <3>1. (\E s : states' = Put(states, m.query, s)) \/ UNCHANGED states
        BY <2>1 DEF Document
      <3> QED
        BY <1>2, <1>5, <2>3, <3>1
    <2> QED
      BY <2>2, <2>3
  <1>10. CASE TargetRejected
    <2>1. m.kind = "rejected" /\ Decided(m)
      BY <1>2, <1>10 DEF TargetRejected, NextAnswer, DecidedInv
    <2>2. m.query # q
      BY <2>1 DEF Decided
    <2>3. states' = Without(states, m.query) \/ UNCHANGED states
      BY <1>2, <1>10 DEF TargetRejected
    <2> QED
      BY <1>2, <1>5, <2>1, <2>2, <2>3
  <1> QED
    BY <1>6, <1>7, <1>8, <1>9, <1>10 DEF Reads

\* A snapshot finds the target marked and brings it in sync, or leaves it so.
LEMMA SnapshotSyncs ==
    ASSUME WatchInv, RegistriesAgree, Snapshot, NEW q \in targets, q \in DOMAIN states,
           states[q].owed = 0, states[q].current, q \in current \/ states[q].changed
    PROVE  Synced(q)'
  <1>0. q \in Queries /\ q \in views
    BY DEF WatchInv, DataType, RegistriesAgree
  <1>1. PICK changed :
           /\ changed = {r \in DOMAIN states : IsActive(r) /\ states[r].changed}
           /\ current' = {r \in views : IF r \in changed THEN states[r].current
                                        ELSE r \in current}
    BY DEF Snapshot
  <1>2. states[q].changed => q \in changed
    BY <1>1 DEF IsActive, State
  <1>3. q \in current'
    BY <1>0, <1>1, <1>2
  <1>4. /\ q \in DOMAIN states' /\ states'[q].owed = states[q].owed
        /\ states'[q].current = states[q].current
    BY <1>0, SnapshotParts
  <1>5. ~tracker'.timer
    BY DEF Snapshot, Read, UpdateState
  <1> QED
    BY <1>3, <1>4, <1>5 DEF Synced

\* An answer that is read brings the mark, the snapshot after it, or moves them up.
LEMMA ReadingSyncs ==
    ASSUME WatchInv, RegistriesAgree, StreamInv, SyncInv, [Next]_vars, Reads,
           NEW q \in targets' \ Forbidden
    PROVE  Synced(q)' \/ ToBeSynced(q)'
  <1> DEFINE h == Head(answers)
  <1>0. /\ IsOpen(stream) /\ IsOpen(stream') /\ answers # << >> /\ answers' = Tail(answers)
        /\ UNCHANGED <<sent, serving>> /\ q \in targets /\ q \in Queries \ Forbidden
        /\ answers \in Seq(Message) /\ DecidedInv
    <2>1. targets' \subseteq targets
      BY DEF Reads, TargetAdded, TargetRemoved, TargetCurrent, DocumentChange,
         TargetRejected, Snapshot
    <2> QED
      BY <2>1 DEF Reads, TargetAdded, TargetRemoved, TargetCurrent, DocumentChange,
         TargetRejected, Snapshot, NextAnswer, Read, IsOpen, WatchInv, DataType, StreamInv
  <1>1. Synced(q) \/ ToBeSynced(q)
    BY <1>0 DEF SyncInv
  <1>2. CASE Asked(q) # {} \/ (q \in DOMAIN serving /\ serving[q] = 0)
    <2>1. Asked(q)' = Asked(q)
      BY <1>0 DEF Asked, About
    <2> QED
      BY <1>0, <1>2, <2>1 DEF ToBeSynced
  <1>3. State(q).owed = 0 => Settled(q) = {}
    <2>1. State(q).owed = Cardinality(Asked(q)) + Cardinality(Settled(q))
      BY <1>0 DEF StreamInv, Owes
    <2>2. /\ Cardinality(Asked(q)) \in Nat /\ Cardinality(Settled(q)) \in Nat
          /\ Settled(q) = {} <=> Cardinality(Settled(q)) = 0
      BY OwesTypes
    <2> QED
      BY <2>1, <2>2
  <1>4. State(q)'.owed = IF h.kind \in {"added", "removed"} /\ h.query = q
                         THEN State(q).owed - 1 ELSE State(q).owed
    BY <1>0, OwedAfterRead
  <1>5. h = answers[1] /\ 1 \in DOMAIN answers
    BY <1>0, HeadAnswer
  <1>6. ASSUME State(q).owed = 0, ~Snapshot
        PROVE  /\ State(q)'.owed = 0
               /\ State(q).current => State(q)'.current
               /\ State(q).changed => State(q)'.changed
               /\ q \in DOMAIN states => q \in DOMAIN states'
               /\ h.kind = "current" /\ h.query = q => State(q)'.current /\ State(q)'.changed
    <2>1. Settled(q) = {}
      BY <1>3, <1>6
    <2>2. ~(h.kind \in {"added", "removed"} /\ h.query = q)
      BY <1>5, <2>1 DEF Settled, About
    <2> QED
      BY <1>0, <1>4, <1>6, <2>1, <2>2, StateStays
  <1>7. CASE Synced(q)
    <2>1. State(q) = states[q] /\ State(q).owed = 0 /\ State(q).current
      BY <1>7 DEF Synced, State
    <2>2. CASE Snapshot
      BY <1>0, <1>7, <2>2, SnapshotSyncs DEF Synced
    <2>3. CASE ~Snapshot
      <3>1. q \in DOMAIN states' /\ states'[q].owed = 0 /\ states'[q].current
        BY <1>6, <1>7, <2>1, <2>3 DEF Synced, State
      <3> QED
        BY <1>0, <1>7, <2>3, <3>1, SyncedStays
    <2> QED
      BY <2>2, <2>3
  <1>8. CASE Ready(q)
    <2>1. State(q).owed = 0 /\ State(q).current /\ State(q).changed
      BY <1>8 DEF Ready, IsActive
    <2>2. q \in DOMAIN states /\ State(q) = states[q]
      BY <2>1 DEF State, NewTarget
    <2>3. CASE Snapshot
      BY <1>0, <2>1, <2>2, <2>3, SnapshotSyncs
    <2>4. CASE ~Snapshot
      <3>1. State(q)'.owed = 0 /\ State(q)'.current /\ State(q)'.changed
        BY <1>6, <2>1, <2>4
      <3>2. PICK k \in DOMAIN answers : answers[k].kind = "snapshot"
        BY <1>8 DEF Ready
      <3>3. h.kind # "snapshot"
        BY <2>4 DEF Reads, TargetAdded, TargetRemoved, TargetCurrent, DocumentChange,
           TargetRejected, NextAnswer
      <3>4. k \in Nat /\ k # 0 /\ k # 1
        <4>1. DOMAIN answers \subseteq Nat \ {0}
          BY <1>0, TailMoves
        <4> QED
          BY <1>5, <3>2, <3>3, <4>1
      <3>5. k - 1 \in Nat /\ k - 1 # 0 /\ (k - 1) + 1 = k
        BY <3>4
      <3>6. k - 1 \in DOMAIN Tail(answers) /\ Tail(answers)[k - 1] = answers[k]
        <4>1. /\ DOMAIN Tail(answers) = {n \in Nat : n # 0 /\ n + 1 \in DOMAIN answers}
              /\ \A n \in DOMAIN Tail(answers) : Tail(answers)[n] = answers[n + 1]
          BY <1>0, TailMoves
        <4>2. k - 1 \in DOMAIN Tail(answers)
          BY <3>2, <3>5, <4>1
        <4> QED
          BY <3>5, <4>1, <4>2
      <3> QED
        BY <1>0, <3>1, <3>2, <3>6 DEF ToBeSynced, Ready, IsActive
    <2> QED
      BY <2>3, <2>4
  <1>9. CASE Asked(q) = {} /\ MarkIn(q, answers)
    <2>1. CASE MarkIn(q, Tail(answers))
      <3>1. MarkIn(q, answers)'
        BY <1>0, <2>1
      <3> QED
        BY <3>1 DEF ToBeSynced
    <2>2. CASE /\ h.kind = "current" /\ h.query = q
               /\ About(q, answers, {"added", "removed"}) = {}
               /\ \E k \in DOMAIN Tail(answers) : Tail(answers)[k].kind = "snapshot"
      <3>1. State(q).owed = 0
        BY <1>0, <1>9, <2>2, NothingOwed DEF Settled
      <3>2. ~Snapshot
        BY <2>2 DEF Snapshot, NextAnswer
      <3>3. State(q)'.owed = 0 /\ State(q)'.current /\ State(q)'.changed
        BY <1>6, <2>2, <3>1, <3>2
      <3> QED
        BY <1>0, <2>2, <3>3 DEF ToBeSynced, Ready, IsActive
    <2> QED
      BY <1>0, <1>9, <2>1, <2>2, MarkTail
  <1> QED
    BY <1>1, <1>2, <1>7, <1>8, <1>9 DEF ToBeSynced

\* At first there is no stream.
LEMMA SyncInit == Init => SyncInv
  BY DEF Init, NewStream, IsOpen, SyncInv

\* Every step leaves a target in sync or to be synced.
LEMMA SyncStep ==
    ASSUME WatchInv, WatchInv', AssertionsHold, RegistriesAgree, StreamInv, StreamInv',
           SyncInv, [Next]_vars
    PROVE  SyncInv'
  <1> SUFFICES ASSUME IsOpen(stream'), NEW q \in targets' \ Forbidden
               PROVE  Synced(q)' \/ ToBeSynced(q)'
    BY DEF SyncInv
  <1>0. q \in Queries \ Forbidden /\ BareWhenDown
    BY DEF WatchInv, DataType, StreamInv
  <1>1. CASE OpenStream
    <2>1. DOMAIN serving' = {}
      BY <1>0, <1>1, OpenAsks DEF Bare
    <2>2. Asked(q)' # {}
      BY <1>0, <2>1 DEF StreamInv, Agrees
    <2> QED
      BY <2>2 DEF ToBeSynced
  <1>2. CASE Reads
    BY <1>2, ReadingSyncs
  <1>3. CASE Serves
    <2>1. IsOpen(stream)
      BY <1>3, ServesWays
    <2> QED
      BY <1>3, <2>1, ServingSyncs
  <1>4. CASE StreamDown
    BY <1>4 DEF StreamDown
  <1>5. CASE StreamKept /\ ~Reads
    <2>1. UNCHANGED <<targets, states, sent, answers, serving>> /\ IsOpen(stream)
      BY <1>5 DEF StreamKept
    <2>2. Synced(q) \/ ToBeSynced(q)
      BY <2>1 DEF SyncInv
    <2>3. Synced(q) => Synced(q)'
      BY <1>5, <2>1, SyncedStays DEF Synced, Reads
    <2>4. ToBeSynced(q) => ToBeSynced(q)'
      BY <2>1 DEF ToBeSynced, Asked, About, Ready, MarkIn, IsActive, State
    <2> QED
      BY <2>2, <2>3, <2>4
  <1>6. ASSUME NEW r \in Queries, Asks(r) PROVE Synced(q)' \/ ToBeSynced(q)'
    BY <1>6, AskingSyncs
  <1> QED
    BY <1>0, <1>1, <1>2, <1>3, <1>4, <1>5, <1>6, StreamWays

(***************************************************************************)
(* No read is forgotten                                                    *)
(***************************************************************************)

UnderWayInv == AccountInv /\ TokenInv /\ WaitInv /\ SyncInv

\* Who listens and was not answered is waiting for what is under way.
LEMMA ListenersWait ==
    ASSUME WatchInv, AssertionsHold, RegistriesAgree, StreamInv, HealthInv, UnderWayInv,
           NEW g \in Listening, g \notin raised
    PROVE  AnswerComes(asks[g])
  <1> DEFINE q == asks[g]
  <1>1. q \in targets /\ q \in Queries /\ IsStarted(stream)
    <2>1. g \in listeners[q] /\ q \in Queries
      BY DEF WatchInv, Known, Listening
    <2> QED
      BY <2>1 DEF RegistriesAgree
  <1> HIDE DEF q
  <1>2. CASE stream.state = "Backoff"
    BY <1>2 DEF AnswerComes
  <1>3. CASE stream.state = "Starting"
    <2>1. stream.closes \in tokens \/ TaskDue(TokenOf(stream.closes))
      BY <1>3 DEF UnderWayInv, TokenInv
    <2>2. TokenComes
      BY <2>1 DEF TokenComes, TaskDue, TokenOf, ToSet
    <2> QED
      BY <1>3, <2>2 DEF AnswerComes
  <1>4. CASE IsOpen(stream) /\ q \in Forbidden
    <2>1. Awaits(q)
      BY <1>4 DEF StreamInv
    <2> QED
      BY <1>1, <1>4, <2>1 DEF Awaits, AnswerComes, q
  <1>5. CASE IsOpen(stream) /\ q \notin Forbidden
    <2>1. q \notin current
      BY DEF UnderWayInv, WaitInv, q
    <2>2. ToBeSynced(q)
      BY <1>1, <1>5, <2>1 DEF UnderWayInv, SyncInv, Synced
    <2>3. CASE Asked(q) # {}
      <3>1. PICK asked : asked = Asked(q)
        OBVIOUS
      <3>2. /\ asked \in SUBSET Nat /\ Len(sent) \in Nat
            /\ \A i \in asked : i <= Len(sent)
        <4>1. sent \in Seq(Request)
          BY DEF WatchInv, NetType
        <4>2. DOMAIN sent = 1 .. Len(sent) /\ Len(sent) \in Nat
          BY <4>1
        <4>3. asked \subseteq DOMAIN sent
          BY <3>1 DEF Asked, About
        <4> QED
          BY <4>2, <4>3
      <3>3. Max(asked) \in asked /\ \A j \in asked : Max(asked) >= j
        BY <2>3, <3>1, <3>2, MaxOfBounded
      <3>4. \A j \in asked : j <= Max(asked)
        BY <3>2, <3>3
      <3>5. Agrees(q)
        BY <1>1, <1>5 DEF StreamInv
      <3>6. sent[Max(asked)].kind = "watch"
        BY <1>1, <3>1, <3>3, <3>4, <3>5 DEF Agrees
      <3>7. About(q, sent, {"watch"}) # {}
        BY <3>1, <3>3, <3>6 DEF Asked, About
      <3> QED
        BY <1>5, <3>7 DEF AnswerComes, q
    <2>4. CASE q \in DOMAIN serving /\ serving[q] = 0
      BY <1>5, <2>4 DEF AnswerComes, q
    <2>5. CASE Ready(q)
      <3>1. Marked(q)
        BY <2>5 DEF Ready, Marked
      <3> QED
        BY <1>5, <3>1 DEF AnswerComes, q
    <2>6. CASE MarkIn(q, answers)
      <3>1. Marked(q)
        BY <2>6 DEF MarkIn, Marked
      <3> QED
        BY <1>5, <3>1 DEF AnswerComes, q
    <2> QED
      BY <2>2, <2>3, <2>4, <2>5, <2>6 DEF ToBeSynced
  <1> QED
    BY <1>1, <1>2, <1>3, <1>4, <1>5 DEF IsStarted, IsOpen

\* The four parts hold at first ...
LEMMA UnderWayInit == Init => UnderWayInv
  <1>1. Init => TokenInv
    BY DEF Init, NewStream, TokenInv
  <1>2. Init => WaitInv
    BY DEF Init, Listening, WaitInv
  <1> QED
    BY <1>1, <1>2, AccountInit, SyncInit DEF UnderWayInv

\* ... and every step keeps them.
LEMMA UnderWayStep ==
    WatchInv /\ WatchInv' /\ OnceInv /\ HealthInv /\ AssertionsHold /\ RegistriesAgree
       /\ StreamInv /\ StreamInv' /\ UnderWayInv /\ [Next]_vars => UnderWayInv'
  BY AccountStep, TokenStep, WaitStep, SyncStep DEF UnderWayInv

\* Whatever is lost, given up, rejected or asked for again, in every state a read
\* that was not answered has its task or its answer in a queue, or it is listened to
\* and the timer, the token, the request or the messages that will answer it are
\* under way.
THEOREM NoReadForgotten == Spec => []NoReadIsForgotten
  <1>1. ASSUME WatchInv, AssertionsHold, RegistriesAgree, StreamInv, HealthInv, UnderWayInv
        PROVE  NoReadIsForgotten
    <2> SUFFICES ASSUME NEW g \in DOMAIN asks
                 PROVE  \/ [kind |-> "listen", get |-> g] \in ToSet(worker)
                        \/ \E k \in DOMAIN main : main[k].get = g
                        \/ \E k \in DOMAIN told : told[k].get = g
                        \/ g \in Listening /\ AnswerComes(asks[g])
      BY DEF NoReadIsForgotten
    <2>1. TaskDue(ListenOf(g)) => [kind |-> "listen", get |-> g] \in ToSet(worker)
      BY DEF TaskDue, ListenOf, ToSet
    <2>2. \/ TaskDue(ListenOf(g)) \/ Replied(g) \/ Got(g)
          \/ g \in Listening /\ g \notin raised
      BY <1>1 DEF UnderWayInv, AccountInv, Accounted, Gotten, RaisedReplied
    <2> QED
      BY <1>1, <2>1, <2>2, ListenersWait DEF Replied, Got
  <1>2. Spec => [](WatchInv /\ OnceInv)
    BY WatchInit, OnceInit, WatchStep, OnceStep, PTL DEF Spec
  <1>3. Spec => []UnderWayInv
    BY <1>2, UnderWayInit, UnderWayStep, HealthAlways, NoAssertionFails, RegistriesHold,
       StreamAlways, PTL DEF Spec
  <1> QED
    BY <1>1, <1>3, HealthAlways, NoAssertionFails, RegistriesHold, StreamAlways, PTL
=============================================================================
