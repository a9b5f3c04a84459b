------------------------ MODULE WritePipelineProofs ------------------------
(***************************************************************************)
(* Theorems about WritePipeline, for every set of owners, every length of  *)
(* the pipeline and every bound.                                           *)
(***************************************************************************)
EXTENDS WritePipeline, DataLemmas

USE PipelineAssumptions DEF None

(***************************************************************************)
(* Mutation queues and the pipeline                                        *)
(***************************************************************************)

Ascending(q) == \A j, k \in DOMAIN q : j < k => q[j].id < q[k].id

LEMMA BatchId == \A b \in Batch : b.id \in Nat \ {0} /\ b.write \in Writes
  BY DEF Batch

\* The queue after the last batch retrieved is the queue after the pipeline.
LEMMA NextAfterPipeline ==
    ASSUME NEW q \in Seq(Batch), NEW p \in Seq(Batch), Ascending(q), IsPrefix(p, q)
    PROVE  NextMutationBatchAfter(q, LastRetrieved(p)) = Len(p) + 1
  <1> DEFINE last == LastRetrieved(p)
             Next1(k) == /\ \A j \in 1 .. k - 1 : q[j].id <= last
                         /\ k <= Len(q) => q[k].id > last
  <1>1. Len(p) <= Len(q) /\ \A i \in 1 .. Len(p) : p[i] = q[i]
    BY PrefixPointwise
  <1>2. \A i \in 1 .. Len(q) : q[i].id \in Nat \ {0}
    BY BatchId
  <1>3. \A i \in 1 .. Len(q) : i <= Len(p) <=> q[i].id <= last
    <2>1. CASE p = << >>
      BY <1>2, <2>1 DEF LastRetrieved
    <2>2. CASE p # << >>
      <3>1. Len(p) \in 1 .. Len(q) /\ last = q[Len(p)].id
        BY <1>1, <2>2 DEF LastRetrieved, Last
      <3> QED
        BY <1>2, <3>1 DEF Ascending
    <2> QED
      BY <2>1, <2>2
  <1>4. last \in Nat
    <2>1. p # << >> => Len(p) \in 1 .. Len(q) /\ last = q[Len(p)].id
      BY <1>1 DEF LastRetrieved, Last
    <2> QED
      BY <1>2, <2>1 DEF LastRetrieved
  <1>5. Len(p) + 1 \in 1 .. Len(q) + 1 /\ Next1(Len(p) + 1)
    BY <1>1, <1>2, <1>3, <1>4
  <1>6. \A k \in 1 .. Len(q) + 1 : Next1(k) => k = Len(p) + 1
    BY <1>1, <1>2, <1>3, <1>4
  <1> HIDE DEF Next1
  <1>7. (CHOOSE k \in 1 .. Len(q) + 1 : Next1(k)) = Len(p) + 1
    BY <1>5, <1>6
  <1> QED
    BY <1>7 DEF NextMutationBatchAfter, Next1

\* FillWritePipeline keeps the pipeline the front of the queue, within its bound.
LEMMA NewFollowsPipeline ==
    ASSUME NEW q \in Seq(Batch), NEW p \in Seq(Batch), Ascending(q), IsPrefix(p, q),
           Len(p) <= MaxPending
    PROVE  /\ NewInPipeline(q, p) \in Seq(Batch)
           /\ p \o NewInPipeline(q, p) \in Seq(Batch)
           /\ IsPrefix(p \o NewInPipeline(q, p), q)
           /\ Len(p \o NewInPipeline(q, p)) <= MaxPending
  <1> DEFINE next == Len(p) + 1
             end  == IF Len(q) < next + (MaxPending - Len(p)) - 1 THEN Len(q)
                     ELSE next + (MaxPending - Len(p)) - 1
             new  == NewInPipeline(q, p)
  <1>1. new = SubSeq(q, next, end)
    BY NextAfterPipeline DEF NewInPipeline
  <1>2. Len(p) <= Len(q) /\ \A i \in 1 .. Len(p) : p[i] = q[i]
    BY PrefixPointwise
  <1>3. end \in Nat /\ Len(p) <= end /\ end <= Len(q) /\ end <= MaxPending
    BY <1>2
  <1> HIDE DEF end, new
  <1>4. \A i \in next .. end : q[i] \in Batch
    BY <1>3
  <1>5. /\ new \in Seq(Batch)
        /\ Len(new) = end - Len(p)
        /\ \A i \in 1 .. Len(new) : new[i] = q[Len(p) + i]
    <2>1. /\ SubSeq(q, next, end) \in Seq(Batch)
          /\ Len(SubSeq(q, next, end)) = IF next <= end THEN end - next + 1 ELSE 0
          /\ \A i \in 1 .. end - next + 1 : SubSeq(q, next, end)[i] = q[next + i - 1]
      BY <1>3, <1>4, SubSeqProperties
    <2> QED
      BY <1>1, <1>3, <2>1
  <1>6. /\ p \o new \in Seq(Batch)
        /\ Len(p \o new) = end
        /\ \A i \in 1 .. end : (p \o new)[i] = q[i]
    <2>1. /\ p \o new \in Seq(Batch)
          /\ Len(p \o new) = Len(p) + Len(new)
          /\ \A i \in 1 .. Len(p) + Len(new) :
                (p \o new)[i] = IF i <= Len(p) THEN p[i] ELSE new[i - Len(p)]
      BY <1>5, ConcatProperties
    <2> QED
      BY <1>2, <1>3, <1>5, <2>1
  <1>7. IsPrefix(p \o new, q)
    BY <1>3, <1>6, PrefixPointwise
  <1> QED
    BY <1>3, <1>5, <1>6, <1>7 DEF new

\* The front of a queue is removed by its id, and what is left still ascends.
LEMMA FrontRemoved ==
    ASSUME NEW q \in Seq(Batch), Ascending(q), q # << >>
    PROVE  /\ RemoveMutationBatch(q, Head(q).id) = Tail(q)
           /\ Tail(q) \in Seq(Batch)
           /\ Ascending(Tail(q))
           /\ \A k \in DOMAIN Tail(q) : k + 1 \in DOMAIN q /\ Tail(q)[k] = q[k + 1]
  <1>1. \A i \in 1 .. Len(q) : q[i].id \in Nat
    BY BatchId
  <1>2. 1 \in DOMAIN q /\ \A k \in DOMAIN q : q[k].id = Head(q).id => k = 1
    BY <1>1 DEF Ascending
  <1>3. (CHOOSE k \in DOMAIN q : q[k].id = Head(q).id) = 1
    BY <1>2
  <1>4. SubSeq(q, 1, 0) = << >> /\ SubSeq(q, 2, Len(q)) = Tail(q)
    BY SubSeqEmpty, TailIsSubSeq
  <1>5. /\ Tail(q) \in Seq(Batch) /\ Len(Tail(q)) = Len(q) - 1
        /\ \A i \in 1 .. Len(Tail(q)) : Tail(q)[i] = q[i + 1]
    BY HeadTailProperties
  <1>6. RemoveMutationBatch(q, Head(q).id) = << >> \o Tail(q)
    <2>1. RemoveMutationBatch(q, Head(q).id) = RemoveAt(q, 1)
      BY <1>3, Zenon DEF RemoveMutationBatch
    <2>2. RemoveAt(q, 1) = SubSeq(q, 1, 0) \o SubSeq(q, 2, Len(q))
      BY DEF RemoveAt
    <2> QED
      BY <1>4, <2>1, <2>2
  <1>7. << >> \o Tail(q) = Tail(q)
    BY <1>5, ConcatEmptySeq
  <1>8. \A k \in DOMAIN Tail(q) : k + 1 \in DOMAIN q /\ Tail(q)[k] = q[k + 1]
    BY <1>5
  <1>9. Ascending(Tail(q))
    BY <1>5, <1>8 DEF Ascending
  <1> QED
    BY <1>5, <1>6, <1>7, <1>8, <1>9

LEMMA AppendAscends ==
    ASSUME NEW q \in Seq(Batch), Ascending(q), NEW b \in Batch,
           \A k \in DOMAIN q : q[k].id < b.id
    PROVE  Append(q, b) \in Seq(Batch) /\ Ascending(Append(q, b))
  <1>1. /\ Append(q, b) \in Seq(Batch) /\ Len(Append(q, b)) = Len(q) + 1
        /\ \A i \in 1 .. Len(q) : Append(q, b)[i] = q[i]
        /\ Append(q, b)[Len(q) + 1] = b
    BY AppendProperties
  <1> QED
    BY <1>1 DEF Ascending

\* The next id is above every id in use by any user.
LEMMA NextIdIsNew ==
    ASSUME NEW qs \in [Owners -> Seq(Batch)], NEW n \in Nat,
           \A o \in Owners : \A k \in DOMAIN qs[o] : qs[o][k].id < n
    PROVE  /\ LoadNextBatchId(qs) \in Nat \ {0}
           /\ \A o \in Owners : \A k \in DOMAIN qs[o] : qs[o][k].id < LoadNextBatchId(qs)
  <1>1. \A x : x \in Ids(qs) <=> \E o \in Owners : \E k \in DOMAIN qs[o] : x = qs[o][k].id
    BY DEF Ids
  <1>2. \A o \in Owners : \A k \in DOMAIN qs[o] : qs[o][k].id \in Nat
    BY BatchId
  <1>3. Ids(qs) \cup {None} \in SUBSET Nat /\ \A x \in Ids(qs) \cup {None} : x <= n
    BY <1>1, <1>2
  <1>4. /\ Max(Ids(qs) \cup {None}) \in Ids(qs) \cup {None}
        /\ \A y \in Ids(qs) \cup {None} : Max(Ids(qs) \cup {None}) >= y
    BY <1>3, MaxOfBounded
  <1>5. PICK m : m = Max(Ids(qs) \cup {None})
    OBVIOUS
  <1>6. m \in Nat /\ \A x \in Ids(qs) : x <= m
    BY <1>3, <1>4, <1>5
  <1>7. LoadNextBatchId(qs) = 1 + m
    BY <1>5 DEF LoadNextBatchId
  <1>8. \A o \in Owners : \A k \in DOMAIN qs[o] : qs[o][k].id <= m
    BY <1>1, <1>6
  <1> QED
    BY <1>2, <1>6, <1>7, <1>8

LEMMA StreamTypes ==
    \A s \in StreamState :
        /\ NewStream \in StreamState /\ Start(s) \in StreamState
        /\ BackoffElapsed(s) \in StreamState /\ OnStreamStart(s) \in StreamState
        /\ InhibitBackoff(s) \in StreamState /\ Stop(s) \in StreamState
        /\ Fail(s) \in StreamState /\ MarkIdle(s) \in StreamState
        /\ WriteTo(s) \in StreamState
  <1> TAKE s \in StreamState
  <1>1. Close(s, "Initial") \in StreamState /\ Close(s, "Error") \in StreamState
    BY DEF Close, StreamState, States
  <1>2. NewStream \in StreamState /\ Stop(s) \in StreamState /\ Fail(s) \in StreamState
    BY <1>1 DEF NewStream, Stop, Fail, StreamState, States
  <1>3. Start(s) \in StreamState /\ BackoffElapsed(s) \in StreamState
    BY DEF Start, BackoffElapsed, StreamState, States
  <1>4. OnStreamStart(s) \in StreamState /\ InhibitBackoff(s) \in StreamState
    BY DEF OnStreamStart, InhibitBackoff, StreamState, States
  <1>5. MarkIdle(s) \in StreamState /\ WriteTo(s) \in StreamState
    BY DEF MarkIdle, WriteTo, IsOpen, StreamState, States
  <1> QED
    BY <1>2, <1>3, <1>4, <1>5

(***************************************************************************)
(* Types, queues and the pipeline                                          *)
(***************************************************************************)

\* Ids ascend along every queue, and the next one is above them all, whosever
\* queue they are in.
QueuesAscend ==
    /\ \A o \in Owners : Ascending(queue[o])
    /\ \A o \in Owners : \A k \in DOMAIN queue[o] : queue[o][k].id < nextBatch

QueueInv == TypeOK /\ QueuesAscend /\ PipelineIsQueueFront

LEMMA QueueInit == Init => QueueInv
  <1> SUFFICES ASSUME Init PROVE QueueInv
    OBVIOUS
  <1>1. << >> \in Seq(Block) /\ << >> \in Seq(Task) /\ << >> \in Seq(Message)
    OBVIOUS
  <1>2. queue \in [Owners -> Seq(Batch)] /\ pipeline \in Seq(Batch)
    BY DEF Init
  <1>3. NewStream \in StreamState
    BY DEF NewStream, StreamState, States
  <1>4. \A o \in Owners : callbacks[o] = << >> /\ queue[o] = << >>
    BY DEF Init
  <1>5. DOMAIN callbacks = Owners
    BY DEF Init
  <1>6. TypeOK
    <2>1. \A o \in Owners : DOMAIN callbacks[o] = {}
      BY <1>4
    <2>2. \A o \in Owners : /\ DOMAIN callbacks[o] \subseteq Nat \ {0}
                             /\ \A id \in DOMAIN callbacks[o] : callbacks[o][id] \in Writes
      BY <2>1
    <2>3. /\ main \in Seq(Block) /\ worker \in Seq(Task)
          /\ sent \in Seq(Message) /\ answers \in Seq(Message)
      BY <1>1 DEF Init
    <2>4. /\ signedIn \in Owners /\ user \in Owners /\ tokens \in Nat
          /\ asked \subseteq GetToken /\ nextBatch \in Nat \ {0}
          /\ openedAs \subseteq Owners
      BY DEF Init
    <2>6. stream \in StreamState /\ shaken \in BOOLEAN
      BY <1>3, Zenon DEF Init
    <2>5. /\ refused \in Writes \cup {None} /\ nextWrite \in Nat \ {0}
          /\ committed \subseteq Writes /\ told \subseteq [write : Writes, ok : BOOLEAN]
          /\ switches \in Nat /\ faults \in Nat
      BY DEF Init
    <2> QED
      BY <1>2, <1>5, <2>2, <2>3, <2>4, <2>5, <2>6 DEF TypeOK
  <1>7. QueuesAscend
    BY <1>4 DEF QueuesAscend, Ascending
  <1>8. PipelineIsQueueFront
    <2>1. pipeline = << >> /\ queue[user] = << >>
      BY <1>4, <1>6 DEF Init, TypeOK
    <2>2. IsPrefix(pipeline, queue[user])
      BY <1>2, <1>6, <2>1, PrefixPointwise DEF TypeOK
    <2> QED
      BY <2>1, <2>2 DEF PipelineIsQueueFront
  <1> QED
    BY <1>6, <1>7, <1>8 DEF QueueInv

\* What FillWritePipeline does to the pipeline and to the stream.
LEMMA FillTypes ==
    ASSUME shaken \in BOOLEAN,
           NEW q \in Seq(Batch), NEW p \in Seq(Batch), NEW s \in StreamState,
           Ascending(q), IsPrefix(p, q), Len(p) <= MaxPending,
           FillWritePipeline(q, p, s)
    PROVE  /\ pipeline' \in Seq(Batch) /\ stream' \in StreamState
           /\ pipeline' = p \o NewInPipeline(q, p)
           /\ NewInPipeline(q, p) \in Seq(Batch)
           /\ IsPrefix(pipeline', q) /\ Len(pipeline') <= MaxPending
  <1> DEFINE new == NewInPipeline(q, p)
             s2  == IF p \o new = << >> THEN MarkIdle(s)
                    ELSE IF new # << >> /\ CanSend(s) THEN WriteTo(s) ELSE s
  <1>1. pipeline' = p \o new /\ stream' = IF ShouldStart(s2, p \o new) THEN Start(s2) ELSE s2
    BY DEF FillWritePipeline
  <1>2. s2 \in StreamState
    BY StreamTypes
  <1> HIDE DEF s2
  <1>3. stream' \in StreamState
    BY <1>1, <1>2, StreamTypes
  <1> QED
    BY <1>1, <1>3, NewFollowsPipeline

\* Whoever asks for a token asks in the name of who is signed in.
LEMMA AskedTypes ==
    ASSUME asked \subseteq GetToken, tokens \in Nat, signedIn \in Owners,
           NEW s \in StreamState, RequestCredentials(s)
    PROVE  asked' \subseteq GetToken
  <1>1. s.closes \in Nat
    BY DEF StreamState
  <1> QED
    BY <1>1 DEF RequestCredentials, GetToken

LEMMA RestartTypes ==
    ASSUME TypeOK, NEW q \in Seq(Batch), Ascending(q), RestartNetwork(q)
    PROVE  /\ pipeline' \in Seq(Batch) /\ stream' \in StreamState
           /\ asked' \subseteq GetToken
           /\ IsPrefix(pipeline', q) /\ Len(pipeline') <= MaxPending
           /\ sent' \in Seq(Message) /\ answers' \in Seq(Message)
           /\ openedAs' \subseteq Owners /\ refused' \in Writes \cup {None}
           /\ shaken' \in BOOLEAN
  <1>1. PICK s \in StreamState : s = InhibitBackoff(Stop(stream))
    BY StreamTypes DEF TypeOK
  <1>2. FillWritePipeline(q, << >>, s)
    BY <1>1 DEF RestartNetwork
  <1>3. << >> \in Seq(Batch) /\ Len(<< >>) <= MaxPending /\ IsPrefix(<< >>, q)
    <2>1. << >> \in Seq(Batch) /\ Len(<< >>) = 0
      OBVIOUS
    <2> QED
      BY <2>1, EmptyIsPrefix
  <1>4. /\ pipeline' \in Seq(Batch) /\ stream' \in StreamState
        /\ IsPrefix(pipeline', q) /\ Len(pipeline') <= MaxPending
    BY <1>2, <1>3, FillTypes DEF TypeOK
  <1>5. PICK t \in StreamState : t = stream'
    BY <1>4
  <1>6. RequestCredentials(t)
    BY <1>5 DEF RestartNetwork
  <1>7. asked' \subseteq GetToken
    BY <1>6, AskedTypes DEF TypeOK
  <1>8. /\ sent' \in Seq(Message) /\ answers' \in Seq(Message)
        /\ openedAs' \subseteq Owners /\ refused' \in Writes \cup {None}
        /\ shaken' \in BOOLEAN
    <2>1. << >> \in Seq(Message)
      OBVIOUS
    <2> QED
      BY <2>1 DEF RestartNetwork, StreamGone
  <1> QED
    BY <1>4, <1>7, <1>8

\* The front of the queue leaves it, and its completion block is called.
LEMMA AnsweredTypes ==
    ASSUME QueueInv, pipeline # << >>, NEW ok \in BOOLEAN,
           BatchAnswered(Head(pipeline).id, ok)
    PROVE  /\ queue' \in [Owners -> Seq(Batch)]
           /\ queue[user] # << >> /\ Head(pipeline) = Head(queue[user])
           /\ queue'[user] = Tail(queue[user])
           /\ \A o \in Owners \ {user} : queue'[o] = queue[o]
           /\ \A o \in Owners : Ascending(queue'[o])
           /\ \A o \in Owners : \A k \in DOMAIN queue'[o] : queue'[o][k].id < nextBatch
           /\ Tail(pipeline) \in Seq(Batch) /\ Len(Tail(pipeline)) <= MaxPending
           /\ IsPrefix(Tail(pipeline), queue'[user])
           /\ DOMAIN callbacks' = Owners
           /\ \A o \in Owners : /\ DOMAIN callbacks'[o] \subseteq DOMAIN callbacks[o]
                                /\ \A id \in DOMAIN callbacks'[o] :
                                      callbacks'[o][id] = callbacks[o][id]
           /\ DOMAIN callbacks'[user] = DOMAIN callbacks[user] \ {Head(pipeline).id}
           /\ told' \subseteq [write : Writes, ok : BOOLEAN]
  <1>1. /\ user \in Owners /\ queue \in [Owners -> Seq(Batch)] /\ pipeline \in Seq(Batch)
        /\ DOMAIN callbacks = Owners /\ told \subseteq [write : Writes, ok : BOOLEAN]
        /\ queue[user] \in Seq(Batch)
    BY DEF QueueInv, TypeOK
  <1>2. IsPrefix(pipeline, queue[user]) /\ Len(pipeline) <= MaxPending
    BY DEF QueueInv, PipelineIsQueueFront
  <1>3. /\ queue[user] # << >> /\ Head(pipeline) = Head(queue[user])
        /\ IsPrefix(Tail(pipeline), Tail(queue[user]))
    BY <1>1, <1>2, PrefixTail
  <1>4. PICK q \in Seq(Batch) : q = queue[user]
    BY <1>1
  <1>5. Ascending(q)
    BY <1>1, <1>4 DEF QueueInv, QueuesAscend
  <1>6. /\ RemoveMutationBatch(q, Head(q).id) = Tail(q)
        /\ Tail(q) \in Seq(Batch) /\ Ascending(Tail(q))
        /\ \A k \in DOMAIN Tail(q) : k + 1 \in DOMAIN q /\ Tail(q)[k] = q[k + 1]
    BY <1>3, <1>4, <1>5, FrontRemoved
  <1>7. queue' = [queue EXCEPT ![user] = Tail(q)]
    BY <1>3, <1>4, <1>6 DEF BatchAnswered
  <1>8. /\ queue' \in [Owners -> Seq(Batch)] /\ queue'[user] = Tail(queue[user])
        /\ \A o \in Owners \ {user} : queue'[o] = queue[o]
    BY <1>1, <1>4, <1>6, <1>7
  <1>9. \A o \in Owners : Ascending(queue'[o])
    BY <1>4, <1>6, <1>8 DEF QueueInv, QueuesAscend
  <1>10. \A o \in Owners : \A k \in DOMAIN queue'[o] : queue'[o][k].id < nextBatch
    <2>1. \A o \in Owners : \A k \in DOMAIN queue[o] : queue[o][k].id < nextBatch
      BY DEF QueueInv, QueuesAscend
    <2>2. \A k \in DOMAIN Tail(q) : Tail(q)[k].id < nextBatch
      BY <1>1, <1>4, <1>6, <2>1
    <2>3. queue'[user] = Tail(q) /\ \A o \in Owners : o # user => queue'[o] = queue[o]
      BY <1>4, <1>8
    <2> QED
      BY <2>1, <2>2, <2>3
  <1>11. Tail(pipeline) \in Seq(Batch) /\ Len(Tail(pipeline)) <= MaxPending
    BY <1>1, <1>2
  <1>12. callbacks' = [callbacks EXCEPT ![user] = Drop(@, Head(pipeline).id)]
    BY DEF BatchAnswered, NotifyUser
  <1>13. /\ DOMAIN callbacks' = Owners
         /\ \A o \in Owners : o # user => callbacks'[o] = callbacks[o]
         /\ callbacks'[user] = Drop(callbacks[user], Head(pipeline).id)
    BY <1>1, <1>12
  <1>14. /\ DOMAIN callbacks'[user] = DOMAIN callbacks[user] \ {Head(pipeline).id}
         /\ \A id \in DOMAIN callbacks'[user] : callbacks'[user][id] = callbacks[user][id]
    BY <1>13 DEF Drop
  <1>15. told' \subseteq [write : Writes, ok : BOOLEAN]
    <2>1. \A id \in DOMAIN callbacks[user] : callbacks[user][id] \in Writes
      BY <1>1 DEF QueueInv, TypeOK
    <2> QED
      BY <1>1, <2>1 DEF BatchAnswered, NotifyUser
  <1> QED
    BY <1>3, <1>8, <1>9, <1>10, <1>11, <1>13, <1>14, <1>15

\* Tasks of the worker queue keep their types.
LEMMA TaskTypes ==
    ASSUME TypeOK, NEW kind, NextTask(kind)
    PROVE  /\ Head(worker) \in Task /\ Tail(worker) \in Seq(Task)
           /\ kind = "write" => Head(worker).write \in Writes
           /\ kind = "user" => Head(worker).user \in Owners
           /\ kind = "token" => Head(worker).user \in Owners /\ Head(worker).closes \in Nat
  <1>1. worker \in Seq(Task) /\ worker # << >> /\ Head(worker).kind = kind
    BY DEF TypeOK, NextTask
  <1>2. Head(worker) \in Task /\ Tail(worker) \in Seq(Task)
    BY <1>1
  <1> QED
    BY <1>1, <1>2 DEF Task

\* Blocks of the main queue keep theirs.
LEMMA BlockTypes ==
    ASSUME TypeOK, NEW kind, NextBlock(kind)
    PROVE  /\ Head(main) \in Block /\ Tail(main) \in Seq(Block)
           /\ kind = "user" => Head(main) \in Task
           /\ kind = "token" => /\ Head(main).user \in Owners
                                /\ Head(main).closes \in Nat /\ Head(main).count \in Nat
  <1>1. main \in Seq(Block) /\ main # << >> /\ Head(main).kind = kind
    BY DEF TypeOK, NextBlock
  <1>2. Head(main) \in Block /\ Tail(main) \in Seq(Block)
    BY <1>1
  <1> QED
    BY <1>1, <1>2 DEF Block, Task

LEMMA QueueKept ==
    ASSUME QueueInv, TypeOK', UNCHANGED <<queue, nextBatch, user, pipeline>>
    PROVE  QueueInv'
  <1>1. QueuesAscend'
    BY DEF QueueInv, QueuesAscend
  <1>2. PipelineIsQueueFront'
    BY DEF QueueInv, PipelineIsQueueFront
  <1> QED
    BY <1>1, <1>2 DEF QueueInv

\* Batches can be written to the stream after what is on it.
LEMMA SentTypes ==
    ASSUME NEW s \in Seq(Message), NEW b \in Seq(Batch)
    PROVE  s \o b \in Seq(Message)
  <1>1. b \in Seq(Message)
    BY SeqMonotonic DEF Message
  <1> QED
    BY <1>1, ConcatProperties

LEMMA WriteKeeps == ASSUME QueueInv, WriteMutations PROVE QueueInv'
  <1>1. /\ user \in Owners /\ queue \in [Owners -> Seq(Batch)] /\ nextBatch \in Nat \ {0}
        /\ pipeline \in Seq(Batch) /\ stream \in StreamState /\ shaken \in BOOLEAN
        /\ sent \in Seq(Message)
    BY DEF QueueInv, TypeOK
  <1>2. PICK w \in Writes : w = Head(worker).write
    BY TaskTypes DEF QueueInv, WriteMutations
  <1>3. PICK batch \in Batch : batch = [id |-> nextBatch, write |-> w]
    BY <1>1 DEF Batch
  <1>4. PICK q : q = Append(queue[user], batch)
    OBVIOUS
  <1>5. /\ q \in Seq(Batch) /\ Ascending(q)
        /\ \A k \in DOMAIN q : q[k] = batch \/ (k \in DOMAIN queue[user] /\ q[k] = queue[user][k])
    <2>1. queue[user] \in Seq(Batch) /\ Ascending(queue[user])
      BY <1>1 DEF QueueInv, QueuesAscend
    <2>2. \A k \in DOMAIN queue[user] : queue[user][k].id < batch.id
      BY <1>1, <1>3 DEF QueueInv, QueuesAscend
    <2>3. q \in Seq(Batch) /\ Ascending(q)
      BY <1>4, <2>1, <2>2, AppendAscends
    <2>4. \A k \in DOMAIN q : q[k] = batch \/ (k \in DOMAIN queue[user] /\ q[k] = queue[user][k])
      <3>1. /\ Len(q) = Len(queue[user]) + 1
            /\ \A k \in 1 .. Len(queue[user]) : q[k] = queue[user][k]
            /\ q[Len(queue[user]) + 1] = batch
        BY <1>4, <2>1, AppendProperties
      <3>2. DOMAIN q = 1 .. Len(queue[user]) + 1 /\ DOMAIN queue[user] = 1 .. Len(queue[user])
        BY <2>1, <2>3, <3>1
      <3>3. \A k \in DOMAIN q : k \in DOMAIN queue[user] \/ k = Len(queue[user]) + 1
        BY <2>1, <3>2
      <3> QED
        BY <3>1, <3>2, <3>3
    <2> QED
      BY <2>3, <2>4
  <1>6. IsPrefix(pipeline, q) /\ Len(pipeline) <= MaxPending
    BY <1>1, <1>4, PrefixAppend DEF QueueInv, PipelineIsQueueFront
  <1>7. /\ queue' = [queue EXCEPT ![user] = q]
        /\ callbacks' = IF nextBatch \in DOMAIN callbacks[user] THEN callbacks
                        ELSE [callbacks EXCEPT ![user] = Put(@, nextBatch, w)]
        /\ FillWritePipeline(q, pipeline, stream)
        /\ sent' = IF CanSend(stream) THEN sent \o NewInPipeline(q, pipeline) ELSE sent
    BY <1>2, <1>3, <1>4 DEF WriteMutations
  <1>8. /\ pipeline' \in Seq(Batch) /\ stream' \in StreamState
        /\ NewInPipeline(q, pipeline) \in Seq(Batch)
        /\ IsPrefix(pipeline', q) /\ Len(pipeline') <= MaxPending
    BY <1>1, <1>5, <1>6, <1>7, FillTypes
  <1>9. sent' \in Seq(Message)
    BY <1>1, <1>7, <1>8, SentTypes
  <1>10. /\ queue' \in [Owners -> Seq(Batch)] /\ queue'[user] = q
         /\ \A o \in Owners : o # user => queue'[o] = queue[o]
    BY <1>1, <1>5, <1>7
  <1>11. /\ DOMAIN callbacks' = Owners
         /\ \A o \in Owners : /\ DOMAIN callbacks'[o] \subseteq Nat \ {0}
                              /\ \A id \in DOMAIN callbacks'[o] : callbacks'[o][id] \in Writes
    <2>1. /\ DOMAIN callbacks = Owners
          /\ \A o \in Owners : /\ DOMAIN callbacks[o] \subseteq Nat \ {0}
                               /\ \A id \in DOMAIN callbacks[o] : callbacks[o][id] \in Writes
      BY DEF QueueInv, TypeOK
    <2>2. CASE nextBatch \in DOMAIN callbacks[user]
      BY <1>7, <2>1, <2>2
    <2>3. CASE nextBatch \notin DOMAIN callbacks[user]
      <3>1. /\ DOMAIN callbacks' = Owners
            /\ callbacks'[user] = Put(callbacks[user], nextBatch, w)
            /\ \A o \in Owners : o # user => callbacks'[o] = callbacks[o]
        BY <1>1, <1>7, <2>1, <2>3
      <3>2. /\ DOMAIN callbacks'[user] = DOMAIN callbacks[user] \cup {nextBatch}
            /\ \A id \in DOMAIN callbacks'[user] :
                  callbacks'[user][id] = IF id = nextBatch THEN w ELSE callbacks[user][id]
        BY <3>1 DEF Put
      <3> QED
        BY <1>1, <1>2, <2>1, <3>1, <3>2
    <2> QED
      BY <2>2, <2>3
  <1>12. asked' \subseteq GetToken
    <2>1. PICK t \in StreamState : t = stream'
      BY <1>8
    <2>2. RequestCredentials(t)
      BY <2>1 DEF WriteMutations
    <2> QED
      BY <2>2, AskedTypes DEF QueueInv, TypeOK
  <1>13. worker' \in Seq(Task) /\ nextBatch' \in Nat \ {0} /\ nextBatch' = nextBatch + 1
    BY <1>1, TaskTypes DEF QueueInv, WriteMutations
  <1>14. TypeOK'
    BY <1>8, <1>9, <1>10, <1>11, <1>12, <1>13
       DEF QueueInv, TypeOK, WriteMutations, history, bounds
  <1>15. QueuesAscend'
    <2>1. \A o \in Owners : Ascending(queue'[o])
      BY <1>5, <1>10 DEF QueueInv, QueuesAscend
    <2>2. \A o \in Owners : \A k \in DOMAIN queue[o] : queue[o][k].id < nextBatch
      BY DEF QueueInv, QueuesAscend
    <2>3. \A k \in DOMAIN q : q[k].id < nextBatch + 1
      <3>1. \A k \in DOMAIN queue[user] : queue[user][k].id < nextBatch + 1
        BY <1>1, <2>2, BatchId
      <3>2. batch.id < nextBatch + 1
        BY <1>1, <1>3
      <3> QED
        BY <1>5, <3>1, <3>2
    <2>4. \A o \in Owners : \A k \in DOMAIN queue[o] : queue[o][k].id < nextBatch + 1
      BY <1>1, <2>2, BatchId
    <2>5. \A o \in Owners : \A k \in DOMAIN queue'[o] : queue'[o][k].id < nextBatch + 1
      BY <1>10, <2>3, <2>4
    <2> QED
      BY <1>13, <2>1, <2>5 DEF QueuesAscend
  <1>16. PipelineIsQueueFront'
    BY <1>8, <1>10 DEF WriteMutations, PipelineIsQueueFront
  <1> QED
    BY <1>14, <1>15, <1>16 DEF QueueInv

LEMMA CredentialKeeps == ASSUME QueueInv, HandleCredentialChange PROVE QueueInv'
  <1>1. /\ queue \in [Owners -> Seq(Batch)] /\ nextBatch \in Nat \ {0}
        /\ queue' = queue
    BY DEF QueueInv, TypeOK, HandleCredentialChange
  <1>2. user' \in Owners /\ worker' \in Seq(Task)
    BY TaskTypes DEF QueueInv, HandleCredentialChange
  <1>3. PICK q \in Seq(Batch) : q = queue[user'] /\ Ascending(q)
    BY <1>1, <1>2 DEF QueueInv, QueuesAscend
  <1>4. RestartNetwork(q)
    BY <1>3 DEF HandleCredentialChange
  <1>5. /\ pipeline' \in Seq(Batch) /\ stream' \in StreamState /\ asked' \subseteq GetToken
        /\ IsPrefix(pipeline', q) /\ Len(pipeline') <= MaxPending
        /\ sent' \in Seq(Message) /\ answers' \in Seq(Message)
        /\ openedAs' \subseteq Owners /\ refused' \in Writes \cup {None}
        /\ shaken' \in BOOLEAN
    BY <1>3, <1>4, RestartTypes DEF QueueInv
  <1>6. /\ nextBatch' \in Nat \ {0}
        /\ \A o \in Owners : \A k \in DOMAIN queue[o] : queue[o][k].id < nextBatch'
    <2>1. /\ LoadNextBatchId(queue) \in Nat \ {0}
          /\ \A o \in Owners : \A k \in DOMAIN queue[o] :
                queue[o][k].id < LoadNextBatchId(queue)
      BY <1>1, NextIdIsNew DEF QueueInv, QueuesAscend
    <2> QED
      BY <1>1, <2>1 DEF QueueInv, QueuesAscend, HandleCredentialChange
  <1>7. TypeOK'
    BY <1>1, <1>2, <1>5, <1>6
       DEF QueueInv, TypeOK, HandleCredentialChange, history, bounds
  <1>8. QueuesAscend'
    BY <1>1, <1>6 DEF QueueInv, QueuesAscend
  <1>9. PipelineIsQueueFront'
    BY <1>1, <1>3, <1>5 DEF PipelineIsQueueFront
  <1> QED
    BY <1>7, <1>8, <1>9 DEF QueueInv
LEMMA ResultKeeps == ASSUME QueueInv, MutationResult PROVE QueueInv'
  <1>1. BatchAnswered(Head(pipeline).id, TRUE) /\ pipeline # << >>
    BY DEF MutationResult
  <1>2. PICK q \in Seq(Batch) : q = queue'[user]
    BY <1>1, AnsweredTypes DEF QueueInv, TypeOK
  <1>3. PICK p \in Seq(Batch) : p = Tail(pipeline)
    BY <1>1, AnsweredTypes
  <1>4. /\ queue' \in [Owners -> Seq(Batch)]
        /\ \A o \in Owners : Ascending(queue'[o])
        /\ \A o \in Owners : \A k \in DOMAIN queue'[o] : queue'[o][k].id < nextBatch
        /\ Len(p) <= MaxPending /\ IsPrefix(p, q)
        /\ DOMAIN callbacks' = Owners
        /\ \A o \in Owners : /\ DOMAIN callbacks'[o] \subseteq DOMAIN callbacks[o]
                             /\ \A id \in DOMAIN callbacks'[o] :
                                   callbacks'[o][id] = callbacks[o][id]
        /\ told' \subseteq [write : Writes, ok : BOOLEAN]
    BY <1>1, <1>2, <1>3, AnsweredTypes
  <1>5. Ascending(q)
    BY <1>2, <1>4 DEF QueueInv, TypeOK
  <1>6. FillWritePipeline(q, p, stream) /\ sent' = sent \o NewInPipeline(q, p)
    BY <1>2, <1>3 DEF MutationResult
  <1>7. /\ pipeline' \in Seq(Batch) /\ stream' \in StreamState
        /\ NewInPipeline(q, p) \in Seq(Batch)
        /\ IsPrefix(pipeline', q) /\ Len(pipeline') <= MaxPending
    BY <1>4, <1>5, <1>6, FillTypes DEF QueueInv, TypeOK
  <1>8. sent' \in Seq(Message) /\ answers' \in Seq(Message)
    <2>1. sent \in Seq(Message) /\ answers \in Seq(Message) /\ answers # << >>
      BY DEF QueueInv, TypeOK, MutationResult
    <2>2. answers' \in Seq(Message)
      BY <2>1 DEF MutationResult
    <2> QED
      BY <1>6, <1>7, <2>1, <2>2, SentTypes
  <1>9. \A o \in Owners : /\ DOMAIN callbacks'[o] \subseteq Nat \ {0}
                          /\ \A id \in DOMAIN callbacks'[o] : callbacks'[o][id] \in Writes
    BY <1>4 DEF QueueInv, TypeOK
  <1>10. TypeOK'
    BY <1>4, <1>7, <1>8, <1>9 DEF QueueInv, TypeOK, MutationResult, auth, bounds
  <1>11. QueuesAscend'
    BY <1>4 DEF QueuesAscend, MutationResult
  <1>12. PipelineIsQueueFront'
    BY <1>2, <1>7 DEF PipelineIsQueueFront, MutationResult
  <1> QED
    BY <1>10, <1>11, <1>12 DEF QueueInv

LEMMA RefusalKeeps == ASSUME QueueInv, RefusalHeard PROVE QueueInv'
  <1>1. BatchAnswered(Head(pipeline).id, FALSE) /\ pipeline # << >>
    BY DEF RefusalHeard, WriteRefused
  <1>2. PICK q \in Seq(Batch) : q = queue'[user]
    BY <1>1, AnsweredTypes DEF QueueInv, TypeOK
  <1>3. PICK p \in Seq(Batch) : p = Tail(pipeline)
    BY <1>1, AnsweredTypes
  <1>4. /\ queue' \in [Owners -> Seq(Batch)]
        /\ \A o \in Owners : Ascending(queue'[o])
        /\ \A o \in Owners : \A k \in DOMAIN queue'[o] : queue'[o][k].id < nextBatch
        /\ Len(p) <= MaxPending /\ IsPrefix(p, q)
        /\ DOMAIN callbacks' = Owners
        /\ \A o \in Owners : /\ DOMAIN callbacks'[o] \subseteq DOMAIN callbacks[o]
                             /\ \A id \in DOMAIN callbacks'[o] :
                                   callbacks'[o][id] = callbacks[o][id]
        /\ told' \subseteq [write : Writes, ok : BOOLEAN]
    BY <1>1, <1>2, <1>3, AnsweredTypes
  <1>5. Ascending(q)
    BY <1>2, <1>4 DEF QueueInv, TypeOK
  <1>6. PICK s \in StreamState : s = InhibitBackoff(Fail(stream))
    BY StreamTypes DEF QueueInv, TypeOK
  <1>7. FillWritePipeline(q, p, s)
    BY <1>2, <1>3, <1>6 DEF RefusalHeard, WriteRefused
  <1>8. /\ pipeline' \in Seq(Batch) /\ stream' \in StreamState
        /\ IsPrefix(pipeline', q) /\ Len(pipeline') <= MaxPending
    BY <1>4, <1>5, <1>7, FillTypes DEF QueueInv, TypeOK
  <1>9. asked' \subseteq GetToken
    <2>1. PICK t \in StreamState : t = stream'
      BY <1>8
    <2>2. RequestCredentials(t)
      BY <2>1 DEF RefusalHeard
    <2> QED
      BY <2>2, AskedTypes DEF QueueInv, TypeOK
  <1>10. \A o \in Owners : /\ DOMAIN callbacks'[o] \subseteq Nat \ {0}
                           /\ \A id \in DOMAIN callbacks'[o] : callbacks'[o][id] \in Writes
    BY <1>4 DEF QueueInv, TypeOK
  <1>11. /\ sent' \in Seq(Message) /\ answers' \in Seq(Message)
         /\ openedAs' \subseteq Owners /\ refused' \in Writes \cup {None}
         /\ shaken' \in BOOLEAN
    <2>1. << >> \in Seq(Message)
      OBVIOUS
    <2> QED
      BY <2>1 DEF RefusalHeard, WriteRefused, StreamGone
  <1>12. TypeOK'
    BY <1>4, <1>8, <1>9, <1>10, <1>11 DEF QueueInv, TypeOK, RefusalHeard, bounds
  <1>13. QueuesAscend'
    BY <1>4 DEF QueuesAscend, RefusalHeard
  <1>14. PipelineIsQueueFront'
    BY <1>2, <1>8 DEF PipelineIsQueueFront, RefusalHeard
  <1> QED
    BY <1>12, <1>13, <1>14 DEF QueueInv

LEMMA RelaunchKeeps == ASSUME QueueInv, Relaunch PROVE QueueInv'
  <1>1. /\ queue \in [Owners -> Seq(Batch)] /\ queue' = queue
        /\ user' = signedIn /\ signedIn \in Owners
    BY DEF QueueInv, TypeOK, Relaunch, history
  <1>2. PICK q \in Seq(Batch) : q = queue[user'] /\ Ascending(q)
    BY <1>1 DEF QueueInv, QueuesAscend
  <1>3. << >> \in Seq(Batch) /\ Len(<< >>) <= MaxPending /\ IsPrefix(<< >>, q)
    <2>1. << >> \in Seq(Batch) /\ Len(<< >>) = 0
      OBVIOUS
    <2> QED
      BY <2>1, EmptyIsPrefix
  <1>4. /\ NewInPipeline(q, << >>) \in Seq(Batch)
        /\ IsPrefix(<< >> \o NewInPipeline(q, << >>), q)
        /\ Len(<< >> \o NewInPipeline(q, << >>)) <= MaxPending
    BY <1>2, <1>3, NewFollowsPipeline
  <1>5. pipeline' = NewInPipeline(q, << >>) /\ << >> \o NewInPipeline(q, << >>) = pipeline'
    BY <1>2, <1>4, ConcatEmptySeq DEF Relaunch
  <1>6. pipeline' \in Seq(Batch) /\ IsPrefix(pipeline', q) /\ Len(pipeline') <= MaxPending
    BY <1>4, <1>5
  <1>7. stream' \in StreamState
    <2>1. stream \in StreamState
      BY DEF QueueInv, TypeOK
    <2>2. NewStream \in StreamState /\ Start(NewStream) \in StreamState
      BY <2>1, StreamTypes
    <2> QED
      BY <2>2 DEF Relaunch
  <1>8. asked' \subseteq GetToken
    BY <1>1 DEF Relaunch, GetToken
  <1>9. /\ nextBatch' \in Nat \ {0}
        /\ \A o \in Owners : \A k \in DOMAIN queue[o] : queue[o][k].id < nextBatch'
    BY <1>1, NextIdIsNew DEF QueueInv, TypeOK, QueuesAscend, Relaunch
  <1>10. /\ DOMAIN callbacks' = Owners
         /\ \A o \in Owners : /\ DOMAIN callbacks'[o] \subseteq Nat \ {0}
                              /\ \A id \in DOMAIN callbacks'[o] : callbacks'[o][id] \in Writes
    <2>1. callbacks' = [o \in Owners |-> << >>]
      BY DEF Relaunch
    <2>2. DOMAIN callbacks' = Owners /\ \A o \in Owners : callbacks'[o] = << >>
      BY <2>1
    <2>3. \A o \in Owners : DOMAIN callbacks'[o] = {}
      BY <2>2
    <2> QED
      BY <2>2, <2>3
  <1>11. /\ main' \in Seq(Block) /\ worker' \in Seq(Task)
         /\ sent' \in Seq(Message) /\ answers' \in Seq(Message)
    <2>1. << >> \in Seq(Block) /\ << >> \in Seq(Task) /\ << >> \in Seq(Message)
      OBVIOUS
    <2> QED
      BY <2>1 DEF Relaunch, StreamGone
  <1>12. /\ openedAs' \subseteq Owners /\ refused' \in Writes \cup {None}
         /\ shaken' \in BOOLEAN /\ tokens' \in Nat /\ faults' \in Nat
    <2>1. faults \in Nat /\ faults' = faults + 1
      BY DEF Relaunch, Fault, QueueInv, TypeOK
    <2>2. shaken' \in BOOLEAN
      BY Zenon DEF Relaunch, StreamGone
    <2> QED
      BY <2>1, <2>2 DEF Relaunch, StreamGone
  <1>13. TypeOK'
    BY <1>1, <1>6, <1>7, <1>8, <1>9, <1>10, <1>11, <1>12
       DEF QueueInv, TypeOK, Relaunch, history
  <1>14. QueuesAscend'
    BY <1>1, <1>9 DEF QueueInv, QueuesAscend
  <1>15. PipelineIsQueueFront'
    BY <1>1, <1>2, <1>6 DEF PipelineIsQueueFront
  <1> QED
    BY <1>13, <1>14, <1>15 DEF QueueInv
\* A stream that breaks, or is stopped, leaves queue and pipeline as they are.
LEMMA BrokenTypes ==
    ASSUME TypeOK, StreamBroken
    PROVE  /\ stream' \in StreamState /\ pipeline' = pipeline
           /\ sent' \in Seq(Message) /\ answers' \in Seq(Message)
           /\ openedAs' \subseteq Owners /\ refused' \in Writes \cup {None}
           /\ shaken' \in BOOLEAN
  <1>1. Fail(stream) \in StreamState /\ Start(Fail(stream)) \in StreamState
    BY StreamTypes DEF TypeOK
  <1>2. << >> \in Seq(Message)
    OBVIOUS
  <1>3. stream' \in StreamState
    BY <1>1 DEF StreamBroken
  <1>4. shaken' \in BOOLEAN
    BY Zenon DEF StreamBroken, StreamGone
  <1> QED
    BY <1>2, <1>3, <1>4 DEF StreamBroken, StreamGone

LEMMA FaultTypes == ASSUME TypeOK, Fault PROVE faults' \in Nat
  BY DEF TypeOK, Fault

\* The stream of the next incarnation, and who is asked for its token.
LEMMA BackoffKeeps == ASSUME QueueInv, BackoffTimer PROVE QueueInv'
  <1>1. PICK t \in StreamState : t = stream'
    BY StreamTypes DEF QueueInv, TypeOK, BackoffTimer
  <1>2. RequestCredentials(t)
    BY <1>1 DEF BackoffTimer
  <1>3. asked' \subseteq GetToken
    BY <1>2, AskedTypes DEF QueueInv, TypeOK
  <1>4. TypeOK'
    BY <1>1, <1>3 DEF QueueInv, TypeOK, BackoffTimer, store, network, history, bounds
  <1> QED
    BY <1>4, QueueKept DEF BackoffTimer, store

LEMMA ConnectivityKeeps == ASSUME QueueInv, ConnectivityChanged PROVE QueueInv'
  <1>1. user \in Owners /\ queue \in [Owners -> Seq(Batch)] /\ queue' = queue /\ user' = user
    BY DEF QueueInv, TypeOK, ConnectivityChanged, store
  <1>2. PICK q \in Seq(Batch) : q = queue[user] /\ Ascending(q)
    BY <1>1 DEF QueueInv, QueuesAscend
  <1>3. RestartNetwork(q)
    BY <1>2 DEF ConnectivityChanged
  <1>4. /\ pipeline' \in Seq(Batch) /\ stream' \in StreamState /\ asked' \subseteq GetToken
        /\ IsPrefix(pipeline', q) /\ Len(pipeline') <= MaxPending
        /\ sent' \in Seq(Message) /\ answers' \in Seq(Message)
        /\ openedAs' \subseteq Owners /\ refused' \in Writes \cup {None}
        /\ shaken' \in BOOLEAN
    BY <1>2, <1>3, RestartTypes DEF QueueInv
  <1>5. faults' \in Nat
    BY FaultTypes DEF QueueInv, ConnectivityChanged
  <1>6. TypeOK'
    BY <1>1, <1>4, <1>5 DEF QueueInv, TypeOK, ConnectivityChanged, store, history
  <1>7. QueuesAscend'
    BY DEF QueueInv, QueuesAscend, ConnectivityChanged, store
  <1>8. PipelineIsQueueFront'
    BY <1>1, <1>2, <1>4 DEF PipelineIsQueueFront
  <1> QED
    BY <1>6, <1>7, <1>8 DEF QueueInv

LEMMA AuthKeeps == ASSUME QueueInv, AuthChanges \/ AuthAnswers PROVE QueueInv'
  <1>1. CASE AuthChanges
    <2>1. signedIn' \in Owners /\ [kind |-> "user", user |-> signedIn'] \in Block
      BY <1>1 DEF AuthChanges, Block
    <2>2. main' \in Seq(Block) /\ switches' \in Nat
      BY <1>1, <2>1 DEF QueueInv, TypeOK, AuthChanges
    <2>3. TypeOK'
      BY <1>1, <2>1, <2>2 DEF QueueInv, TypeOK, AuthChanges, store, network, history
    <2>4. UNCHANGED <<queue, nextBatch, user, pipeline>>
      BY <1>1 DEF AuthChanges, store
    <2> QED
      BY <2>3, <2>4, QueueKept
  <1>2. CASE AuthAnswers
    <2>1a. PICK r \in asked : \E u \in {r.from, signedIn} :
             /\ asked' = asked \ {r}
             /\ main' = Append(main, [kind |-> "token", user |-> u, closes |-> r.closes,
                                      count |-> r.count])
      BY <1>2 DEF AuthAnswers
    <2>1. PICK u \in {r.from, signedIn} :
             /\ asked' = asked \ {r}
             /\ main' = Append(main, [kind |-> "token", user |-> u, closes |-> r.closes,
                                      count |-> r.count])
      BY <2>1a
    <2>2. r \in GetToken /\ r.from \in Owners /\ r.closes \in Nat /\ r.count \in Nat
      BY DEF QueueInv, TypeOK, GetToken
    <2>3. [kind |-> "token", user |-> u, closes |-> r.closes, count |-> r.count] \in Block
      BY <2>2 DEF QueueInv, TypeOK, Block
    <2>4. main' \in Seq(Block) /\ asked' \subseteq GetToken
      BY <2>1, <2>3 DEF QueueInv, TypeOK
    <2>5. TypeOK'
      BY <1>2, <2>4 DEF QueueInv, TypeOK, AuthAnswers, store, network, history, bounds
    <2> QED
      BY <1>2, <2>5, QueueKept DEF AuthAnswers, store
  <1> QED
    BY <1>1, <1>2

LEMMA BlocksKeep == ASSUME QueueInv, Blocks PROVE QueueInv'
  <1>1. CASE CredentialsChange
    <2>1. Head(main) \in Task /\ main' \in Seq(Block)
      BY <1>1, BlockTypes DEF QueueInv, CredentialsChange
    <2>2. worker' \in Seq(Task) /\ tokens' \in Nat
      BY <1>1, <2>1 DEF QueueInv, TypeOK, CredentialsChange
    <2>3. TypeOK'
      BY <1>1, <2>1, <2>2
         DEF QueueInv, TypeOK, CredentialsChange, store, network, history, bounds
    <2> QED
      BY <1>1, <2>3, QueueKept DEF CredentialsChange, store
  <1>2. CASE TokenArrives
    <2>1. /\ main' \in Seq(Block) /\ Head(main).user \in Owners
          /\ Head(main).closes \in Nat /\ Head(main).count \in Nat
      BY <1>2, BlockTypes DEF QueueInv, TokenArrives
    <2>2. /\ worker \in Seq(Task) /\ asked \subseteq GetToken
          /\ tokens \in Nat /\ signedIn \in Owners
      BY DEF QueueInv, TypeOK
    <2>3. worker' \in Seq(Task) /\ asked' \subseteq GetToken
      <3>1. CASE TokenFresh(Head(main))
        <4>1. [kind |-> "token", user |-> Head(main).user, closes |-> Head(main).closes]
                 \in Task
          BY <2>1 DEF Task
        <4> QED
          BY <1>2, <2>2, <3>1, <4>1 DEF TokenArrives
      <3>2. CASE ~TokenFresh(Head(main))
        <4>1. [closes |-> Head(main).closes, from |-> signedIn, count |-> tokens]
                 \in GetToken
          BY <2>1, <2>2 DEF GetToken
        <4> QED
          BY <1>2, <2>2, <3>2, <4>1 DEF TokenArrives
      <3> QED
        BY <3>1, <3>2
    <2>4. TypeOK'
      BY <1>2, <2>1, <2>3
         DEF QueueInv, TypeOK, TokenArrives, store, network, history, bounds
    <2> QED
      BY <1>2, <2>4, QueueKept DEF TokenArrives, store
  <1> QED
    BY <1>1, <1>2 DEF Blocks

\* Actions of the worker that leave every queue and the pipeline alone.
LEMMA WorkerKeeps ==
    ASSUME QueueInv, \/ DropToken \/ OpenStream \/ HandshakeComplete
                     \/ ConnectionLost \/ TokenFails \/ IdleTimer
    PROVE  QueueInv'
  <1>1. CASE DropToken
    <2>1. worker' \in Seq(Task)
      BY <1>1, TaskTypes DEF QueueInv, DropToken
    <2>2. TypeOK'
      BY <1>1, <2>1 DEF QueueInv, TypeOK, DropToken, auth, store, network, history, bounds
    <2>3. UNCHANGED <<queue, nextBatch, user, pipeline>>
      BY <1>1 DEF DropToken, store
    <2> QED
      BY <2>2, <2>3, QueueKept
  <1>2. CASE OpenStream
    <2>1. worker' \in Seq(Task) /\ openedAs' \subseteq Owners
      BY <1>2, TaskTypes DEF QueueInv, OpenStream
    <2>2. stream' \in StreamState
      BY <1>2, StreamTypes DEF QueueInv, TypeOK, OpenStream
    <2>3. sent' \in Seq(Message)
      <3>1. << Shake >> \in Seq(Message)
        BY DEF Message
      <3> QED
        BY <1>2, <3>1 DEF OpenStream
    <2>4. TypeOK'
      BY <1>2, <2>1, <2>2, <2>3
         DEF QueueInv, TypeOK, OpenStream, auth, store, history, bounds
    <2>5. UNCHANGED <<queue, nextBatch, user, pipeline>>
      BY <1>2 DEF OpenStream, store
    <2> QED
      BY <2>4, <2>5, QueueKept
  <1>3. CASE HandshakeComplete
    <2>1. /\ sent \in Seq(Message) /\ answers \in Seq(Message) /\ answers # << >>
          /\ pipeline \in Seq(Batch)
      BY <1>3 DEF QueueInv, TypeOK, HandshakeComplete
    <2>2. sent' \in Seq(Message)
      BY <1>3, <2>1, SentTypes DEF HandshakeComplete
    <2>3. answers' \in Seq(Message)
      BY <1>3, <2>1 DEF HandshakeComplete
    <2>4. stream' \in StreamState
      BY <1>3, StreamTypes DEF QueueInv, TypeOK, HandshakeComplete
    <2>5. shaken' \in BOOLEAN
      BY <1>3, Zenon DEF HandshakeComplete
    <2>6. TypeOK'
      BY <1>3, <2>2, <2>3, <2>4, <2>5
         DEF QueueInv, TypeOK, HandshakeComplete, auth, store, history, bounds
    <2>7. UNCHANGED <<queue, nextBatch, user, pipeline>>
      BY <1>3 DEF HandshakeComplete, store
    <2> QED
      BY <2>6, <2>7, QueueKept
  <1>4. CASE ConnectionLost
    <2>1. /\ stream' \in StreamState /\ pipeline' = pipeline
          /\ sent' \in Seq(Message) /\ answers' \in Seq(Message)
          /\ openedAs' \subseteq Owners /\ refused' \in Writes \cup {None}
          /\ shaken' \in BOOLEAN /\ faults' \in Nat
      BY <1>4, BrokenTypes, FaultTypes DEF QueueInv, ConnectionLost
    <2>2. TypeOK'
      BY <1>4, <2>1 DEF QueueInv, TypeOK, ConnectionLost, auth, store, history
    <2>3. UNCHANGED <<queue, nextBatch, user, pipeline>>
      BY <1>4, <2>1 DEF ConnectionLost, store
    <2> QED
      BY <2>2, <2>3, QueueKept
  <1>5. CASE TokenFails
    <2>1. /\ stream' \in StreamState /\ pipeline' = pipeline
          /\ sent' \in Seq(Message) /\ answers' \in Seq(Message)
          /\ openedAs' \subseteq Owners /\ refused' \in Writes \cup {None}
          /\ shaken' \in BOOLEAN /\ faults' \in Nat
      BY <1>5, BrokenTypes, FaultTypes DEF QueueInv, TokenFails
    <2>2. worker' \in Seq(Task)
      BY <1>5, TaskTypes DEF QueueInv, TokenFails
    <2>3. TypeOK'
      BY <1>5, <2>1, <2>2 DEF QueueInv, TypeOK, TokenFails, auth, store, history
    <2>4. UNCHANGED <<queue, nextBatch, user, pipeline>>
      BY <1>5, <2>1 DEF TokenFails, store
    <2> QED
      BY <2>3, <2>4, QueueKept
  <1>6. CASE IdleTimer
    <2>1. stream' \in StreamState
      BY <1>6, StreamTypes DEF QueueInv, TypeOK, IdleTimer
    <2>2. /\ sent' \in Seq(Message) /\ answers' \in Seq(Message)
          /\ openedAs' \subseteq Owners /\ refused' \in Writes \cup {None}
      <3>1. << >> \in Seq(Message)
        OBVIOUS
      <3> QED
        BY <1>6, <3>1 DEF IdleTimer, StreamGone
    <2>3. shaken' \in BOOLEAN
      BY <1>6, Zenon DEF IdleTimer, StreamGone
    <2>4. TypeOK'
      BY <1>6, <2>1, <2>2, <2>3
         DEF QueueInv, TypeOK, IdleTimer, auth, store, history, bounds
    <2>5. UNCHANGED <<queue, nextBatch, user, pipeline>>
      BY <1>6 DEF IdleTimer, store
    <2> QED
      BY <2>4, <2>5, QueueKept
  <1> QED
    BY <1>1, <1>2, <1>3, <1>4, <1>5, <1>6

\* The server's steps, and the app's call of setData.
LEMMA ServesKeep == ASSUME QueueInv, Serves \/ AppWrites PROVE QueueInv'
  <1>1. CASE Serves
    <2>1. /\ sent \in Seq(Message) /\ sent # << >> /\ answers \in Seq(Message)
          /\ Head(sent) \in Message
      BY <1>1 DEF QueueInv, TypeOK, Serves, ServerShakes, ServerCommits, ServerRefuses
    <2>2. Head(sent) # Shake => Head(sent).write \in Writes
      BY <2>1, BatchId DEF Message
    <2>3. << >> \in Seq(Message) /\ Tail(sent) \in Seq(Message)
          /\ Append(answers, Head(sent)) \in Seq(Message)
      BY <2>1
    <2>4. CASE ServerShakes
      <3>1. TypeOK'
        BY <2>3, <2>4 DEF QueueInv, TypeOK, ServerShakes, auth, store, history, bounds
      <3>2. UNCHANGED <<queue, nextBatch, user, pipeline>>
        BY <2>4 DEF ServerShakes, store
      <3> QED
        BY <3>1, <3>2, QueueKept
    <2>5. CASE ServerCommits
      <3>1. TypeOK'
        BY <2>2, <2>3, <2>5 DEF QueueInv, TypeOK, ServerCommits, auth, store, bounds
      <3>2. UNCHANGED <<queue, nextBatch, user, pipeline>>
        BY <2>5 DEF ServerCommits, store
      <3> QED
        BY <3>1, <3>2, QueueKept
    <2>6. CASE ServerRefuses
      <3>1. TypeOK'
        BY <2>2, <2>3, <2>6 DEF QueueInv, TypeOK, ServerRefuses, auth, store, history, bounds
      <3>2. UNCHANGED <<queue, nextBatch, user, pipeline>>
        BY <2>6 DEF ServerRefuses, store
      <3> QED
        BY <3>1, <3>2, QueueKept
    <2> QED
      BY <1>1, <2>4, <2>5, <2>6 DEF Serves
  <1>2. CASE AppWrites
    <2>1. nextWrite \in Nat \ {0}
      BY DEF QueueInv, TypeOK
    <2>2. nextWrite' \in Nat \ {0}
      BY <1>2, <2>1 DEF AppWrites
    <2>3. worker' \in Seq(Task)
      <3>1. nextWrite \in 1 .. MaxWrites
        BY <1>2, <2>1 DEF AppWrites, QueueInv
      <3>2. [kind |-> "write", write |-> nextWrite] \in Task
        BY <3>1 DEF Task, Writes
      <3> QED
        BY <1>2, <3>2 DEF AppWrites, QueueInv, TypeOK
    <2>4. TypeOK'
      BY <1>2, <2>2, <2>3
         DEF QueueInv, TypeOK, AppWrites, auth, store, network, bounds
    <2>5. UNCHANGED <<queue, nextBatch, user, pipeline>>
      BY <1>2 DEF AppWrites, store
    <2> QED
      BY <2>4, <2>5, QueueKept
  <1> QED
    BY <1>1, <1>2

LEMMA QueueNext == QueueInv /\ [Next]_vars => QueueInv'
  <1> SUFFICES ASSUME QueueInv, [Next]_vars PROVE QueueInv'
    OBVIOUS
  <1>1. CASE Tasks
    BY <1>1, WriteKeeps, CredentialKeeps, WorkerKeeps DEF Tasks
  <1>2. CASE Reads
    BY <1>2, WorkerKeeps, ResultKeeps DEF Reads
  <1>3. CASE RefusalHeard \/ BackoffTimer \/ IdleTimer
    BY <1>3, RefusalKeeps, BackoffKeeps, WorkerKeeps
  <1>4. CASE Serves \/ AppWrites
    BY <1>4, ServesKeep
  <1>5. CASE Blocks
    BY <1>5, BlocksKeep
  <1>6. CASE AuthAnswers \/ AuthChanges
    BY <1>6, AuthKeeps
  <1>7. CASE Faults
    BY <1>7, WorkerKeeps, ConnectivityKeeps, RelaunchKeeps DEF Faults
  <1>8. CASE UNCHANGED vars
    BY <1>8 DEF vars, auth, store, network, history, bounds,
                QueueInv, TypeOK, QueuesAscend, PipelineIsQueueFront
  <1> QED
    BY <1>1, <1>2, <1>3, <1>4, <1>5, <1>6, <1>7, <1>8 DEF Next

\* Every variable of the pipeline keeps its type, however many accounts, writes,
\* switches and faults there are.
THEOREM TypeCorrect == Spec => []TypeOK
  <1>1. Spec => []QueueInv
    BY QueueInit, QueueNext, PTL DEF Spec
  <1>2. QueueInv => TypeOK
    BY DEF QueueInv
  <1> QED
    BY <1>1, <1>2, PTL

\* Whatever is answered, refused, switched or restarted, the pipeline is the front
\* of the current user's queue on disk and within its bound.
THEOREM PipelineIsFront == Spec => []PipelineIsQueueFront
  <1>1. Spec => []QueueInv
    BY QueueInit, QueueNext, PTL DEF Spec
  <1>2. QueueInv => PipelineIsQueueFront
    BY DEF QueueInv
  <1> QED
    BY <1>1, <1>2, PTL

(***************************************************************************)
(* Completion blocks                                                       *)
(***************************************************************************)

LEMMA InRange ==
    ASSUME NEW q \in Seq(Batch)
    PROVE  \A b : b \in Range(q) <=> \E k \in 1 .. Len(q) : b = q[k]
  BY DEF Range

\* The new write's block waits under an id no batch has yet, whatever blocks the
\* others left.
LEMMA WriteKeepsBlocks ==
    ASSUME QueueInv, BlocksWaitForTheirWrite, WriteMutations
    PROVE  BlocksWaitForTheirWrite'
  <1>1. /\ user \in Owners /\ queue \in [Owners -> Seq(Batch)] /\ nextBatch \in Nat \ {0}
        /\ DOMAIN callbacks = Owners
    BY DEF QueueInv, TypeOK
  <1>2. PICK w \in Writes : w = Head(worker).write
    BY TaskTypes DEF QueueInv, WriteMutations
  <1>3. PICK batch \in Batch : batch = [id |-> nextBatch, write |-> w]
    BY <1>1 DEF Batch
  <1>4. PICK old \in Seq(Batch) : old = queue[user]
    BY <1>1
  <1>5. PICK q : q = Append(old, batch)
    OBVIOUS
  <1>6. /\ q \in Seq(Batch) /\ Len(q) = Len(old) + 1
        /\ \A k \in 1 .. Len(old) : q[k] = old[k]
        /\ q[Len(old) + 1] = batch
    BY <1>5, AppendProperties
  <1>7. /\ queue' = [queue EXCEPT ![user] = q]
        /\ callbacks' = IF nextBatch \in DOMAIN callbacks[user] THEN callbacks
                        ELSE [callbacks EXCEPT ![user] = Put(@, nextBatch, w)]
    BY <1>2, <1>3, <1>4, <1>5 DEF WriteMutations
  <1>8. /\ DOMAIN callbacks' = Owners
        /\ \A o \in Owners : o # user => callbacks'[o] = callbacks[o] /\ queue'[o] = queue[o]
        /\ queue'[user] = q
    BY <1>1, <1>7
  <1>9. nextBatch \notin DOMAIN callbacks[user]
    <2>1. \A k \in 1 .. Len(old) : old[k].id < nextBatch
      BY <1>1, <1>4 DEF QueueInv, QueuesAscend
    <2>2. \A id \in DOMAIN callbacks[user] :
             \E k \in 1 .. Len(old) : [id |-> id, write |-> callbacks[user][id]] = old[k]
      BY <1>1, <1>4, InRange DEF BlocksWaitForTheirWrite
    <2>3. ASSUME NEW id \in DOMAIN callbacks[user]
          PROVE  \E k \in 1 .. Len(old) : id = old[k].id
      <3>1. PICK k \in 1 .. Len(old) : [id |-> id, write |-> callbacks[user][id]] = old[k]
        BY <2>2
      <3>2. [id |-> id, write |-> callbacks[user][id]].id = id
        OBVIOUS
      <3> QED
        BY <3>1, <3>2
    <2> QED
      BY <1>1, <2>1, <2>3
  <1>10. callbacks'[user] = Put(callbacks[user], nextBatch, w)
    BY <1>1, <1>7, <1>9
  <1>11. \A id \in DOMAIN callbacks'[user] :
            [id |-> id, write |-> callbacks'[user][id]] \in Range(queue'[user])
    <2> SUFFICES ASSUME NEW id \in DOMAIN callbacks'[user]
                 PROVE  [id |-> id, write |-> callbacks'[user][id]] \in Range(q)
      BY <1>8
    <2>1. CASE id = nextBatch
      <3>1. callbacks'[user][id] = w
        BY <1>10, <2>1 DEF Put
      <3>2. Len(q) \in 1 .. Len(q) /\ q[Len(q)] = batch
        BY <1>6
      <3> QED
        BY <1>3, <1>6, <2>1, <3>1, <3>2, InRange
    <2>2. CASE id # nextBatch
      <3>1. id \in DOMAIN callbacks[user] /\ callbacks'[user][id] = callbacks[user][id]
        BY <1>10, <2>2 DEF Put
      <3>2. PICK k \in 1 .. Len(old) : [id |-> id, write |-> callbacks[user][id]] = old[k]
        BY <1>1, <1>4, <3>1, InRange DEF BlocksWaitForTheirWrite
      <3>3. k \in 1 .. Len(q) /\ q[k] = old[k]
        BY <1>6, <3>2
      <3> QED
        BY <1>6, <3>1, <3>2, <3>3, InRange
    <2> QED
      BY <2>1, <2>2
  <1> QED
    BY <1>8, <1>11 DEF BlocksWaitForTheirWrite

\* An answered batch and its block leave together.
LEMMA AnswerKeepsBlocks ==
    ASSUME QueueInv, BlocksWaitForTheirWrite, pipeline # << >>, NEW ok \in BOOLEAN,
           BatchAnswered(Head(pipeline).id, ok), user' = user
    PROVE  BlocksWaitForTheirWrite'
  <1>1. /\ user \in Owners /\ queue \in [Owners -> Seq(Batch)]
    BY DEF QueueInv, TypeOK
  <1>2. /\ queue[user] # << >> /\ Head(pipeline) = Head(queue[user])
        /\ queue'[user] = Tail(queue[user])
        /\ \A o \in Owners \ {user} : queue'[o] = queue[o]
        /\ DOMAIN callbacks' = Owners
        /\ \A o \in Owners : /\ DOMAIN callbacks'[o] \subseteq DOMAIN callbacks[o]
                             /\ \A id \in DOMAIN callbacks'[o] :
                                   callbacks'[o][id] = callbacks[o][id]
        /\ DOMAIN callbacks'[user] = DOMAIN callbacks[user] \ {Head(pipeline).id}
    BY AnsweredTypes
  <1>3. PICK old \in Seq(Batch) : old = queue[user]
    BY <1>1
  <1>4. /\ old # << >> /\ Tail(old) \in Seq(Batch) /\ Len(Tail(old)) = Len(old) - 1
        /\ \A i \in 1 .. Len(Tail(old)) : Tail(old)[i] = old[i + 1]
        /\ Head(old) = old[1]
    BY <1>2, <1>3, HeadTailProperties
  <1>5. ASSUME NEW id \in DOMAIN callbacks'[user]
        PROVE  [id |-> id, write |-> callbacks'[user][id]] \in Range(queue'[user])
    <2>1. /\ id \in DOMAIN callbacks[user] /\ id # Head(old).id
          /\ callbacks'[user][id] = callbacks[user][id]
      BY <1>1, <1>2, <1>3, <1>5
    <2>2. PICK k \in 1 .. Len(old) : [id |-> id, write |-> callbacks[user][id]] = old[k]
      BY <1>1, <1>3, <2>1, InRange DEF BlocksWaitForTheirWrite
    <2>3. k # 1
      BY <1>4, <2>1, <2>2
    <2>4. k - 1 \in 1 .. Len(Tail(old)) /\ Tail(old)[k - 1] = old[k]
      BY <1>4, <2>2, <2>3
    <2>5. [id |-> id, write |-> callbacks[user][id]] \in Range(Tail(old))
      BY <1>4, <2>2, <2>4, InRange
    <2> QED
      BY <1>2, <1>3, <2>1, <2>5
  <1>6. ASSUME NEW o \in Owners, o # user, NEW id \in DOMAIN callbacks'[o]
        PROVE  [id |-> id, write |-> callbacks'[o][id]] \in Range(queue'[o])
    BY <1>2, <1>6 DEF BlocksWaitForTheirWrite
  <1> QED
    BY <1>5, <1>6 DEF BlocksWaitForTheirWrite

\* No other step touches a queue or a block, but for the end of the app.
LEMMA BlocksNext ==
    QueueInv /\ BlocksWaitForTheirWrite /\ [Next]_vars => BlocksWaitForTheirWrite'
  <1> SUFFICES ASSUME QueueInv, BlocksWaitForTheirWrite, [Next]_vars
               PROVE  BlocksWaitForTheirWrite'
    OBVIOUS
  <1>1. CASE WriteMutations
    BY <1>1, WriteKeepsBlocks
  <1>2. CASE MutationResult
    BY <1>2, AnswerKeepsBlocks DEF MutationResult
  <1>3. CASE RefusalHeard
    BY <1>3, AnswerKeepsBlocks DEF RefusalHeard, WriteRefused
  <1>4. CASE Relaunch
    <2>1. \A o \in Owners : callbacks'[o] = << >>
      BY <1>4 DEF Relaunch
    <2>2. \A o \in Owners : DOMAIN callbacks'[o] = {}
      BY <2>1
    <2> QED
      BY <2>2 DEF BlocksWaitForTheirWrite
  <1>5. CASE UNCHANGED <<queue, callbacks>>
    BY <1>5 DEF BlocksWaitForTheirWrite
  <1>6. \/ WriteMutations \/ MutationResult \/ RefusalHeard \/ Relaunch
        \/ UNCHANGED <<queue, callbacks>>
    BY DEF Next, Tasks, Reads, Serves, Blocks, Faults, HandleCredentialChange, DropToken,
           OpenStream, HandshakeComplete, BackoffTimer, IdleTimer, ServerShakes,
           ServerCommits, ServerRefuses, CredentialsChange, TokenArrives, AuthAnswers,
           AppWrites, AuthChanges, ConnectionLost, TokenFails, ConnectivityChanged,
           vars, store
  <1> QED
    BY <1>1, <1>2, <1>3, <1>4, <1>5, <1>6

\* A completion block never waits under the id of another write, although ids are
\* used again after the queues ran empty and after the app was started again.
THEOREM BlocksFindTheirWrite == Spec => []BlocksWaitForTheirWrite
  <1>1. Init => BlocksWaitForTheirWrite
    <2> SUFFICES ASSUME Init PROVE BlocksWaitForTheirWrite
      OBVIOUS
    <2>1. \A o \in Owners : callbacks[o] = << >>
      BY DEF Init
    <2>2. \A o \in Owners : DOMAIN callbacks[o] = {}
      BY <2>1
    <2> QED
      BY <2>2 DEF BlocksWaitForTheirWrite
  <1>2. Spec => []QueueInv
    BY QueueInit, QueueNext, PTL DEF Spec
  <1> QED
    BY <1>1, <1>2, BlocksNext, PTL DEF Spec

(***************************************************************************)
(* A token passes three queues on its way to a stream: what Auth is asked, *)
(* the main queue and the worker's.  The theorem that it is nevertheless   *)
(* always of the user whose queue is sent on that stream.                  *)
(***************************************************************************)

\* Whom the worker serves when it comes to place j of its tasks w: the user of
\* the last announcement before, or else the one it serves now.
ServesAt(w, now, j, u) ==
    /\ (\A i \in 1 .. j - 1 : w[i].kind # "user") => now = u
    /\ \A i \in 1 .. j - 1 :
          w[i].kind = "user" /\ (\A k \in i + 1 .. j - 1 : w[k].kind # "user") =>
             w[i].user = u

ServesLast(w, now, u) == ServesAt(w, now, Len(w) + 1, u)

NobodyBefore(i) == \A k \in 1 .. i - 1 : main[k].kind # "user"

\* A token waiting for the worker is of whom it will serve then.
TokensInTurn ==
    \A j \in 1 .. Len(worker) :
        worker[j].kind = "token" => ServesAt(worker, user, j, worker[j].user)

\* Of the tokens on their way through Auth and the main queue, those that will pass
\* the counter are of whom the worker will serve last.
AskedForLast ==
    \A r \in asked : /\ r.count <= tokens
                     /\ r.count = tokens /\ NobodyBefore(Len(main) + 1) =>
                           ServesLast(worker, user, r.from)

AnsweredForLast ==
    \A i \in 1 .. Len(main) : main[i].kind = "token" =>
        /\ main[i].count <= tokens
        /\ main[i].count = tokens /\ NobodyBefore(i) =>
              ServesLast(worker, user, main[i].user)

\* Who is signed in is known to the worker's queue, or announced on the main queue.
SignedInIsAnnounced ==
    /\ NobodyBefore(Len(main) + 1) => ServesLast(worker, user, signedIn)
    /\ \A i \in 1 .. Len(main) :
          main[i].kind = "user" /\ (\A k \in i + 1 .. Len(main) : main[k].kind # "user")
             => main[i].user = signedIn

TokenInv ==
    /\ TokensInTurn /\ AskedForLast /\ AnsweredForLast /\ SignedInIsAnnounced
    /\ OpenAsCurrentUser

LEMMA TaskDone ==
    ASSUME NEW w \in Seq(Task), w # << >>, NEW now,
           NEW j \in 1 .. Len(w), NEW u, ServesAt(w, now, j + 1, u),
           NEW next, next = IF Head(w).kind = "user" THEN Head(w).user ELSE now
    PROVE  ServesAt(Tail(w), next, j, u)
  <1>1. /\ Len(Tail(w)) = Len(w) - 1 /\ Head(w) = w[1]
        /\ \A i \in 1 .. Len(w) - 1 : Tail(w)[i] = w[i + 1]
    BY HeadTailProperties
  <1>2. ASSUME \A i \in 1 .. j - 1 : Tail(w)[i].kind # "user"
        PROVE  next = u
    <2>1. \A k \in 2 .. j : w[k].kind # "user"
      <3> SUFFICES ASSUME NEW k \in 2 .. j PROVE w[k].kind # "user"
        OBVIOUS
      <3>1. k - 1 \in 1 .. j - 1 /\ Tail(w)[k - 1] = w[k]
        BY <1>1
      <3> QED
        BY <1>2, <3>1
    <2>2. CASE w[1].kind = "user"
      BY <1>1, <2>1, <2>2 DEF ServesAt
    <2>3. CASE w[1].kind # "user"
      <3>1. \A k \in 1 .. j : w[k].kind # "user"
        BY <2>1, <2>3
      <3> QED
        BY <1>1, <2>3, <3>1 DEF ServesAt
    <2> QED
      BY <2>2, <2>3
  <1>3. ASSUME NEW i \in 1 .. j - 1, Tail(w)[i].kind = "user",
               \A k \in i + 1 .. j - 1 : Tail(w)[k].kind # "user"
        PROVE  Tail(w)[i].user = u
    <2>1. i + 1 \in 1 .. j /\ Tail(w)[i] = w[i + 1]
      BY <1>1
    <2>2. ASSUME NEW k \in i + 2 .. j PROVE w[k].kind # "user"
      <3>1. k - 1 \in i + 1 .. j - 1 /\ Tail(w)[k - 1] = w[k]
        BY <1>1
      <3> QED
        BY <1>3, <3>1
    <2> QED
      BY <1>3, <2>1, <2>2 DEF ServesAt
  <1> QED
    BY <1>2, <1>3 DEF ServesAt

LEMMA TaskAdded ==
    ASSUME NEW w \in Seq(Task), NEW t \in Task, NEW now
    PROVE  /\ \A j \in 1 .. Len(w) + 1 : \A u :
                 ServesAt(w, now, j, u) => ServesAt(Append(w, t), now, j, u)
           /\ t.kind # "user" => \A u :
                 ServesLast(w, now, u) => ServesLast(Append(w, t), now, u)
           /\ t.kind = "user" => ServesLast(Append(w, t), now, t.user)
  <1>1. /\ Append(w, t) \in Seq(Task) /\ Len(Append(w, t)) = Len(w) + 1
        /\ \A i \in 1 .. Len(w) : Append(w, t)[i] = w[i]
        /\ Append(w, t)[Len(w) + 1] = t
    BY AppendProperties
  <1>2. \A j \in 1 .. Len(w) + 1 : \A u :
           ServesAt(w, now, j, u) => ServesAt(Append(w, t), now, j, u)
    BY <1>1 DEF ServesAt
  <1>3. ASSUME t.kind # "user", NEW u, ServesLast(w, now, u)
        PROVE  ServesLast(Append(w, t), now, u)
    <2>1. ASSUME \A i \in 1 .. Len(w) + 1 : Append(w, t)[i].kind # "user"
          PROVE  now = u
      BY <1>1, <1>3, <2>1 DEF ServesLast, ServesAt
    <2>2. ASSUME NEW i \in 1 .. Len(w) + 1, Append(w, t)[i].kind = "user",
                 \A k \in i + 1 .. Len(w) + 1 : Append(w, t)[k].kind # "user"
          PROVE  Append(w, t)[i].user = u
      <3>1. i \in 1 .. Len(w)
        BY <1>1, <1>3, <2>2
      <3> QED
        BY <1>1, <1>3, <2>2, <3>1 DEF ServesLast, ServesAt
    <2> QED
      BY <1>1, <2>1, <2>2 DEF ServesLast, ServesAt
  <1>4. ASSUME t.kind = "user"
        PROVE  ServesLast(Append(w, t), now, t.user)
    BY <1>1, <1>4 DEF ServesLast, ServesAt
  <1> QED
    BY <1>2, <1>3, <1>4

\* What is asked for in a step is asked for now, in the name of who is signed in.
AskedNow == \A r \in asked' : r \in asked \/ (r.count = tokens /\ r.from = signedIn)

LEMMA CredentialsNow == ASSUME NEW s, RequestCredentials(s) PROVE AskedNow
  BY DEF RequestCredentials, AskedNow

\* The network's steps and the timers'.
LEMMA QuietStep ==
    ASSUME TypeOK, TokenInv, UNCHANGED <<signedIn, main, tokens, worker, user>>,
           AskedNow, openedAs' \subseteq openedAs
    PROVE  TokenInv'
  <1>1. tokens \in Nat
    BY DEF TypeOK
  <1>2. TokensInTurn' /\ AnsweredForLast' /\ SignedInIsAnnounced'
    BY DEF TokenInv, TokensInTurn, AnsweredForLast, SignedInIsAnnounced, NobodyBefore,
           ServesAt, ServesLast
  <1>3. AskedForLast'
    <2> SUFFICES ASSUME NEW r \in asked'
                 PROVE  /\ r.count <= tokens
                        /\ r.count = tokens /\ NobodyBefore(Len(main) + 1) =>
                              ServesLast(worker, user, r.from)
      BY DEF AskedForLast, NobodyBefore, ServesAt, ServesLast
    <2>1. CASE r \in asked
      BY <2>1 DEF TokenInv, AskedForLast
    <2>2. CASE r.count = tokens /\ r.from = signedIn
      BY <1>1, <2>2 DEF TokenInv, SignedInIsAnnounced
    <2> QED
      BY <2>1, <2>2 DEF AskedNow
  <1>4. OpenAsCurrentUser'
    BY DEF TokenInv, OpenAsCurrentUser
  <1> QED
    BY <1>2, <1>3, <1>4 DEF TokenInv

\* The worker's steps: one task is done, and an announcement changes the user.
LEMMA WorkerStep ==
    ASSUME TypeOK, TokenInv, worker # << >>, worker' = Tail(worker),
           user' = (IF Head(worker).kind = "user" THEN Head(worker).user ELSE user),
           UNCHANGED <<signedIn, main, tokens>>, AskedNow, openedAs' \subseteq {user'}
    PROVE  TokenInv'
  <1>1. PICK w \in Seq(Task) : w = worker
    BY DEF TypeOK
  <1>2. PICK next : next = user'
    OBVIOUS
  <1>3. /\ Tail(w) \in Seq(Task) /\ Len(Tail(w)) = Len(w) - 1 /\ Len(w) \in Nat \ {0}
        /\ \A i \in 1 .. Len(Tail(w)) : Tail(w)[i] = w[i + 1]
    BY <1>1, HeadTailProperties
  <1>4. \A j \in 1 .. Len(w) : \A u :
           ServesAt(w, user, j + 1, u) => ServesAt(Tail(w), next, j, u)
    BY <1>1, <1>2, TaskDone
  <1>5. \A u : ServesLast(worker, user, u) => ServesLast(worker', user', u)
    <2> SUFFICES ASSUME NEW u, ServesAt(w, user, Len(w) + 1, u)
                 PROVE  ServesAt(Tail(w), next, Len(Tail(w)) + 1, u)
      BY <1>1, <1>2 DEF ServesLast
    <2>1. Len(w) \in 1 .. Len(w) /\ Len(Tail(w)) + 1 = Len(w)
      BY <1>3
    <2> QED
      BY <1>4, <2>1
  <1>6. TokensInTurn'
    <2> SUFFICES ASSUME NEW j \in 1 .. Len(Tail(w)), Tail(w)[j].kind = "token"
                 PROVE  ServesAt(Tail(w), next, j, Tail(w)[j].user)
      BY <1>1, <1>2 DEF TokensInTurn
    <2>1. j \in 1 .. Len(w) /\ j + 1 \in 1 .. Len(w) /\ Tail(w)[j] = w[j + 1]
      BY <1>3
    <2>2. ServesAt(w, user, j + 1, w[j + 1].user)
      BY <1>1, <2>1 DEF TokenInv, TokensInTurn
    <2> QED
      BY <1>4, <2>1, <2>2
  <1>7. tokens \in Nat
    BY DEF TypeOK
  <1>8. AskedForLast'
    <2> SUFFICES ASSUME NEW r \in asked'
                 PROVE  /\ r.count <= tokens
                        /\ r.count = tokens /\ NobodyBefore(Len(main) + 1) =>
                              ServesLast(worker, user, r.from)
      BY <1>5 DEF AskedForLast, NobodyBefore
    <2>1. CASE r \in asked
      BY <2>1 DEF TokenInv, AskedForLast
    <2>2. CASE r.count = tokens /\ r.from = signedIn
      BY <1>7, <2>2 DEF TokenInv, SignedInIsAnnounced
    <2> QED
      BY <2>1, <2>2 DEF AskedNow
  <1>9. AnsweredForLast'
    BY <1>5 DEF TokenInv, AnsweredForLast, NobodyBefore
  <1>10. SignedInIsAnnounced'
    BY <1>5 DEF TokenInv, SignedInIsAnnounced, NobodyBefore
  <1>11. OpenAsCurrentUser'
    BY DEF OpenAsCurrentUser
  <1> QED
    BY <1>6, <1>8, <1>9, <1>10, <1>11 DEF TokenInv

\* A task that names nobody changes nothing for those before it.
LEMMA TaskStep ==
    ASSUME TypeOK, TokenInv, NEW t \in Task, t.kind # "user",
           worker' = Append(worker, t),
           t.kind = "token" => ServesLast(worker, user, t.user),
           user' = user
    PROVE  /\ TokensInTurn'
           /\ \A u : ServesLast(worker, user, u) => ServesLast(worker', user', u)
  <1>1. PICK w \in Seq(Task) : w = worker
    BY DEF TypeOK
  <1>2. /\ Append(w, t) \in Seq(Task) /\ Len(Append(w, t)) = Len(w) + 1
        /\ \A i \in 1 .. Len(w) : Append(w, t)[i] = w[i]
        /\ Append(w, t)[Len(w) + 1] = t
    BY AppendProperties
  <1>3. /\ \A j \in 1 .. Len(w) + 1 : \A u :
              ServesAt(w, user, j, u) => ServesAt(Append(w, t), user, j, u)
        /\ \A u : ServesLast(w, user, u) => ServesLast(Append(w, t), user, u)
    BY TaskAdded
  <1>4. ASSUME NEW j \in 1 .. Len(w) + 1, Append(w, t)[j].kind = "token"
        PROVE  ServesAt(Append(w, t), user, j, Append(w, t)[j].user)
    <2>1. CASE j = Len(w) + 1
      BY <1>1, <1>2, <1>3, <1>4, <2>1 DEF ServesLast
    <2>2. CASE j \in 1 .. Len(w)
      BY <1>1, <1>2, <1>3, <1>4, <2>2 DEF TokenInv, TokensInTurn
    <2> QED
      BY <2>1, <2>2
  <1> QED
    BY <1>1, <1>2, <1>3, <1>4 DEF TokensInTurn

LEMMA AppWritesKeepsTokens == ASSUME QueueInv, TokenInv, AppWrites PROVE TokenInv'
  <1>0. nextWrite \in Writes
    BY DEF QueueInv, TypeOK, AppWrites, Writes
  <1>1. PICK t \in Task : t = [kind |-> "write", write |-> nextWrite]
    BY <1>0 DEF Task
  <1>2. worker' = Append(worker, t) /\ t.kind = "write"
    BY <1>1 DEF AppWrites
  <1>3. UNCHANGED <<signedIn, main, tokens, asked, user, openedAs>>
    BY DEF AppWrites, auth, store, network
  <1>4. TokensInTurn' /\ \A u : ServesLast(worker, user, u) => ServesLast(worker', user', u)
    BY <1>2, <1>3, TaskStep DEF QueueInv
  <1>5. AskedForLast'
    BY <1>3, <1>4 DEF TokenInv, AskedForLast, NobodyBefore
  <1>6. AnsweredForLast'
    BY <1>3, <1>4 DEF TokenInv, AnsweredForLast, NobodyBefore
  <1>7. SignedInIsAnnounced' /\ OpenAsCurrentUser'
    BY <1>3, <1>4 DEF TokenInv, SignedInIsAnnounced, NobodyBefore, OpenAsCurrentUser
  <1> QED
    BY <1>4, <1>5, <1>6, <1>7 DEF TokenInv

LEMMA AuthChangesKeepsTokens == ASSUME QueueInv, TokenInv, AuthChanges PROVE TokenInv'
  <1>1. PICK m \in Seq(Block) : m = main
    BY DEF QueueInv, TypeOK
  <1>2. PICK b \in Block : b = [kind |-> "user", user |-> signedIn']
    BY DEF AuthChanges, Block
  <1>3. main' = Append(m, b)
    BY <1>1, <1>2 DEF AuthChanges
  <1>4. /\ Len(main') = Len(m) + 1 /\ \A i \in 1 .. Len(m) : main'[i] = m[i]
        /\ main'[Len(m) + 1] = b
    BY <1>3, AppendProperties
  <1>5. UNCHANGED <<tokens, asked, worker, user, openedAs>>
    BY DEF AuthChanges, store, network
  <1>6. TokensInTurn' /\ OpenAsCurrentUser'
    BY <1>5 DEF TokenInv, TokensInTurn, ServesAt, OpenAsCurrentUser
  <1>7. ~ NobodyBefore(Len(main) + 1)'
    BY <1>2, <1>4 DEF NobodyBefore
  <1>8. AskedForLast'
    BY <1>5, <1>7 DEF TokenInv, AskedForLast
  <1>9. SignedInIsAnnounced'
    <2>1. ASSUME NEW i \in 1 .. Len(m) + 1, main'[i].kind = "user",
                 \A k \in i + 1 .. Len(m) + 1 : main'[k].kind # "user"
          PROVE  main'[i].user = signedIn'
      <3>1. i = Len(m) + 1
        BY <1>2, <1>4, <2>1
      <3> QED
        BY <1>2, <1>4, <3>1
    <2> QED
      BY <1>4, <1>7, <2>1 DEF SignedInIsAnnounced
  <1>10. AnsweredForLast'
    <2> SUFFICES ASSUME NEW i \in 1 .. Len(m) + 1, main'[i].kind = "token"
                 PROVE  /\ main'[i].count <= tokens
                        /\ main'[i].count = tokens /\ NobodyBefore(i)' =>
                              ServesLast(worker, user, main'[i].user)
      BY <1>4, <1>5 DEF AnsweredForLast, ServesLast, ServesAt
    <2>1. i \in 1 .. Len(m) /\ main'[i] = m[i]
      BY <1>2, <1>4
    <2>2. NobodyBefore(i)' => NobodyBefore(i)
      BY <1>1, <1>4, <2>1 DEF NobodyBefore
    <2> QED
      BY <1>1, <2>1, <2>2 DEF TokenInv, AnsweredForLast
  <1> QED
    BY <1>6, <1>8, <1>9, <1>10 DEF TokenInv

LEMMA AuthAnswersKeepsTokens == ASSUME QueueInv, TokenInv, AuthAnswers PROVE TokenInv'
  <1>1. PICK m \in Seq(Block) : m = main
    BY DEF QueueInv, TypeOK
  <1>2a. PICK r \in asked : \E u \in {r.from, signedIn} :
           /\ asked' = asked \ {r}
           /\ main' = Append(main, [kind |-> "token", user |-> u, closes |-> r.closes,
                                    count |-> r.count])
    BY DEF AuthAnswers
  <1>2. PICK u \in {r.from, signedIn} :
           /\ asked' = asked \ {r}
           /\ main' = Append(main, [kind |-> "token", user |-> u, closes |-> r.closes,
                                    count |-> r.count])
    BY <1>2a
  <1>3. r \in GetToken /\ r.from \in Owners /\ r.closes \in Nat /\ r.count \in Nat
    BY DEF QueueInv, TypeOK, GetToken
  <1>4. PICK b \in Block : b = [kind |-> "token", user |-> u, closes |-> r.closes,
                                count |-> r.count]
    BY <1>3 DEF QueueInv, TypeOK, Block
  <1>5. /\ Len(main') = Len(m) + 1 /\ \A i \in 1 .. Len(m) : main'[i] = m[i]
        /\ main'[Len(m) + 1] = b
    BY <1>1, <1>2, <1>4, AppendProperties
  <1>6. UNCHANGED <<signedIn, tokens, worker, user, openedAs>>
    BY DEF AuthAnswers, store, network
  <1>7. TokensInTurn' /\ OpenAsCurrentUser'
    BY <1>6 DEF TokenInv, TokensInTurn, ServesAt, OpenAsCurrentUser
  <1>8. \A i \in 1 .. Len(m) + 1 : NobodyBefore(i)' => NobodyBefore(i)
    BY <1>1, <1>5 DEF NobodyBefore
  <1>9. NobodyBefore(Len(m) + 2)' => NobodyBefore(Len(m) + 1)
    BY <1>1, <1>5 DEF NobodyBefore
  <1>10. AskedForLast'
    <2> SUFFICES ASSUME NEW a \in asked
                 PROVE  /\ a.count <= tokens
                        /\ a.count = tokens /\ NobodyBefore(Len(m) + 2)' =>
                              ServesLast(worker, user, a.from)
      BY <1>2, <1>5, <1>6 DEF AskedForLast, ServesLast, ServesAt, NobodyBefore
    <2> QED
      BY <1>1, <1>9 DEF TokenInv, AskedForLast
  <1>11. AnsweredForLast'
    <2> SUFFICES ASSUME NEW i \in 1 .. Len(m) + 1, main'[i].kind = "token"
                 PROVE  /\ main'[i].count <= tokens
                        /\ main'[i].count = tokens /\ NobodyBefore(i)' =>
                              ServesLast(worker, user, main'[i].user)
      BY <1>5, <1>6 DEF AnsweredForLast, ServesLast, ServesAt
    <2>1. CASE i \in 1 .. Len(m)
      BY <1>1, <1>5, <1>8, <2>1 DEF TokenInv, AnsweredForLast
    <2>2. CASE i = Len(m) + 1
      <3>1. main'[i] = b /\ b.count = r.count /\ b.user \in {r.from, signedIn}
        BY <1>4, <1>5, <2>2
      <3>2. r.count <= tokens
        BY DEF TokenInv, AskedForLast
      <3>3. ASSUME r.count = tokens, NobodyBefore(Len(m) + 1)
            PROVE  ServesLast(worker, user, r.from) /\ ServesLast(worker, user, signedIn)
        BY <1>1, <3>3 DEF TokenInv, AskedForLast, SignedInIsAnnounced
      <3>4. NobodyBefore(i)' => NobodyBefore(Len(m) + 1)
        BY <1>1, <1>8, <2>2
      <3> QED
        BY <3>1, <3>2, <3>3, <3>4
    <2> QED
      BY <2>1, <2>2
  <1>12. SignedInIsAnnounced'
    <2>1. ASSUME NEW i \in 1 .. Len(m) + 1, main'[i].kind = "user",
                 \A k \in i + 1 .. Len(m) + 1 : main'[k].kind # "user"
          PROVE  main'[i].user = signedIn
      <3>1. i \in 1 .. Len(m) /\ main'[i] = m[i]
        BY <1>4, <1>5, <2>1
      <3>2. \A k \in i + 1 .. Len(m) : m[k].kind # "user"
        BY <1>5, <2>1
      <3> QED
        BY <1>1, <2>1, <3>1, <3>2 DEF TokenInv, SignedInIsAnnounced
    <2>2. NobodyBefore(Len(m) + 2)' => ServesLast(worker, user, signedIn)
      BY <1>1, <1>9 DEF TokenInv, SignedInIsAnnounced
    <2> QED
      BY <1>5, <1>6, <2>1, <2>2 DEF SignedInIsAnnounced, NobodyBefore, ServesLast, ServesAt
  <1> QED
    BY <1>7, <1>10, <1>11, <1>12 DEF TokenInv

LEMMA CredentialsChangeKeepsTokens ==
    ASSUME QueueInv, TokenInv, CredentialsChange
    PROVE  TokenInv'
  <1>1. PICK m \in Seq(Block) : m = main
    BY DEF QueueInv, TypeOK
  <1>2. PICK w \in Seq(Task) : w = worker
    BY DEF QueueInv, TypeOK
  <1>3. m # << >> /\ Head(m).kind = "user" /\ Head(m) \in Task
    BY <1>1, BlockTypes DEF QueueInv, CredentialsChange, NextBlock
  <1>4. PICK b \in Task : b = Head(m) /\ b.kind = "user"
    BY <1>3
  <1>5. /\ main' = Tail(m) /\ worker' = Append(w, b) /\ tokens' = tokens + 1
        /\ UNCHANGED <<signedIn, asked, user, openedAs>>
    BY <1>1, <1>2, <1>4 DEF CredentialsChange, store, network
  <1>6. /\ Len(main') = Len(m) - 1 /\ Len(m) \in Nat \ {0} /\ m[1] = b
        /\ \A i \in 1 .. Len(m) - 1 : main'[i] = m[i + 1]
    BY <1>3, <1>4, <1>5, HeadTailProperties
  <1>7. /\ Append(w, b) \in Seq(Task) /\ Len(Append(w, b)) = Len(w) + 1
        /\ \A i \in 1 .. Len(w) : Append(w, b)[i] = w[i]
        /\ Append(w, b)[Len(w) + 1] = b
    BY AppendProperties
  <1>8. /\ \A j \in 1 .. Len(w) + 1 : \A u :
              ServesAt(w, user, j, u) => ServesAt(Append(w, b), user, j, u)
        /\ ServesLast(Append(w, b), user, b.user)
    BY <1>4, TaskAdded
  <1>9. TokensInTurn' /\ OpenAsCurrentUser'
    <2>1. ASSUME NEW j \in 1 .. Len(w) + 1, Append(w, b)[j].kind = "token"
          PROVE  ServesAt(Append(w, b), user, j, Append(w, b)[j].user)
      <3>1. j \in 1 .. Len(w)
        BY <1>4, <1>7, <2>1
      <3> QED
        BY <1>2, <1>7, <1>8, <2>1, <3>1 DEF TokenInv, TokensInTurn
    <2> QED
      BY <1>5, <1>7, <2>1 DEF TokenInv, TokensInTurn, OpenAsCurrentUser
  <1>10. tokens \in Nat
    BY DEF QueueInv, TypeOK
  <1>11. AskedForLast'
    <2>1. \A r \in asked' : r.count <= tokens /\ r \in GetToken
      BY <1>5 DEF TokenInv, AskedForLast, QueueInv, TypeOK
    <2>2. \A r \in asked' : r.count <= tokens + 1 /\ r.count # tokens + 1
      BY <1>10, <2>1 DEF GetToken
    <2> QED
      BY <1>5, <2>2 DEF AskedForLast
  <1>12. AnsweredForLast'
    <2>1. ASSUME NEW i \in 1 .. Len(m) - 1, main'[i].kind = "token"
          PROVE  main'[i].count <= tokens + 1 /\ main'[i].count # tokens + 1
      <3>1. i + 1 \in 1 .. Len(m) /\ main'[i] = m[i + 1]
        BY <1>6
      <3>2. m[i + 1] \in Block /\ m[i + 1].kind = "token"
        BY <2>1, <3>1
      <3>3. m[i + 1].count \in Nat
        BY <3>2 DEF Block
      <3>4. m[i + 1].count <= tokens
        BY <1>1, <3>1, <3>2 DEF TokenInv, AnsweredForLast
      <3> QED
        BY <1>10, <3>1, <3>3, <3>4
    <2> QED
      BY <1>5, <1>6, <2>1 DEF AnsweredForLast
  <1>13. SignedInIsAnnounced'
    <2>1. ASSUME NobodyBefore(Len(main) + 1)'
          PROVE  b.user = signedIn
      <3>1. \A k \in 2 .. Len(m) : m[k].kind # "user"
        <4> SUFFICES ASSUME NEW k \in 2 .. Len(m) PROVE m[k].kind # "user"
          OBVIOUS
        <4>1. k - 1 \in 1 .. Len(m) - 1 /\ main'[k - 1] = m[k]
          BY <1>6
        <4>2. k - 1 \in 1 .. (Len(main') + 1) - 1
          BY <1>6, <4>1
        <4> QED
          BY <2>1, <4>1, <4>2 DEF NobodyBefore
      <3>2. 1 \in 1 .. Len(m) /\ m[1].kind = "user"
        BY <1>4, <1>6
      <3> QED
        BY <1>1, <1>6, <3>1, <3>2 DEF TokenInv, SignedInIsAnnounced
    <2>2. ASSUME NEW i \in 1 .. Len(m) - 1, main'[i].kind = "user",
                 \A k \in i + 1 .. Len(m) - 1 : main'[k].kind # "user"
          PROVE  main'[i].user = signedIn
      <3>1. i + 1 \in 1 .. Len(m) /\ main'[i] = m[i + 1]
        BY <1>6
      <3>2. ASSUME NEW k \in i + 2 .. Len(m) PROVE m[k].kind # "user"
        <4>1. k - 1 \in i + 1 .. Len(m) - 1 /\ main'[k - 1] = m[k]
          BY <1>6
        <4> QED
          BY <2>2, <4>1
      <3> QED
        BY <1>1, <2>2, <3>1, <3>2 DEF TokenInv, SignedInIsAnnounced
    <2>3. NobodyBefore(Len(main) + 1)' => ServesLast(worker, user, signedIn)'
      BY <1>5, <1>8, <2>1
    <2> QED
      BY <1>5, <1>6, <2>2, <2>3 DEF SignedInIsAnnounced
  <1> QED
    BY <1>9, <1>11, <1>12, <1>13 DEF TokenInv

LEMMA TokenArrivesKeepsTokens ==
    ASSUME QueueInv, TokenInv, TokenArrives
    PROVE  TokenInv'
  <1>1. PICK m \in Seq(Block) : m = main
    BY DEF QueueInv, TypeOK
  <1>2. /\ m # << >> /\ Head(m).kind = "token" /\ Head(m).user \in Owners
        /\ Head(m).closes \in Nat /\ Head(m).count \in Nat
    BY <1>1, BlockTypes DEF QueueInv, TokenArrives, NextBlock
  <1>3. PICK b : b = Head(m)
    OBVIOUS
  <1>4. /\ main' = Tail(m) /\ UNCHANGED <<signedIn, tokens, user, openedAs>>
    BY <1>1 DEF TokenArrives, store, network
  <1>5. /\ Len(main') = Len(m) - 1 /\ Len(m) \in Nat \ {0} /\ m[1] = b
        /\ \A i \in 1 .. Len(m) - 1 : main'[i] = m[i + 1]
    BY <1>2, <1>3, <1>4, HeadTailProperties
  <1>6. \A i \in 1 .. Len(m) : NobodyBefore(i)' => NobodyBefore(i + 1)
    <2> SUFFICES ASSUME NEW i \in 1 .. Len(m), NobodyBefore(i)', NEW k \in 1 .. i
                 PROVE  m[k].kind # "user"
      BY <1>1 DEF NobodyBefore
    <2>1. CASE k = 1
      BY <1>2, <1>3, <1>5, <2>1
    <2>2. CASE k # 1
      <3>1. k - 1 \in 1 .. i - 1 /\ main'[k - 1] = m[k]
        BY <1>5, <2>2
      <3> QED
        BY <3>1 DEF NobodyBefore
    <2> QED
      BY <2>1, <2>2
  <1>7. b.count <= tokens /\ (b.count = tokens => ServesLast(worker, user, b.user))
    <2>1. NobodyBefore(1) /\ 1 \in 1 .. Len(m)
      BY <1>5 DEF NobodyBefore
    <2> QED
      BY <1>1, <1>2, <1>3, <1>5, <2>1 DEF TokenInv, AnsweredForLast
  <1>8. /\ TokensInTurn'
        /\ \A u : ServesLast(worker, user, u) => ServesLast(worker', user', u)
        /\ AskedNow
    <2>1. CASE TokenFresh(b)
      <3>1. PICK t \in Task : t = [kind |-> "token", user |-> b.user, closes |-> b.closes]
        BY <1>2, <1>3 DEF Task
      <3>2. worker' = Append(worker, t) /\ asked' = asked
        BY <1>1, <1>3, <2>1, <3>1 DEF TokenArrives
      <3>3. ServesLast(worker, user, t.user) /\ t.kind = "token"
        BY <1>7, <2>1, <3>1 DEF TokenFresh
      <3> QED
        BY <1>4, <3>2, <3>3, TaskStep DEF QueueInv, AskedNow
    <2>2. CASE ~TokenFresh(b)
      <3>1. /\ worker' = worker
            /\ asked' = asked \cup {[closes |-> b.closes, from |-> signedIn,
                                     count |-> tokens]}
        BY <1>1, <1>3, <2>2 DEF TokenArrives
      <3> QED
        BY <1>4, <3>1 DEF TokenInv, TokensInTurn, ServesAt, AskedNow
    <2> QED
      BY <2>1, <2>2
  <1>9. NobodyBefore(Len(main) + 1)' => NobodyBefore(Len(main) + 1)
    BY <1>1, <1>5, <1>6
  <1>10. AskedForLast'
    <2> SUFFICES ASSUME NEW r \in asked'
                 PROVE  /\ r.count <= tokens
                        /\ r.count = tokens /\ NobodyBefore(Len(main) + 1) =>
                              ServesLast(worker, user, r.from)
      BY <1>4, <1>8, <1>9 DEF AskedForLast
    <2>1. CASE r \in asked
      BY <2>1 DEF TokenInv, AskedForLast
    <2>2. CASE r.count = tokens /\ r.from = signedIn
      BY <2>2 DEF TokenInv, SignedInIsAnnounced, QueueInv, TypeOK
    <2> QED
      BY <1>8, <2>1, <2>2 DEF AskedNow
  <1>11. AnsweredForLast'
    <2> SUFFICES ASSUME NEW i \in 1 .. Len(m) - 1, main'[i].kind = "token"
                 PROVE  /\ main'[i].count <= tokens
                        /\ main'[i].count = tokens /\ NobodyBefore(i)' =>
                              ServesLast(worker, user, main'[i].user)
      BY <1>4, <1>5, <1>8 DEF AnsweredForLast
    <2>1. i + 1 \in 1 .. Len(m) /\ main'[i] = m[i + 1]
      BY <1>5
    <2>2. NobodyBefore(i)' => NobodyBefore(i + 1)
      BY <1>6
    <2> QED
      BY <1>1, <2>1, <2>2 DEF TokenInv, AnsweredForLast
  <1>12. SignedInIsAnnounced'
    <2>1. ASSUME NEW i \in 1 .. Len(m) - 1, main'[i].kind = "user",
                 \A k \in i + 1 .. Len(m) - 1 : main'[k].kind # "user"
          PROVE  main'[i].user = signedIn
      <3>1. i + 1 \in 1 .. Len(m) /\ main'[i] = m[i + 1]
        BY <1>5
      <3>2. ASSUME NEW k \in i + 2 .. Len(m) PROVE m[k].kind # "user"
        <4>1. k - 1 \in i + 1 .. Len(m) - 1 /\ main'[k - 1] = m[k]
          BY <1>5
        <4> QED
          BY <2>1, <4>1
      <3> QED
        BY <1>1, <2>1, <3>1, <3>2 DEF TokenInv, SignedInIsAnnounced
    <2>2. NobodyBefore(Len(main) + 1)' => ServesLast(worker, user, signedIn)'
      BY <1>4, <1>8, <1>9 DEF TokenInv, SignedInIsAnnounced
    <2> QED
      BY <1>4, <1>5, <2>1, <2>2 DEF SignedInIsAnnounced
  <1>13. OpenAsCurrentUser'
    BY <1>4 DEF TokenInv, OpenAsCurrentUser
  <1> QED
    BY <1>8, <1>10, <1>11, <1>12, <1>13 DEF TokenInv

LEMMA RelaunchKeepsTokens == ASSUME QueueInv, Relaunch PROVE TokenInv'
  <1>1. /\ main' = << >> /\ worker' = << >> /\ tokens' = 0 /\ user' = signedIn
        /\ signedIn' = signedIn /\ openedAs' = {}
        /\ \A r \in asked' : r.count = 0 /\ r.from = signedIn
    BY DEF Relaunch, StreamGone
  <1>2. Len(main') = 0 /\ Len(worker') = 0
    BY <1>1
  <1>3. TokensInTurn' /\ AnsweredForLast' /\ OpenAsCurrentUser'
    BY <1>1, <1>2 DEF TokensInTurn, AnsweredForLast, OpenAsCurrentUser
  <1>4. ServesLast(worker', user', signedIn')
    BY <1>1, <1>2 DEF ServesLast, ServesAt
  <1>5. AskedForLast' /\ SignedInIsAnnounced'
    BY <1>1, <1>2, <1>4 DEF AskedForLast, SignedInIsAnnounced
  <1> QED
    BY <1>3, <1>5 DEF TokenInv

\* The worker's tasks each do one of the worker's steps.
LEMMA TasksKeepTokens ==
    ASSUME QueueInv, TokenInv, Tasks \/ TokenFails
    PROVE  TokenInv'
  <1>1. /\ worker # << >> /\ worker' = Tail(worker) /\ UNCHANGED <<signedIn, main, tokens>>
    BY DEF Tasks, TokenFails, WriteMutations, HandleCredentialChange, DropToken, OpenStream,
           NextTask, auth
  <1>2. CASE WriteMutations
    <2>1. Head(worker).kind = "write" /\ user' = user /\ openedAs' = openedAs
      BY <1>2 DEF WriteMutations, NextTask
    <2>2. AskedNow
      BY <1>2, CredentialsNow DEF WriteMutations
    <2> QED
      BY <1>1, <2>1, <2>2, WorkerStep DEF QueueInv, TokenInv, OpenAsCurrentUser
  <1>3. CASE HandleCredentialChange
    <2>1. Head(worker).kind = "user" /\ user' = Head(worker).user /\ openedAs' = {}
      BY <1>3 DEF HandleCredentialChange, NextTask, RestartNetwork, StreamGone
    <2>2. AskedNow
      BY <1>3, CredentialsNow DEF HandleCredentialChange, RestartNetwork
    <2> QED
      BY <1>1, <2>1, <2>2, WorkerStep DEF QueueInv
  <1>4. CASE DropToken
    <2>1. /\ Head(worker).kind = "token" /\ user' = user /\ openedAs' = openedAs
          /\ asked' = asked
      BY <1>4 DEF DropToken, NextTask, auth, store, network
    <2> QED
      BY <1>1, <2>1, WorkerStep DEF QueueInv, TokenInv, OpenAsCurrentUser, AskedNow
  <1>5. CASE OpenStream
    <2>1. /\ Head(worker).kind = "token" /\ user' = user /\ openedAs' = {Head(worker).user}
          /\ asked' = asked
      BY <1>5 DEF OpenStream, NextTask, auth, store
    <2>2. Head(worker).user = user
      <3>1. worker \in Seq(Task)
        BY DEF QueueInv, TypeOK
      <3>2. 1 \in 1 .. Len(worker) /\ worker[1] = Head(worker)
        BY <1>1, <3>1
      <3> QED
        BY <2>1, <3>2 DEF TokenInv, TokensInTurn, ServesAt
    <2> QED
      BY <1>1, <2>1, <2>2, WorkerStep DEF QueueInv, AskedNow
  <1>6. CASE TokenFails
    <2>1. /\ Head(worker).kind = "token" /\ user' = user /\ openedAs' = {}
          /\ asked' = asked
      BY <1>6 DEF TokenFails, NextTask, auth, store, StreamBroken, StreamGone
    <2> QED
      BY <1>1, <2>1, WorkerStep DEF QueueInv, AskedNow
  <1> QED
    BY <1>2, <1>3, <1>4, <1>5, <1>6 DEF Tasks

\* Nothing else touches the three queues a token waits in.
LEMMA NetworkKeepsTokens ==
    ASSUME QueueInv, TokenInv,
           \/ Reads \/ Serves \/ RefusalHeard \/ BackoffTimer \/ IdleTimer
           \/ ConnectionLost \/ ConnectivityChanged
    PROVE  TokenInv'
  <1>1. UNCHANGED <<signedIn, main, tokens, worker, user>>
    BY DEF Reads, Serves, RefusalHeard, BackoffTimer, IdleTimer, ConnectionLost,
           ConnectivityChanged, HandshakeComplete, MutationResult, ServerShakes,
           ServerCommits, ServerRefuses, auth, store
  <1>2. openedAs' \subseteq openedAs
    BY DEF Reads, Serves, RefusalHeard, BackoffTimer, IdleTimer, ConnectionLost,
           ConnectivityChanged, HandshakeComplete, MutationResult, ServerShakes,
           ServerCommits, ServerRefuses, WriteRefused, StreamBroken, StreamGone,
           RestartNetwork, network
  <1>3. AskedNow
    <2>1. asked' = asked \/ \E s : RequestCredentials(s)
      BY DEF Reads, Serves, RefusalHeard, BackoffTimer, IdleTimer, ConnectionLost,
             ConnectivityChanged, HandshakeComplete, MutationResult, ServerShakes,
             ServerCommits, ServerRefuses, RestartNetwork, auth
    <2> QED
      BY <2>1, CredentialsNow DEF AskedNow
  <1> QED
    BY <1>1, <1>2, <1>3, QuietStep DEF QueueInv

LEMMA TokenNext == QueueInv /\ TokenInv /\ [Next]_vars => TokenInv'
  <1> SUFFICES ASSUME QueueInv, TokenInv, [Next]_vars PROVE TokenInv'
    OBVIOUS
  <1>1. CASE UNCHANGED vars
    <2>1. UNCHANGED <<signedIn, main, tokens, worker, user, asked, openedAs>>
      BY <1>1 DEF vars, auth, store, network
    <2> QED
      BY <2>1, QuietStep DEF QueueInv, AskedNow
  <1>2. CASE Tasks \/ TokenFails
    BY <1>2, TasksKeepTokens
  <1>3. CASE \/ Reads \/ Serves \/ RefusalHeard \/ BackoffTimer \/ IdleTimer
             \/ ConnectionLost \/ ConnectivityChanged
    BY <1>3, NetworkKeepsTokens
  <1>4. CASE Blocks \/ AuthAnswers \/ AuthChanges \/ AppWrites \/ Relaunch
    BY <1>4, CredentialsChangeKeepsTokens, TokenArrivesKeepsTokens,
       AuthAnswersKeepsTokens, AuthChangesKeepsTokens, AppWritesKeepsTokens,
       RelaunchKeepsTokens DEF Blocks
  <1> QED
    BY <1>1, <1>2, <1>3, <1>4 DEF Next, Faults

\* A stream is only ever opened with a token of the user whose queue is sent on it.
\* The counter of the credentials provider is enough for it: the proof never uses
\* the stream's close count.
THEOREM OpenedAsTheCurrentUser == Spec => []OpenAsCurrentUser
  <1>1. Init => TokenInv
    <2> SUFFICES ASSUME Init PROVE TokenInv
      OBVIOUS
    <2>1. Len(main) = 0 /\ Len(worker) = 0 /\ asked = {} /\ openedAs = {} /\ user = signedIn
      BY DEF Init
    <2>2. ServesLast(worker, user, signedIn)
      BY <2>1 DEF ServesLast, ServesAt
    <2> QED
      BY <2>1, <2>2 DEF TokenInv, TokensInTurn, AskedForLast, AnsweredForLast,
                        SignedInIsAnnounced, OpenAsCurrentUser
  <1>2. Spec => []QueueInv
    BY QueueInit, QueueNext, PTL DEF Spec
  <1>3. TokenInv => OpenAsCurrentUser
    BY DEF TokenInv
  <1> QED
    BY <1>1, <1>2, <1>3, TokenNext, PTL DEF Spec
=============================================================================
