--------------------------- MODULE WritePipeline ---------------------------
(***************************************************************************)
(* How a write reaches the server: the write half of the Firestore client  *)
(* that the app is built with (Pods/FirebaseFirestore, core/src).          *)
(*                                                                         *)
(* Three queues run concurrently: the app's main queue, where Firebase     *)
(* Auth announces who is signed in and hands out tokens; the client's      *)
(* worker queue, which runs one task at a time; and the network with the   *)
(* server behind it.  The worker keeps a mutation queue per user on disk   *)
(* (LevelDbMutationQueue), copies the front of the current user's into the *)
(* write pipeline (RemoteStore), and writes the pipeline to the write      *)
(* stream once its handshake is done; an answer carries no name and is     *)
(* taken to be about the front of the pipeline.                            *)
(***************************************************************************)
EXTENDS Integers, Sequences, SequencesExt, FiniteSets, FiniteSetsExt, Stream

CONSTANTS
    Owners,        \* accounts, and nobody, in whose name the app may write
    MaxPending,    \* kMaxPendingWrites
    LostAnswers,   \* how many answers may be lost when the server refuses
    MaxWrites,     \* bound: writes the app makes
    MaxSwitches,   \* bound: announcements of Firebase Auth
    MaxFaults      \* bound: errors, restarts of the network, of the app

ASSUME PipelineAssumptions ==
    /\ Owners # {}
    /\ MaxPending \in Nat \ {0} /\ LostAnswers \in Nat /\ MaxWrites \in Nat
    /\ MaxSwitches \in Nat /\ MaxFaults \in Nat

VARIABLES
    signedIn,    \* FIRAuth: the current user
    main,        \* blocks Firebase Auth has dispatched to the main queue
    tokens,      \* FirebaseCredentialsProvider: token_counter
    asked,       \* calls of GetToken Firebase Auth has still to answer
    worker,      \* tasks on the client's worker queue
    user,        \* SyncEngine: current_user_
    queue,       \* on disk: the mutation batches of each user
    nextBatch,   \* LevelDbMutationQueue: next_batch_id_
    callbacks,   \* SyncEngine: mutation_callbacks_, by user and batch id
    pipeline,    \* RemoteStore: write_pipeline_
    stream,      \* WriteStream: state_, close_count_, idleness_timer_
    shaken,      \* WriteStream: handshake_complete_
    sent,        \* requests on the stream the server has not looked at
    answers,     \* responses on the stream the client has not read
    openedAs,    \* whose token the open stream was started with
    refused,     \* the write with which the server ended the stream, if it did
    nextWrite,   \* the next write the app makes
    committed,   \* writes the server has applied
    told,        \* what completion blocks were given
    switches,    \* announcements so far
    faults       \* faults so far

auth    == <<signedIn, main, tokens, asked>>
store   == <<user, queue, nextBatch, callbacks>>
network == <<sent, answers, openedAs, refused>>
history == <<nextWrite, committed, told>>
bounds  == <<switches, faults>>
vars == <<auth, worker, store, pipeline, stream, shaken, network, history, bounds>>

-----------------------------------------------------------------------------
(* What the data is *)

Writes  == 1 .. MaxWrites
Batch   == [id : Nat \ {0}, write : Writes]
None    == 0                                  \* no write, kBatchIdUnknown
Shake   == [id |-> None, write |-> None]      \* the handshake and its answer
Message == Batch \cup {Shake}

GetToken == [closes : Nat, count : Nat, from : Owners]
Block    == [kind : {"user"}, user : Owners]
              \cup [kind : {"token"}, user : Owners, closes : Nat, count : Nat]
Task     == [kind : {"write"}, write : Writes]
              \cup [kind : {"user"}, user : Owners]
              \cup [kind : {"token"}, user : Owners, closes : Nat]

-----------------------------------------------------------------------------
(* LevelDbMutationQueue *)

Ids(q) == UNION {{q[o][k].id : k \in DOMAIN q[o]} : o \in Owners}

LoadHighestId(q) == Max(Ids(q) \cup {None})

\* The highest id in use by any user decides the next one, so that ids are used
\* again, within one run of the app too.
LoadNextBatchId(q) == 1 + Max(Ids(q) \cup {None})

NextButOneAfter(q, last) ==
    CHOOSE k \in 1 .. Len(q) + 1 :
        /\ \A j \in 1 .. k - 1 : q[j].id <= last + 1
        /\ k <= Len(q) => q[k].id > last + 1

\* Where the first batch after id `last` is; past the end if there is none.
NextMutationBatchAfter(q, last) ==
    CHOOSE k \in 1 .. Len(q) + 1 :
        /\ \A j \in 1 .. k - 1 : q[j].id <= last
        /\ k <= Len(q) => q[k].id > last

RemoveBatchAt(q, id) == IF id \in DOMAIN q THEN RemoveAt(q, id) ELSE q

RemoveMutationBatch(q, id) ==
    RemoveAt(q, CHOOSE k \in DOMAIN q : q[k].id = id)

-----------------------------------------------------------------------------
(* RemoteStore: the write half *)

LastRetrieved(p) == IF p = << >> THEN None ELSE Last(p).id

NewFromTheFront(q, p) ==
    SubSeq(q, 1, IF Len(q) < MaxPending THEN Len(q) ELSE MaxPending)

\* The batches FillWritePipeline adds to p from the user's queue q.
NewInPipeline(q, p) ==
    LET next == NextMutationBatchAfter(q, LastRetrieved(p))
        room == MaxPending - Len(p)
    IN  SubSeq(q, next, IF Len(q) < next + room - 1 THEN Len(q) ELSE next + room - 1)

CanSendOnceOpen(s) == IsOpen(s)

CanSend(s) == IsOpen(s) /\ shaken

ShouldStart(s, p) == ~IsStarted(s) /\ p # << >>

\* FillWritePipeline, on pipeline p, the user's queue q and the stream as s.
FillWritePipeline(q, p, s) ==
    LET new  == NewInPipeline(q, p)
        all  == p \o new
        s2   == IF all = << >> THEN MarkIdle(s)
                ELSE IF new # << >> /\ CanSend(s) THEN WriteTo(s) ELSE s
    IN  /\ pipeline' = all
        /\ stream' = IF ShouldStart(s2, all) THEN Start(s2) ELSE s2

\* Stream::Start asks for a token unless it backs off first.
RequestCredentials(s) ==
    asked' = IF s.state = "Starting" /\ s # stream
             THEN asked \cup {[closes |-> s.closes, count |-> tokens,
                               from |-> signedIn]}
             ELSE asked

\* What is on the network goes with the gRPC stream.
StreamGone ==
    /\ sent' = << >> /\ answers' = << >> /\ openedAs' = {} /\ refused' = None
    /\ shaken' = FALSE

PipelineRefilled(q) ==
    /\ FillWritePipeline(q, << >>, stream)
    /\ RequestCredentials(stream')
    /\ UNCHANGED <<network, shaken>>

\* RestartNetwork: both streams stop and start afresh.
RestartNetwork(q) ==
    /\ FillWritePipeline(q, << >>, InhibitBackoff(Stop(stream)))
    /\ RequestCredentials(stream')
    /\ StreamGone

-----------------------------------------------------------------------------
(* SyncEngine *)

Put(f, k, v) == [x \in DOMAIN f \cup {k} |-> IF x = k THEN v ELSE f[x]]

Drop(f, k) == [x \in DOMAIN f \ {k} |-> f[x]]

\* NotifyUser: the completion block is called once, if this run has it.
NotifyUserOnly(id, ok) ==
    /\ told' = IF id \in DOMAIN callbacks[user]
               THEN told \cup {[write |-> callbacks[user][id], ok |-> ok]} ELSE told
    /\ UNCHANGED callbacks

NotifyUser(id, ok) ==
    /\ told' = IF id \in DOMAIN callbacks[user]
               THEN told \cup {[write |-> callbacks[user][id], ok |-> ok]} ELSE told
    /\ callbacks' = [callbacks EXCEPT ![user] = Drop(@, id)]

\* A rejection that returns before the batch is removed.
AnsweredIfApplied(id, ok) ==
    /\ IF ok THEN NotifyUser(id, ok)
       ELSE NotifyUserOnly(id, ok)
    /\ queue' = IF ok THEN [queue EXCEPT ![user] = RemoveMutationBatch(@, id)] ELSE queue

\* HandleSuccessfulWrite and HandleRejectedWrite: the batch leaves the disk.
BatchAnswered(id, ok) ==
    /\ NotifyUser(id, ok)
    /\ queue' = [queue EXCEPT ![user] = RemoveMutationBatch(@, id)]

-----------------------------------------------------------------------------
(* Tasks on the worker queue *)

NextTask(kind) == worker # << >> /\ Head(worker).kind = kind

\* WriteMutations: the batch is on disk before anything is sent.
WriteMutations ==
    /\ NextTask("write")
    /\ worker' = Tail(worker)
    /\ LET w     == Head(worker).write
           batch == [id |-> nextBatch, write |-> w]
           q     == Append(queue[user], batch)
       IN  /\ queue' = [queue EXCEPT ![user] = q]
           /\ callbacks' = IF nextBatch \in DOMAIN callbacks[user] THEN callbacks
                           ELSE [callbacks EXCEPT ![user] = Put(@, nextBatch, w)]
           /\ FillWritePipeline(q, pipeline, stream)
           /\ sent' = IF CanSend(stream) THEN sent \o NewInPipeline(q, pipeline) ELSE sent
    /\ nextBatch' = nextBatch + 1
    /\ RequestCredentials(stream')
    /\ UNCHANGED <<signedIn, main, tokens, user, shaken, answers, openedAs,
                   refused, history, bounds>>

\* HandleCredentialChange: the other user's queue is read from disk; the streams
\* restart even when it is the same user with a new token.
HandleCredentialChange ==
    /\ NextTask("user")
    /\ worker' = Tail(worker)
    /\ user' = Head(worker).user
    /\ nextBatch' = IF user' = user THEN nextBatch ELSE LoadNextBatchId(queue)
    /\ RestartNetwork(queue[user'])
    /\ UNCHANGED <<signedIn, main, tokens, queue, callbacks, history, bounds>>

Current(task) == task.closes = stream.closes

\* A token asked for by an earlier incarnation of the stream is dropped.
DropToken ==
    /\ NextTask("token")
    /\ ~Current(Head(worker))
    /\ worker' = Tail(worker)
    /\ UNCHANGED <<auth, store, pipeline, stream, shaken, network, history, bounds>>

\* ResumeStartWithCredentials: the stream is open, its handshake written.
OpenStream ==
    /\ NextTask("token")
    /\ Current(Head(worker))
    /\ worker' = Tail(worker)
    /\ stream' = OnStreamStart(stream)
    /\ sent' = << Shake >>
    /\ openedAs' = {Head(worker).user}
    /\ UNCHANGED <<auth, store, pipeline, shaken, answers, refused, history, bounds>>

\* OnWriteStreamHandshakeComplete: the whole pipeline is written.
HandshakeComplete ==
    /\ IsOpen(stream) /\ ~shaken /\ answers # << >>
    /\ shaken' = TRUE
    /\ answers' = Tail(answers)
    /\ sent' = sent \o pipeline
    /\ stream' = IF pipeline # << >> THEN WriteTo(stream) ELSE stream
    /\ UNCHANGED <<auth, worker, store, pipeline, openedAs, refused, history, bounds>>

\* OnWriteStreamMutationResult: the answer is about the front of the pipeline.
MutationResult ==
    /\ IsOpen(stream) /\ shaken /\ answers # << >> /\ pipeline # << >>
    /\ LET id == Head(pipeline).id
       IN  /\ BatchAnswered(id, TRUE)
           /\ FillWritePipeline(queue'[user], Tail(pipeline), stream)
           /\ sent' = sent \o NewInPipeline(queue'[user], Tail(pipeline))
    /\ answers' = Tail(answers)
    /\ UNCHANGED <<auth, worker, user, nextBatch, shaken, openedAs, refused,
                   nextWrite, committed, bounds>>

StreamLeftBroken ==
    /\ stream' = Fail(stream)
    /\ StreamGone
    /\ UNCHANGED pipeline

\* OnWriteStreamClose for an error that is no write's fault: back off, resend.
StreamBroken ==
    /\ stream' = IF pipeline # << >> THEN Start(Fail(stream)) ELSE Fail(stream)
    /\ StreamGone
    /\ UNCHANGED pipeline

WriteRefusedAsDone ==
    /\ BatchAnswered(Head(pipeline).id, TRUE)
    /\ FillWritePipeline(queue'[user], Tail(pipeline), InhibitBackoff(Fail(stream)))
    /\ StreamGone

\* HandleWriteError: the front of the pipeline is given up for good.
WriteRefused ==
    /\ BatchAnswered(Head(pipeline).id, FALSE)
    /\ FillWritePipeline(queue'[user], Tail(pipeline), InhibitBackoff(Fail(stream)))
    /\ StreamGone

-----------------------------------------------------------------------------
(* What happens to the stream *)

Fault == faults < MaxFaults /\ faults' = faults + 1

\* The connection breaks, or the server ends it with a passing error.
ConnectionLost ==
    /\ Fault
    /\ IsOpen(stream)
    /\ StreamBroken
    /\ UNCHANGED <<auth, worker, store, history, switches>>

\* Firebase Auth has no token to give (no network, say).
TokenFails ==
    /\ Fault
    /\ NextTask("token") /\ Current(Head(worker))
    /\ worker' = Tail(worker)
    /\ StreamBroken
    /\ UNCHANGED <<auth, store, history, switches>>

\* The server's permanent error comes in after the answers before it, except
\* that a write failing first cancels the read that is waiting.
RefusalHeard ==
    /\ IsOpen(stream) /\ refused # None /\ shaken /\ pipeline # << >>
    /\ Len(answers) <= LostAnswers
    /\ WriteRefused
    /\ RequestCredentials(stream')
    /\ UNCHANGED <<signedIn, main, tokens, worker, user, nextBatch, nextWrite,
                   committed, bounds>>

BackoffTimer ==
    /\ stream.state = "Backoff"
    /\ stream' = BackoffElapsed(stream)
    /\ RequestCredentials(stream')
    /\ UNCHANGED <<signedIn, main, tokens, worker, store, pipeline, shaken,
                   network, history, bounds>>

IdleTimer ==
    /\ stream.idle
    /\ stream' = Stop(stream)
    /\ StreamGone
    /\ UNCHANGED <<auth, worker, store, pipeline, history, bounds>>

\* The ConnectivityMonitor reports a network again.
ConnectivityChanged ==
    /\ Fault
    /\ RestartNetwork(queue[user])
    /\ UNCHANGED <<signedIn, main, tokens, worker, store, history, switches>>

-----------------------------------------------------------------------------
(* The server *)

\* The server answers the requests of a stream in order.
ServerShakes ==
    /\ sent # << >> /\ refused = None
    /\ Head(sent) = Shake
    /\ sent' = Tail(sent)
    /\ answers' = Append(answers, Head(sent))
    /\ UNCHANGED <<auth, worker, store, pipeline, stream, shaken, openedAs, refused,
                   history, bounds>>

ServerCommits ==
    /\ sent # << >> /\ refused = None
    /\ Head(sent) # Shake
    /\ sent' = Tail(sent)
    /\ answers' = Append(answers, Head(sent))
    /\ committed' = committed \cup {Head(sent).write}
    /\ UNCHANGED <<auth, worker, store, pipeline, stream, shaken, openedAs, refused,
                   nextWrite, told, bounds>>

\* It ends the stream at a request it refuses.
ServerRefuses ==
    /\ sent # << >> /\ refused = None
    /\ Head(sent) # Shake
    /\ refused' = Head(sent).write
    /\ sent' = << >>
    /\ UNCHANGED <<auth, worker, store, pipeline, stream, shaken, openedAs, answers,
                   history, bounds>>

-----------------------------------------------------------------------------
(* The main queue, and the app *)

\* setData: the write is a task on the worker queue, after those before it.
AppWrites ==
    /\ nextWrite <= MaxWrites
    /\ worker' = Append(worker, [kind |-> "write", write |-> nextWrite])
    /\ nextWrite' = nextWrite + 1
    /\ UNCHANGED <<auth, store, pipeline, stream, shaken, network, committed, told,
                   bounds>>

\* Auth signs someone in or out, or refreshes the token of who is; the others
\* hear of it on the main queue.
AuthChanges ==
    /\ switches < MaxSwitches
    /\ switches' = switches + 1
    /\ signedIn' \in Owners
    /\ main' = Append(main, [kind |-> "user", user |-> signedIn'])
    /\ UNCHANGED <<tokens, asked, worker, store, pipeline, stream, shaken,
                   network, history, faults>>

\* Auth fetches a token for who was, or is by now, signed in.
AuthAnswers ==
    /\ \E r \in asked : \E u \in {r.from, signedIn} :
          /\ asked' = asked \ {r}
          /\ main' = Append(main, [kind |-> "token", user |-> u, closes |-> r.closes,
                                   count |-> r.count])
    /\ UNCHANGED <<signedIn, tokens, worker, store, pipeline, stream, shaken,
                   network, history, bounds>>

NextBlock(kind) == main # << >> /\ Head(main).kind = kind

\* The provider takes over the new user, and the client hears of it.
CredentialsChange ==
    /\ NextBlock("user")
    /\ main' = Tail(main)
    /\ tokens' = tokens + 1
    /\ worker' = Append(worker, Head(main))
    /\ UNCHANGED <<signedIn, asked, store, pipeline, stream, shaken, network,
                   history, bounds>>

\* A token is passed on only if nobody was announced since it was asked for;
\* else it is asked for again.
TokenFresh(block) == block.count = tokens
TokenArrives ==
    /\ NextBlock("token")
    /\ main' = Tail(main)
    /\ LET token == Head(main)
       IN  IF TokenFresh(token)
           THEN /\ worker' = Append(worker, [kind |-> "token", user |-> token.user,
                                             closes |-> token.closes])
                /\ UNCHANGED asked
           ELSE /\ asked' = asked \cup {[closes |-> token.closes, from |-> signedIn,
                                         count |-> tokens]}
                /\ UNCHANGED worker
    /\ UNCHANGED <<signedIn, tokens, store, pipeline, stream, shaken, network,
                   history, bounds>>

\* The app dies and is started again: the queues are on disk, and Auth knows who
\* was signed in; everything else is gone.
Relaunch ==
    /\ Fault
    /\ main' = << >> /\ worker' = << >>
    /\ tokens' = 0
    /\ user' = signedIn
    /\ nextBatch' = LoadNextBatchId(queue)
    /\ callbacks' = [o \in Owners |-> << >>]
    /\ pipeline' = NewInPipeline(queue[user'], << >>)
    /\ stream' = IF pipeline' # << >> THEN Start(NewStream) ELSE NewStream
    /\ asked' = IF pipeline' # << >>
                THEN {[closes |-> 0, count |-> 0, from |-> signedIn]} ELSE {}
    /\ StreamGone
    /\ UNCHANGED <<signedIn, queue, history, switches>>

-----------------------------------------------------------------------------
Init ==
    /\ signedIn \in Owners /\ main = << >> /\ tokens = 0 /\ asked = {}
    /\ worker = << >>
    /\ user = signedIn /\ queue = [o \in Owners |-> << >>] /\ nextBatch = 1
    /\ callbacks = [o \in Owners |-> << >>]
    /\ pipeline = << >> /\ stream = NewStream /\ shaken = FALSE
    /\ sent = << >> /\ answers = << >> /\ openedAs = {} /\ refused = None
    /\ nextWrite = 1 /\ committed = {} /\ told = {}
    /\ switches = 0 /\ faults = 0

Tasks   == WriteMutations \/ HandleCredentialChange \/ DropToken \/ OpenStream
Reads   == HandshakeComplete \/ MutationResult
Serves  == ServerShakes \/ ServerCommits \/ ServerRefuses
Blocks  == CredentialsChange \/ TokenArrives
Faults  == ConnectionLost \/ TokenFails \/ ConnectivityChanged \/ Relaunch

Next ==
    \/ Tasks \/ Reads \/ RefusalHeard \/ BackoffTimer \/ IdleTimer
    \/ Serves \/ Blocks \/ AuthAnswers
    \/ AppWrites \/ AuthChanges \/ Faults

\* The queues run what they are given, timers elapse, and a server or an Auth
\* that can be reached answers; nobody has to write, sign in, or fail.
Fairness ==
    /\ WF_vars(Tasks) /\ WF_vars(Blocks) /\ WF_vars(AuthAnswers)
    /\ WF_vars(Reads) /\ WF_vars(RefusalHeard) /\ WF_vars(BackoffTimer)
    /\ WF_vars(Serves)

Spec == Init /\ [][Next]_vars

FairSpec == Spec /\ Fairness

-----------------------------------------------------------------------------
(* Properties *)

TypeOK ==
    /\ signedIn \in Owners /\ main \in Seq(Block) /\ tokens \in Nat
    /\ asked \subseteq GetToken
    /\ worker \in Seq(Task)
    /\ user \in Owners /\ queue \in [Owners -> Seq(Batch)] /\ nextBatch \in Nat \ {0}
    /\ \A o \in Owners : /\ DOMAIN callbacks[o] \subseteq Nat \ {0}
                         /\ \A id \in DOMAIN callbacks[o] : callbacks[o][id] \in Writes
    /\ DOMAIN callbacks = Owners
    /\ pipeline \in Seq(Batch) /\ stream \in StreamState /\ shaken \in BOOLEAN
    /\ sent \in Seq(Message) /\ answers \in Seq(Message)
    /\ openedAs \subseteq Owners /\ refused \in Writes \cup {None}
    /\ nextWrite \in Nat \ {0} /\ committed \subseteq Writes
    /\ told \subseteq [write : Writes, ok : BOOLEAN]
    /\ switches \in Nat /\ faults \in Nat

\* The pipeline is the front of the current user's queue on disk, never longer
\* than allowed, whatever was answered, refused, switched or restarted since it
\* was filled: no batch is skipped, repeated or of another user.
PipelineIsQueueFront ==
    /\ IsPrefix(pipeline, queue[user])
    /\ Len(pipeline) <= MaxPending

\* What is on its way to the server and back on an open stream is the pipeline in
\* its order, so that the front of the pipeline is what an answer is about; and a
\* stream that is not open has nothing on its way.
AnswersMatchPipeline ==
    IF shaken THEN IsOpen(stream) /\ IF refused = None THEN answers \o sent = pipeline
                                     ELSE IsStrictPrefix(answers, pipeline)
    ELSE /\ answers \o sent = IF IsOpen(stream) THEN << Shake >> ELSE << >>
         /\ refused = None

\* The assertions that end the process hold where they are reached: a token that
\* is not stale finds the stream starting (stream.cc:129), an idle timer finds an
\* empty pipeline (remote_store.cc:456), an answer finds a batch in the pipeline
\* (remote_store.cc:437), and that batch is on disk (local_store.cc:237).
AssertionsHold ==
    /\ NextTask("token") /\ Current(Head(worker)) => stream.state = "Starting"
    /\ stream.idle => IsOpen(stream) /\ pipeline = << >>
    /\ shaken /\ (answers # << >> \/ refused # None) =>
          /\ pipeline # << >>
          /\ Head(pipeline) \in Range(queue[user])

\* A stream is only ever open with a token of the user whose queue is sent on it,
\* although tokens, announcements and tasks wait on three different queues.
OpenAsCurrentUser == openedAs \subseteq {user}

\* A completion block waits under the id of its own write, although ids are used
\* again and blocks are kept while other users are signed in.
BlocksWaitForTheirWrite ==
    \A o \in Owners : \A id \in DOMAIN callbacks[o] :
        [id |-> id, write |-> callbacks[o][id]] \in Range(queue[o])

\* A completion block is told of success only if the server applied the write.
SuccessMeansCommitted ==
    \A t \in told : t.ok => t.write \in committed

\* No write is both reported done and reported refused.
ToldOnce == \A t, u \in told : t.write = u.write => t = u

\* The server first sees the writes of a user in the order the user made them.
CommitsInOrder ==
    [][\A k \in DOMAIN queue[user] :
          queue[user][k].write \in committed' \ committed =>
             \A j \in 1 .. k : queue[user][j].write \in committed']_vars

\* The client keeps the promise of WriteQueue.
WritesOf(q) == [k \in DOMAIN q |-> q[k].write]
Promise == INSTANCE WriteQueue WITH
              Accounts <- Owners, who <- user,
              pending <- [o \in Owners |-> WritesOf(queue[o])],
              ahead <- IF shaken THEN Len(answers) ELSE 0
ImplementsWriteQueue == Promise!Spec

Queued(o, w) == \E k \in DOMAIN queue[o] : queue[o][k].write = w

\* As long as its user stays signed in, every write on disk is answered in the
\* end, over lost connections, refusals, restarts of the network and of the app.
EveryWriteLeaves ==
    \A w \in Writes : Queued(user, w) ~> ~Queued(user, w)
=============================================================================
