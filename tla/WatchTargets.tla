---------------------------- MODULE WatchTargets ----------------------------
(***************************************************************************)
(* How a read is answered: the watch half of the Firestore client (core/   *)
(* src in Pods/FirebaseFirestore), as the app uses it.  Every read of the  *)
(* app is a getDocument or getDocuments: a listener that waits for the     *)
(* server while that may be online, is given one answer, and is removed.   *)
(*                                                                         *)
(* The registries of listeners (EventManager), views (SyncEngine) and      *)
(* targets (RemoteStore) change in one task of the worker queue; the       *)
(* answer is a block on the main queue, and the removal it asks for is     *)
(* another task later on.  Requests and responses cross on the watch       *)
(* stream, and a query keeps its target id, so that answers to a listen    *)
(* that was given up can come while the next one is on.                    *)
(***************************************************************************)
EXTENDS Integers, Sequences, SequencesExt, FiniteSets, Stream

CONSTANTS
    Queries,      \* what the app reads; each is a target of its own
    Forbidden,    \* those the server's rules reject
    MaxGets,      \* bound: reads the app asks for
    MaxChanges,   \* bound: changes of the data on the server
    MaxFaults     \* bound: errors and restarts of the network

ASSUME WatchAssumptions ==
    /\ IsFiniteSet(Queries) /\ Forbidden \subseteq Queries
    /\ MaxGets \in Nat /\ MaxChanges \in Nat /\ MaxFaults \in Nat

VARIABLES
    asks,       \* the reads asked for so far: the query of each
    main,       \* answers on their way over the main queue
    muted,      \* AsyncEventListener: muted_
    told,       \* what the app was given, in order
    worker,     \* tasks on the client's worker queue
    listeners,  \* EventManager: the listeners of each query
    raised,     \* QueryListener: raised_initial_event_
    views,      \* SyncEngine: query_views_by_query_
    current,    \* View: those whose current_ is set
    since,      \* the version on the server when the view was made
    cache,      \* LocalStore: the version of each query's documents, 0 if none
    targets,    \* RemoteStore: listen_targets_
    stream,     \* WatchStream: state_, close_count_, idleness_timer_
    tokens,     \* calls of GetToken not yet answered, by close_count_
    tracker,    \* OnlineStateTracker
    states,     \* WatchChangeAggregator: target_states_
    docs,       \* WatchChangeAggregator: pending_document_updates_
    sent,       \* requests on the stream the server has not looked at
    answers,    \* responses on the stream the client has not read
    serving,    \* server: the targets of the stream, what each was sent
    version,    \* server: the version of each query's documents
    faults      \* faults so far

app     == <<asks, muted, told>>
engine  == <<listeners, views, since, cache>>
network == <<sent, answers, serving>>
vars == <<app, main, worker, engine, raised, current, targets, stream, tokens,
          tracker, states, docs, network, version, faults>>

-----------------------------------------------------------------------------
(* What the data is *)

Gets     == 1 .. MaxGets
Versions == 0 .. MaxChanges + 1

Answer  == [get : Gets, from : {"synced", "cache", "error"}, version : Versions,
            since : Versions]
Task    == [kind : {"listen", "remove"}, get : Gets]
              \cup [kind : {"token"}, closes : Nat]
Request == [kind : {"watch", "unwatch"}, query : Queries]
Message == [kind : {"added", "removed", "rejected", "current"}, query : Queries]
              \cup [kind : {"document"}, query : Queries, version : Versions]
              \cup [kind : {"snapshot"}]

\* outstanding_responses_, current_, has_pending_changes_
TargetState == [owed : Int, current : BOOLEAN, changed : BOOLEAN]
NewTarget   == [owed |-> 0, current |-> FALSE, changed |-> TRUE]

Tracker == [state : {"Unknown", "Online", "Offline"}, failures : Nat,
            timer : BOOLEAN]

Put(f, k, v) == [x \in DOMAIN f \cup {k} |-> IF x = k THEN v ELSE f[x]]
Without(f, k) == [x \in DOMAIN f \ {k} |-> f[x]]

-----------------------------------------------------------------------------
(* OnlineStateTracker; kMaxWatchStreamFailures is 1 *)

HandleWatchStreamStart(t) ==
    IF t.failures # 0 THEN t
    ELSE [state |-> "Unknown", failures |-> 0, timer |-> TRUE]

HandleWatchStreamFailure(t) ==
    IF t.state = "Online" THEN [t EXCEPT !.state = "Unknown"]
    ELSE [state |-> "Offline", failures |-> t.failures + 1, timer |-> FALSE]

UpdateKeepsTimer(t, state) == [t EXCEPT !.state = state, !.failures = 0]

UpdateState(t, state) == [state |-> state, failures |-> 0, timer |-> FALSE]

-----------------------------------------------------------------------------
(* EventManager and QueryListener: who is told of what *)

Listening == UNION {listeners[q] : q \in Queries}

Event(g, from) == [get |-> g, from |-> from[asks[g]], version |-> cache'[asks[g]],
                   since |-> since'[asks[g]]]

\* Answers are posted to the main queue query by query, in any order of these, and
\* to the listeners of one in the order of the reads.
Post(gets, from) ==
    \E order \in SetToSeqs(gets) :
        /\ \A j, k \in DOMAIN order :
              asks[order[j]] = asks[order[k]] /\ j < k => order[j] < order[k]
        /\ main' = main \o [k \in DOMAIN order |-> Event(order[k], from)]

Raise(gets) ==
    /\ raised' = raised \cup gets
    /\ Post(gets, [q \in Queries |-> IF q \in current' THEN "synced" ELSE "cache"])

RaiseNothing == UNCHANGED <<raised, main>>

\* When the state turns to Offline the views are no longer current, and whoever
\* waits for the first answer gets it from the cache.
Broadcast ==
    IF tracker.state # "Offline" /\ tracker'.state = "Offline"
    THEN /\ current' = {}
         /\ Raise({g \in Listening : g \notin raised \/ asks[g] \in current})
    ELSE RaiseNothing /\ UNCHANGED current

RegisteredNext(g) == [listeners EXCEPT ![asks[g]] = @ \cup {g + 1}]

Registered(g) == [listeners EXCEPT ![asks[g]] = @ \cup {g}]

Unregistered(g) == [listeners EXCEPT ![asks[g]] = @ \ {g}]

-----------------------------------------------------------------------------
(* WatchChangeAggregator *)

State(q) == IF q \in DOMAIN states THEN states[q] ELSE NewTarget

IsListened(q) == q \in targets

\* Messages about a target count only once every request about it is answered.
IsActive(q) == q \in targets /\ State(q).owed = 0

Owing(q) == Put(states, q, [State(q) EXCEPT !.owed = @ + 1])

OwingNothing(q) == Put(states, q, State(q))

Added(q) ==
    LET left == State(q).owed - 1
    IN  states' = Put(states, q, [owed |-> left, current |-> State(q).current,
                                  changed |-> State(q).changed /\ left # 0])

Removed(q) ==
    LET left == State(q).owed - 1
    IN  states' = IF left = 0 THEN Without(states, q)
                  ELSE Put(states, q, [State(q) EXCEPT !.owed = left])

Current(q) ==
    states' = Put(states, q, IF IsActive(q)
                             THEN [owed |-> 0, current |-> TRUE, changed |-> TRUE]
                             ELSE State(q))

Document(q, v) ==
    IF IsActive(q)
    THEN /\ states' = Put(states, q, [State(q) EXCEPT !.changed = TRUE])
         /\ docs' = Put(docs, q, v)
    ELSE UNCHANGED <<states, docs>>

-----------------------------------------------------------------------------
(* RemoteStore: the watch half *)

Watch(q)   == [kind |-> "watch", query |-> q]
Unwatch(q) == [kind |-> "unwatch", query |-> q]

SendWatchRequest(q) ==
    /\ states' = Owing(q)
    /\ sent' = Append(sent, Watch(q))
    /\ stream' = WriteTo(stream)

SendUnwatchUnrecorded(q) ==
    /\ states' = OwingNothing(q)
    /\ sent' = Append(sent, Unwatch(q))

SendUnwatchRequest(q) ==
    /\ states' = Owing(q)
    /\ sent' = Append(sent, Unwatch(q))

RequestCredentialsFirst ==
    tokens' = IF stream'.state = "Starting" /\ stream.state = "Initial"
              THEN tokens \cup {stream'.closes} ELSE tokens

\* Stream::Start asks for a token unless it backs off first.
RequestCredentials ==
    tokens' = IF stream'.state = "Starting" /\ stream' # stream
              THEN tokens \cup {stream'.closes} ELSE tokens

\* The gRPC stream is gone, with what was on its way and the aggregator's state.
StreamGone ==
    /\ sent' = << >> /\ answers' = << >> /\ serving' = << >>
    /\ states' = << >> /\ docs' = << >>

\* OnWatchStreamClose for an error: try again if anything is listened to.
ClosedForGood(s) ==
    /\ stream' = Fail(s)
    /\ tracker' = UpdateState(tracker, "Unknown")

Reopened(s) ==
    IF targets # {}
    THEN /\ stream' = Start(Fail(s))
         /\ tracker' = HandleWatchStreamStart(HandleWatchStreamFailure(tracker))
    ELSE /\ stream' = Fail(s)
         /\ tracker' = UpdateState(tracker, "Unknown")

WatchStreamBroken ==
    /\ Reopened(stream)
    /\ StreamGone
    /\ UNCHANGED <<cache, since>>
    /\ Broadcast
    /\ RequestCredentials

\* RemoteStore::Listen, after a view of q was made.
StartListening(q) ==
    /\ targets' = targets \cup {q}
    /\ IF ~IsStarted(stream)
       THEN /\ stream' = Start(stream)
            /\ tracker' = HandleWatchStreamStart(tracker)
            /\ states' = << >> /\ docs' = << >>
            /\ UNCHANGED sent
       ELSE /\ UNCHANGED <<tracker, docs>>
            /\ IF IsOpen(stream) THEN SendWatchRequest(q)
               ELSE UNCHANGED <<states, sent, stream>>
    /\ RequestCredentials

LeftToIdle(q) ==
    /\ targets' = targets \ {q}
    /\ stream' = IF targets' = {} THEN MarkIdle(stream) ELSE stream
    /\ UNCHANGED <<tracker, states, sent>>

\* RemoteStore::StopListening
StopListening(q) ==
    /\ targets' = targets \ {q}
    /\ IF IsOpen(stream)
       THEN /\ SendUnwatchRequest(q)
            /\ stream' = IF targets' = {} THEN MarkIdle(WriteTo(stream))
                         ELSE WriteTo(stream)
            /\ UNCHANGED tracker
       ELSE /\ tracker' = IF targets' = {} THEN UpdateState(tracker, "Unknown")
                          ELSE tracker
            /\ UNCHANGED <<states, sent, stream>>

-----------------------------------------------------------------------------
(* Tasks on the worker queue *)

NextTask(kind) == worker # << >> /\ Head(worker).kind = kind

\* AddQueryListener to a query that has a view: answered now if that will do.
JoinListeners ==
    /\ NextTask("listen")
    /\ worker' = Tail(worker)
    /\ LET g == Head(worker).get
       IN  /\ asks[g] \in views
           /\ listeners' = Registered(g)
           /\ UNCHANGED <<cache, since, current>>
           /\ IF asks[g] \in current \/ tracker.state = "Offline" THEN Raise({g})
              ELSE RaiseNothing
    /\ UNCHANGED <<app, views, targets, stream, tokens, tracker, states,
                   docs, network, version, faults>>

\* AddQueryListener to a query that has none: SyncEngine::Listen.
Listen ==
    /\ NextTask("listen")
    /\ worker' = Tail(worker)
    /\ LET g == Head(worker).get
           q == asks[g]
       IN  /\ q \notin views
           /\ listeners' = Registered(g)
           /\ views' = views \cup {q}
           /\ since' = [since EXCEPT ![q] = version[q]]
           /\ UNCHANGED <<cache, current>>
           /\ IF tracker.state = "Offline" THEN Raise({g}) ELSE RaiseNothing
           /\ StartListening(q)
    /\ UNCHANGED <<app, answers, serving, version, faults>>

\* RemoveQueryListener; the last of a query ends the listening.
RemoveListener ==
    /\ NextTask("remove")
    /\ worker' = Tail(worker)
    /\ LET g == Head(worker).get
           q == asks[g]
       IN  /\ listeners' = Unregistered(g)
           /\ IF listeners[q] # {} /\ listeners'[q] = {}
              THEN /\ views' = views \ {q}
                   /\ current' = current \ {q}
                   /\ StopListening(q)
              ELSE UNCHANGED <<views, current, targets, stream, tracker, states, sent>>
    /\ UNCHANGED <<app, main, raised, since, cache, tokens, docs, answers, serving,
                   version, faults>>

IsCurrent(task) == task.closes = stream.closes

DropToken ==
    /\ NextTask("token")
    /\ ~IsCurrent(Head(worker))
    /\ worker' = Tail(worker)
    /\ UNCHANGED <<app, main, engine, raised, current, targets, stream, tokens,
                   tracker, states, docs, network, version, faults>>

\* The stream is open: every target is asked for again, in any order.
OpenStream ==
    /\ NextTask("token")
    /\ IsCurrent(Head(worker))
    /\ worker' = Tail(worker)
    /\ stream' = OnStreamStart(stream)
    /\ sent' \in SetToSeqs({Watch(q) : q \in targets})
    /\ states' = [q \in targets |-> [NewTarget EXCEPT !.owed = 1]]
    /\ UNCHANGED <<app, main, engine, raised, current, targets, tokens, tracker,
                   docs, answers, serving, version, faults>>

-----------------------------------------------------------------------------
(* What the server says: OnWatchStreamChange *)

NextAnswer(kind) ==
    IsOpen(stream) /\ answers # << >> /\ Head(answers).kind = kind

\* Any message shows that the client is online.
Read ==
    /\ answers' = Tail(answers)
    /\ tracker' = UpdateState(tracker, "Online")
    /\ UNCHANGED <<app, worker, stream, tokens, sent, serving, version, faults>>

TargetAdded ==
    /\ NextAnswer("added") /\ Read
    /\ Added(Head(answers).query)
    /\ UNCHANGED <<main, engine, raised, current, targets, docs>>

TargetRemoved ==
    /\ NextAnswer("removed") /\ Read
    /\ Removed(Head(answers).query)
    /\ UNCHANGED <<main, engine, raised, current, targets, docs>>

TargetCurrent ==
    /\ NextAnswer("current") /\ Read
    /\ Current(Head(answers).query)
    /\ UNCHANGED <<main, engine, raised, current, targets, docs>>

DocumentChange ==
    /\ NextAnswer("document") /\ Read
    /\ Document(Head(answers).query, Head(answers).version)
    /\ UNCHANGED <<main, engine, raised, current, targets>>

ListenersKept(q) == listeners

ListenersFailed(q) == [listeners EXCEPT ![q] = {}]

\* ProcessTargetError: everyone who listens is told, and the target is gone.
TargetRejected ==
    /\ NextAnswer("rejected") /\ Read
    /\ LET q == Head(answers).query
       IN  IF q \in targets
           THEN /\ targets' = targets \ {q}
                /\ states' = Without(states, q)
                /\ views' = views \ {q}
                /\ current' = current \ {q}
                /\ listeners' = ListenersFailed(q)
                /\ UNCHANGED <<cache, since>>
                /\ Post(listeners[q], [r \in Queries |-> "error"])
           ELSE UNCHANGED <<main, engine, current, targets, states>>
    /\ UNCHANGED <<raised, docs>>

\* RaiseWatchSnapshot: the documents go to the cache, and views that changed or
\* became current tell their listeners.
Snapshot ==
    /\ NextAnswer("snapshot") /\ Read
    /\ LET changed == {q \in DOMAIN states : IsActive(q) /\ states[q].changed}
           synced  == {q \in views : IF q \in changed THEN states[q].current
                                     ELSE q \in current}
           newDocs == {q \in DOMAIN docs : docs[q] > cache[q]}
           news    == {q \in views : q \in newDocs \/ (q \in synced) # (q \in current)}
       IN  /\ cache' = [q \in Queries |-> IF q \in newDocs THEN docs[q] ELSE cache[q]]
           /\ current' = synced
           /\ states' = [q \in DOMAIN states |-> [states[q] EXCEPT
                                !.changed = @ /\ q \notin changed]]
           /\ UNCHANGED since
           /\ Raise({g \in Listening :
                        asks[g] \in news /\ (g \in raised \/ asks[g] \in synced)})
    /\ docs' = << >>
    /\ UNCHANGED <<listeners, views, targets>>

-----------------------------------------------------------------------------
(* What happens to the stream *)

Fault == faults < MaxFaults /\ faults' = faults + 1

ConnectionLost ==
    /\ Fault
    /\ IsOpen(stream)
    /\ WatchStreamBroken
    /\ UNCHANGED <<app, worker, listeners, views, targets, version>>

TokenFails ==
    /\ Fault
    /\ NextTask("token") /\ IsCurrent(Head(worker))
    /\ worker' = Tail(worker)
    /\ WatchStreamBroken
    /\ UNCHANGED <<app, listeners, views, targets, version>>

BackoffTimer ==
    /\ stream.state = "Backoff"
    /\ stream' = BackoffElapsed(stream)
    /\ RequestCredentials
    /\ UNCHANGED <<app, main, worker, engine, raised, current, targets, tracker,
                   states, docs, network, version, faults>>

IdleTimer ==
    /\ stream.idle
    /\ stream' = Stop(stream)
    /\ tracker' = UpdateState(tracker, "Unknown")
    /\ StreamGone
    /\ UNCHANGED <<app, main, worker, engine, raised, current, targets, tokens,
                   version, faults>>

\* The server took more than ten seconds.
OnlineTimer ==
    /\ tracker.timer
    /\ tracker' = [state |-> "Offline", failures |-> tracker.failures, timer |-> FALSE]
    /\ UNCHANGED <<cache, since>>
    /\ Broadcast
    /\ UNCHANGED <<app, worker, listeners, views, targets, stream, tokens, states,
                   docs, network, version, faults>>

\* RestartNetwork: another network, another user, or a new token.
NetworkRestarts ==
    /\ Fault
    /\ stream' = LET s == InhibitBackoff(Stop(stream))
                 IN  IF targets # {} THEN Start(s) ELSE s
    /\ tracker' = LET t == UpdateState(tracker, "Unknown")
                  IN  IF targets # {} THEN HandleWatchStreamStart(t) ELSE t
    /\ StreamGone
    /\ RequestCredentials
    /\ UNCHANGED <<app, main, worker, engine, raised, current, targets, version>>

\* Firebase Auth has the token that was asked for.
TokenArrives ==
    /\ \E closes \in tokens :
          /\ tokens' = tokens \ {closes}
          /\ worker' = Append(worker, [kind |-> "token", closes |-> closes])
    /\ UNCHANGED <<app, main, engine, raised, current, targets, stream, tracker,
                   states, docs, network, version, faults>>

-----------------------------------------------------------------------------
(* The server *)

\* Requests are answered in order; the rules reject a query or they do not.
ServerWatches ==
    /\ sent # << >> /\ Head(sent).kind = "watch"
    /\ sent' = Tail(sent)
    /\ LET q == Head(sent).query
       IN  IF q \in Forbidden
           THEN /\ answers' = Append(answers, [kind |-> "rejected", query |-> q])
                /\ UNCHANGED serving
           ELSE /\ answers' = Append(answers, [kind |-> "added", query |-> q])
                /\ serving' = Put(serving, q, 0)
    /\ UNCHANGED <<app, main, worker, engine, raised, current, targets, stream,
                   tokens, tracker, states, docs, version, faults>>

ServerUnwatches ==
    /\ sent # << >> /\ Head(sent).kind = "unwatch"
    /\ sent' = Tail(sent)
    /\ answers' = Append(answers, [kind |-> "removed", query |-> Head(sent).query])
    /\ serving' = Without(serving, Head(sent).query)
    /\ UNCHANGED <<app, main, worker, engine, raised, current, targets, stream,
                   tokens, tracker, states, docs, version, faults>>

\* A target is brought up to date: its documents, the mark that it is current if
\* it is new, and a snapshot, which is for all targets.
ServerSends ==
    /\ \E q \in DOMAIN serving :
          /\ serving[q] < version[q]
          /\ serving' = [serving EXCEPT ![q] = version[q]]
          /\ answers' = answers
                \o << [kind |-> "document", query |-> q, version |-> version[q]] >>
                \o (IF serving[q] = 0 THEN << [kind |-> "current", query |-> q] >>
                    ELSE << >>)
                \o << [kind |-> "snapshot"] >>
    /\ UNCHANGED <<app, main, worker, engine, raised, current, targets, stream,
                   tokens, tracker, states, docs, sent, version, faults>>

\* Somebody changes the documents of q.
ServerChanges ==
    /\ \E q \in Queries :
          /\ version[q] <= MaxChanges
          /\ version' = [version EXCEPT ![q] = @ + 1]
    /\ UNCHANGED <<app, main, worker, engine, raised, current, targets, stream,
                   tokens, tracker, states, docs, network, faults>>

-----------------------------------------------------------------------------
(* The app, on the main queue *)

Get ==
    /\ Len(asks) < MaxGets
    /\ \E q \in Queries : asks' = Append(asks, q)
    /\ worker' = Append(worker, [kind |-> "listen", get |-> Len(asks) + 1])
    /\ UNCHANGED <<main, muted, told, engine, raised, current, targets, stream,
                   tokens, tracker, states, docs, network, version, faults>>

MutedNever(answer) == muted

\* ListenOnce removes its registration before it passes the answer on, unless
\* the answer is an error.
Muted(answer) == IF answer.from = "error" THEN muted ELSE muted \cup {answer.get}

OnEvent ==
    /\ main # << >>
    /\ main' = Tail(main)
    /\ LET answer == Head(main)
           g      == answer.get
       IN  IF g \in muted THEN UNCHANGED <<muted, told, worker>>
           ELSE /\ told' = Append(told, answer)
                /\ muted' = Muted(answer)
                /\ worker' = IF answer.from # "error" /\ g \in Listening
                             THEN Append(worker, [kind |-> "remove", get |-> g])
                             ELSE worker
    /\ UNCHANGED <<asks, engine, raised, current, targets, stream, tokens, tracker,
                   states, docs, network, version, faults>>

-----------------------------------------------------------------------------
Init ==
    /\ asks = << >> /\ main = << >> /\ muted = {} /\ told = << >> /\ worker = << >>
    /\ listeners = [q \in Queries |-> {}] /\ raised = {} /\ views = {}
    /\ current = {} /\ since = [q \in Queries |-> 0] /\ cache = [q \in Queries |-> 0]
    /\ targets = {} /\ stream = NewStream /\ tokens = {}
    /\ tracker = [state |-> "Unknown", failures |-> 0, timer |-> FALSE]
    /\ states = << >> /\ docs = << >>
    /\ sent = << >> /\ answers = << >> /\ serving = << >>
    /\ version = [q \in Queries |-> 1] /\ faults = 0

Tasks  == JoinListeners \/ Listen \/ RemoveListener \/ DropToken \/ OpenStream
Reads  == TargetAdded \/ TargetRemoved \/ TargetCurrent \/ DocumentChange
             \/ TargetRejected \/ Snapshot
Serves == ServerWatches \/ ServerUnwatches \/ ServerSends
Faults == ConnectionLost \/ TokenFails \/ NetworkRestarts

Next ==
    \/ Tasks \/ Reads \/ Serves \/ TokenArrives \/ OnEvent
    \/ BackoffTimer \/ IdleTimer \/ OnlineTimer
    \/ Get \/ ServerChanges \/ Faults

\* The queues run what they are given, tokens come, the backoff ends, and a
\* server on a connection that does not fail answers.  Nothing is asked of the
\* ten-second timer.
Fairness ==
    /\ WF_vars(Tasks) /\ WF_vars(Reads) /\ WF_vars(OnEvent)
    /\ WF_vars(TokenArrives) /\ WF_vars(BackoffTimer)
    /\ WF_vars(ServerWatches \/ ServerUnwatches) /\ WF_vars(ServerSends)

Spec == Init /\ [][Next]_vars

FairSpec == Spec /\ Fairness

-----------------------------------------------------------------------------
(* Properties *)

WatchType ==
    /\ asks \in Seq(Queries) /\ Len(asks) <= MaxGets
    /\ main \in Seq(Answer) /\ told \in Seq(Answer) /\ worker \in Seq(Task)
    /\ muted \subseteq DOMAIN asks /\ raised \subseteq DOMAIN asks
    /\ listeners \in [Queries -> SUBSET DOMAIN asks]
    /\ views \subseteq Queries /\ current \subseteq views /\ targets \subseteq Queries
    /\ since \in [Queries -> Versions] /\ cache \in [Queries -> Versions]
    /\ stream \in StreamState /\ tokens \subseteq Nat /\ tracker \in Tracker
    /\ DOMAIN states \subseteq Queries
    /\ \A q \in DOMAIN states : states[q] \in TargetState
    /\ DOMAIN docs \subseteq Queries /\ \A q \in DOMAIN docs : docs[q] \in Versions
    /\ sent \in Seq(Request) /\ answers \in Seq(Message)
    /\ DOMAIN serving \subseteq Queries
    /\ \A q \in DOMAIN serving : serving[q] \in Versions
    /\ version \in [Queries -> Versions] /\ faults \in Nat

\* The assertions that end the process hold where they are reached: a token that
\* is not stale finds the stream starting (stream.cc:129); a stream with targets
\* is never stopped for being idle (remote_store.cc:236); the ten-second timer
\* runs only in the Unknown state (online_state_tracker.cc:67), never when a
\* stream is about to start (:61) and not after the server was heard (:87).
AssertionsHold ==
    /\ NextTask("token") /\ IsCurrent(Head(worker)) => stream.state = "Starting"
    /\ stream.idle => IsOpen(stream) /\ targets = {}
    /\ tracker.timer => tracker.state = "Unknown" /\ IsStarted(stream)
    /\ tracker.state = "Online" => tracker.failures = 0

\* Between tasks the three registries name the same queries, whatever was
\* rejected while reads came and went; whoever is listened to has a stream that
\* is open or being opened; and a listener that was answered is about to go.
RegistriesAgree ==
    /\ views = {q \in Queries : listeners[q] # {}}
    /\ targets = views
    /\ targets # {} \/ tracker.state = "Offline" => IsStarted(stream)
    /\ \A g \in Listening \cap muted :
          [kind |-> "remove", get |-> g] \in ToSet(worker)

\* The client counts what the server owes it: on an open stream, the requests
\* about a target that are not answered, or whose answer is not read.  (After a
\* rejection it forgets the count; of such a query it only reads rejections.)
About(q, s, kinds) == {i \in DOMAIN s : s[i].kind \in kinds /\ s[i].query = q}
OwedIsOnItsWay ==
    IsOpen(stream) =>
        \A q \in Queries \ Forbidden :
            State(q).owed = Cardinality(About(q, sent, {"watch", "unwatch"}))
                              + Cardinality(About(q, answers, {"added", "removed"}))

\* Once it has looked at what it was sent, the server watches just what the
\* client listens to: no target is left over, and none is waited for in vain.  A
\* target it rejects is listened to only while the rejection is on its way.
ServerWillAgree ==
    IsOpen(stream) =>
        /\ \A q \in Queries \ Forbidden :
              LET asked == About(q, sent, {"watch", "unwatch"})
              IN  q \in targets <=> IF asked # {} THEN sent[Max(asked)].kind = "watch"
                                   ELSE q \in DOMAIN serving
        /\ \A q \in Forbidden \cap targets :
              \/ About(q, sent, {"watch"}) # {}
              \/ About(q, answers, {"rejected"}) # {}

\* A read that is told it is in sync with the server is given no older documents
\* than the server had when the listening began, whatever was still on its way
\* for an earlier listen to the same query.
SyncedIsFresh ==
    \A k \in DOMAIN told : told[k].from = "synced" => told[k].version >= told[k].since

\* A read is answered once: ListenOnce fetches its registration from a promise,
\* which a second time would end the process.
AnsweredOnce ==
    \A j, k \in DOMAIN told : told[j].get = told[k].get => j = k

\* The token the stream waits for was asked for, or is here.
TokenComes ==
    \/ stream.closes \in tokens
    \/ [kind |-> "token", closes |-> stream.closes] \in ToSet(worker)

\* A snapshot is on its way at which q will be current: its mark was read, or comes
\* before the snapshot and after every answer to a request about q.
Marked(q) ==
    \E k \in DOMAIN answers :
        /\ answers[k].kind = "snapshot"
        /\ \/ IsActive(q) /\ State(q).current /\ State(q).changed
           \/ \E i \in 1 .. k :
                 /\ answers[i].kind = "current" /\ answers[i].query = q
                 /\ \A j \in About(q, answers, {"added", "removed"}) : j < i

AnswerComes(q) ==
    \/ stream.state = "Backoff"
    \/ stream.state = "Starting" /\ TokenComes
    \/ /\ IsOpen(stream)
       /\ \/ About(q, sent, {"watch"}) # {} \/ About(q, answers, {"rejected"}) # {}
          \/ q \in DOMAIN serving /\ serving[q] = 0
          \/ Marked(q)

\* No read is forgotten.  One that was not answered has its task or its answer in a
\* queue, or it is listened to and what will answer it is under way: a timer, a
\* token, a request, a server that has sent nothing yet, or the mark and the
\* snapshot that follow.  The wake-ups that EveryGetAnswered rests on are never lost.
NoReadIsForgotten ==
    \A g \in DOMAIN asks :
        \/ [kind |-> "listen", get |-> g] \in ToSet(worker)
        \/ \E k \in DOMAIN main : main[k].get = g
        \/ \E k \in DOMAIN told : told[k].get = g
        \/ g \in Listening /\ AnswerComes(asks[g])

\* Every read is answered in the end, from the server, from the cache or with an
\* error, over lost connections, missing tokens and restarts of the network.
EveryGetAnswered ==
    \A g \in Gets :
        Len(asks) >= g ~> \E k \in DOMAIN told : told[k].get = g
=============================================================================
