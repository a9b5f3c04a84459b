----------------------------- MODULE AnswerProofs -----------------------------
(***************************************************************************)
(* An answer carries no name.  The theorems that it is nevertheless about  *)
(* the front of the pipeline, that the assertions which end the process    *)
(* hold where they are reached, and that a completion block is told of     *)
(* success only for what the server has applied, and told once; that the   *)
(* server applies the writes of a user in their order; and the refinement  *)
(* of WriteQueue.                                                          *)
(***************************************************************************)
EXTENDS WritePipelineProofs

USE PipelineAssumptions DEF None

(***************************************************************************)
(* A stream is started by one token                                        *)
(***************************************************************************)

ForThisStart(closes) == closes = stream.closes

AskedInTime == \A r \in asked : /\ r.closes <= stream.closes
                                /\ ForThisStart(r.closes) => stream.state = "Starting"

OnMain(i) == main[i].kind = "token" /\ ForThisStart(main[i].closes)

AnsweredInTime ==
    \A i \in 1 .. Len(main) : main[i].kind = "token" =>
        /\ main[i].closes <= stream.closes
        /\ OnMain(i) => stream.state = "Starting"

OnWorker(j) == worker[j].kind = "token" /\ ForThisStart(worker[j].closes)

PassedInTime ==
    \A j \in 1 .. Len(worker) : worker[j].kind = "token" =>
        /\ worker[j].closes <= stream.closes
        /\ OnWorker(j) => stream.state = "Starting"

\* A start is asked for once, and what is asked for is in one place.
OneAsked  == \A r, s \in asked : ForThisStart(r.closes) /\ ForThisStart(s.closes) => r = s
OneOnMain == \A i, k \in 1 .. Len(main) : OnMain(i) /\ OnMain(k) => i = k
OneOnWorker == \A j, k \in 1 .. Len(worker) : OnWorker(j) /\ OnWorker(k) => j = k
OnePlace ==
    /\ \A r \in asked, i \in 1 .. Len(main) : ~ (ForThisStart(r.closes) /\ OnMain(i))
    /\ \A r \in asked, j \in 1 .. Len(worker) : ~ (ForThisStart(r.closes) /\ OnWorker(j))
    /\ \A i \in 1 .. Len(main), j \in 1 .. Len(worker) : ~ (OnMain(i) /\ OnWorker(j))

StartInv ==
    /\ AskedInTime /\ AnsweredInTime /\ PassedInTime
    /\ OneAsked /\ OneOnMain /\ OneOnWorker /\ OnePlace

\* An idle timer runs only once the handshake is done.
IdleInv == stream.idle => shaken /\ pipeline = << >>

AnswersCommitted == \A k \in 1 .. Len(answers) : answers[k] # Shake => answers[k].write \in committed

\* FillWritePipeline starts a stream that is not started, and else leaves its state.
LEMMA FillStates ==
    ASSUME NEW q, NEW p, NEW s \in StreamState, FillWritePipeline(q, p, s)
    PROVE  /\ stream'.closes = s.closes
           /\ IsStarted(s) => stream'.state = s.state
           /\ s.state = "Starting" => stream' = s
           /\ ~ IsStarted(s) => stream'.state \in {s.state, "Starting", "Backoff"}
  <1> DEFINE all == p \o NewInPipeline(q, p)
             s2  == IF all = << >> THEN MarkIdle(s)
                    ELSE IF NewInPipeline(q, p) # << >> /\ CanSend(s) THEN WriteTo(s) ELSE s
  <1>1. stream' = IF ShouldStart(s2, all) THEN Start(s2) ELSE s2
    BY DEF FillWritePipeline
  <1>2. /\ s2 \in StreamState /\ s2.closes = s.closes /\ s2.state = s.state
        /\ s.state = "Starting" => s2 = s
    <2>1. /\ MarkIdle(s) \in StreamState /\ MarkIdle(s).closes = s.closes
          /\ MarkIdle(s).state = s.state
          /\ s.state = "Starting" => MarkIdle(s) = s
      BY DEF MarkIdle, IsOpen, StreamState
    <2>2. /\ WriteTo(s) \in StreamState /\ WriteTo(s).closes = s.closes
          /\ WriteTo(s).state = s.state
      BY DEF WriteTo, StreamState
    <2>3. CanSend(s) => s.state = "Open"
      BY Zenon DEF CanSend, IsOpen
    <2>4. CASE all = << >>
      BY <2>1, <2>4
    <2>5. CASE all # << >> /\ NewInPipeline(q, p) # << >> /\ CanSend(s)
      <3>1. s2 = WriteTo(s)
        BY <2>5
      <3> HIDE DEF s2
      <3> QED
        BY <2>2, <2>3, <2>5, <3>1
    <2>6. CASE all # << >> /\ ~ (NewInPipeline(q, p) # << >> /\ CanSend(s))
      BY <2>6
    <2> QED
      BY <2>4, <2>5, <2>6
  <1> HIDE DEF all, s2
  <1>3. /\ Start(s2).closes = s2.closes
        /\ Start(s2).state \in {"Starting", "Backoff"}
    BY <1>2 DEF Start, StreamState
  <1> QED
    BY <1>1, <1>2, <1>3 DEF ShouldStart, IsStarted

\* A token asked for before a start is of an earlier one.
LEMMA OldTokens ==
    ASSUME TypeOK, StartInv, NEW c \in Nat, stream.closes <= c,
           c = stream.closes => stream.state # "Starting"
    PROVE  /\ \A r \in asked : r.closes \in Nat /\ r.closes < c
           /\ \A i \in 1 .. Len(main) : main[i].kind = "token" =>
                 main[i].closes \in Nat /\ main[i].closes < c
           /\ \A j \in 1 .. Len(worker) : worker[j].kind = "token" =>
                 worker[j].closes \in Nat /\ worker[j].closes < c
  <1>1. stream.closes \in Nat
    BY DEF TypeOK, StreamState
  <1>2. \A r \in asked : r.closes \in Nat
    BY DEF TypeOK, GetToken
  <1>3. ASSUME NEW i \in 1 .. Len(main), main[i].kind = "token"
        PROVE  main[i].closes \in Nat
    <2>1. main[i] \in Block
      BY DEF TypeOK
    <2> QED
      BY <1>3, <2>1 DEF Block
  <1>4. ASSUME NEW j \in 1 .. Len(worker), worker[j].kind = "token"
        PROVE  worker[j].closes \in Nat
    <2>1. worker[j] \in Task
      BY DEF TypeOK
    <2> QED
      BY <1>4, <2>1 DEF Task
  <1>5. \A r \in asked : r.closes < c
    BY <1>1, <1>2 DEF StartInv, AskedInTime, ForThisStart
  <1>6. ASSUME NEW i \in 1 .. Len(main), main[i].kind = "token"
        PROVE  main[i].closes < c
    BY <1>1, <1>3, <1>6 DEF StartInv, AnsweredInTime, OnMain, ForThisStart
  <1>7. ASSUME NEW j \in 1 .. Len(worker), worker[j].kind = "token"
        PROVE  worker[j].closes < c
    BY <1>1, <1>4, <1>7 DEF StartInv, PassedInTime, OnWorker, ForThisStart
  <1> QED
    BY <1>2, <1>3, <1>4, <1>5, <1>6, <1>7

\* A step that ends an incarnation of the stream, or starts one when none is
\* starting, leaves at most the token it asks for itself.
LEMMA FreshStart ==
    ASSUME TypeOK, StartInv, stream' \in StreamState, stream.closes <= stream'.closes,
           stream'.closes = stream.closes => stream.state # "Starting",
           main' = main,
           worker' = worker \/ (worker # << >> /\ worker' = Tail(worker)),
           \/ asked' = asked
           \/ /\ stream'.state = "Starting"
              /\ \E r \in GetToken : r.closes = stream'.closes /\ asked' = asked \cup {r}
    PROVE  StartInv'
  <1>1. PICK c \in Nat : c = stream'.closes
    BY DEF StreamState
  <1>2. /\ \A r \in asked : r.closes \in Nat /\ r.closes < c
        /\ \A i \in 1 .. Len(main) : main[i].kind = "token" =>
              main[i].closes \in Nat /\ main[i].closes < c
        /\ \A j \in 1 .. Len(worker) : worker[j].kind = "token" =>
              worker[j].closes \in Nat /\ worker[j].closes < c
    BY <1>1, OldTokens
  <1>3. \A j \in 1 .. Len(worker') : worker'[j].kind = "token" =>
           worker'[j].closes \in Nat /\ worker'[j].closes < c
    <2>1. CASE worker' = worker
      BY <1>2, <2>1
    <2>2. CASE worker # << >> /\ worker' = Tail(worker)
      <3>1. PICK w \in Seq(Task) : w = worker
        BY DEF TypeOK
      <3>2. /\ Len(Tail(w)) = Len(w) - 1
            /\ \A j \in 1 .. Len(Tail(w)) : Tail(w)[j] = w[j + 1]
        BY <2>2, <3>1, HeadTailProperties
      <3>3. \A j \in 1 .. Len(Tail(w)) : j + 1 \in 1 .. Len(w)
        BY <3>2
      <3> QED
        BY <1>2, <2>2, <3>1, <3>2, <3>3
    <2> QED
      BY <2>1, <2>2
  <1>4. \A j \in 1 .. Len(worker') : ~ OnWorker(j)'
    BY <1>1, <1>3 DEF OnWorker, ForThisStart
  <1>5. \A i \in 1 .. Len(main') : ~ OnMain(i)'
    BY <1>1, <1>2 DEF OnMain, ForThisStart
  <1>6. \A r \in asked' : r \in asked \/ (r.closes = c /\ stream'.state = "Starting")
    BY <1>1
  <1>7. \A r, s \in asked' : r.closes = c /\ s.closes = c => r = s
    BY <1>1, <1>2
  <1>8. AskedInTime' /\ OneAsked'
    BY <1>1, <1>2, <1>6, <1>7 DEF AskedInTime, OneAsked, ForThisStart
  <1>9. AnsweredInTime' /\ PassedInTime'
    BY <1>1, <1>2, <1>3, <1>4, <1>5 DEF AnsweredInTime, PassedInTime
  <1>10. OneOnMain' /\ OneOnWorker' /\ OnePlace'
    BY <1>4, <1>5 DEF OneOnMain, OneOnWorker, OnePlace
  <1> QED
    BY <1>8, <1>9, <1>10 DEF StartInv

\* A step of the worker that leaves the stream in its state.
LEMMA SameStart ==
    ASSUME TypeOK, StartInv, stream'.closes = stream.closes, stream'.state = stream.state,
           UNCHANGED <<main, asked>>,
           worker' = worker \/ (worker # << >> /\ worker' = Tail(worker))
    PROVE  StartInv'
  <1>1. PICK w \in Seq(Task) : w = worker
    BY DEF TypeOK
  <1>2. CASE worker' = worker
    BY <1>2 DEF StartInv, AskedInTime, AnsweredInTime, PassedInTime, OneAsked, OneOnMain,
                OneOnWorker, OnePlace, OnMain, OnWorker, ForThisStart
  <1>3. CASE worker # << >> /\ worker' = Tail(worker)
    <2>1. /\ Len(Tail(w)) = Len(w) - 1
          /\ \A j \in 1 .. Len(Tail(w)) : j + 1 \in 1 .. Len(w) /\ Tail(w)[j] = w[j + 1]
      BY <1>1, <1>3, HeadTailProperties
    <2>2. \A j \in 1 .. Len(worker') : /\ j + 1 \in 1 .. Len(worker)
                                       /\ worker'[j] = worker[j + 1]
                                       /\ OnWorker(j)' <=> OnWorker(j + 1)
      BY <1>1, <1>3, <2>1 DEF OnWorker, ForThisStart
    <2>3. PassedInTime'
      BY <2>2 DEF StartInv, PassedInTime
    <2>4. OneOnWorker'
      <3>1. \A j, k \in 1 .. Len(worker') : OnWorker(j)' /\ OnWorker(k)' => j + 1 = k + 1
        BY <2>2 DEF StartInv, OneOnWorker
      <3> QED
        BY <3>1 DEF OneOnWorker
    <2>5. OnePlace'
      BY <2>2 DEF StartInv, OnePlace, OnMain, ForThisStart
    <2>6. AskedInTime' /\ AnsweredInTime' /\ OneAsked' /\ OneOnMain'
      BY DEF StartInv, AskedInTime, AnsweredInTime, OneAsked, OneOnMain, OnMain,
             ForThisStart
    <2> QED
      BY <2>3, <2>4, <2>5, <2>6 DEF StartInv
  <1> QED
    BY <1>2, <1>3

\* The network's steps, the timers' and the worker's: each ends an incarnation, asks
\* for the token of a start, or leaves the stream in its state.
LEMMA RestartKeepsStart ==
    ASSUME TypeOK, StartInv, NEW q, RestartNetwork(q), stream' \in StreamState,
           main' = main,
           worker' = worker \/ (worker # << >> /\ worker' = Tail(worker)),
           signedIn \in Owners, tokens \in Nat
    PROVE  StartInv' /\ ~IsOpen(stream')
  <1>1. PICK s \in StreamState : s = InhibitBackoff(Stop(stream))
    BY StreamTypes DEF TypeOK
  <1>2. /\ stream.closes \in Nat /\ s.state = "Initial"
        /\ s.closes = IF IsStarted(stream) THEN stream.closes + 1 ELSE stream.closes
    BY <1>1 DEF InhibitBackoff, Stop, Close, TypeOK, StreamState
  <1>3. FillWritePipeline(q, << >>, s) /\ RequestCredentials(stream')
    BY <1>1 DEF RestartNetwork
  <1>4. stream'.closes = s.closes /\ stream'.state \in {"Initial", "Starting", "Backoff"}
    BY <1>2, <1>3, FillStates DEF IsStarted
  <1>5. \/ asked' = asked
        \/ /\ stream'.state = "Starting"
           /\ \E r \in GetToken : r.closes = stream'.closes /\ asked' = asked \cup {r}
    <2>1. [closes |-> stream'.closes, count |-> tokens, from |-> signedIn] \in GetToken
      BY DEF GetToken, StreamState
    <2> QED
      BY <1>3, <2>1 DEF RequestCredentials
  <1>6. /\ stream.closes <= stream'.closes
        /\ stream'.closes = stream.closes => stream.state # "Starting"
    BY <1>2, <1>4 DEF IsStarted
  <1> QED
    BY <1>4, <1>5, <1>6, FreshStart DEF IsOpen

\* A broken stream starts again from nothing sent.
LEMMA BrokenKeepsStart ==
    ASSUME TypeOK, StartInv, StreamBroken, UNCHANGED <<main, asked>>,
           worker' = worker \/ (worker # << >> /\ worker' = Tail(worker))
    PROVE  StartInv' /\ ~IsOpen(stream')
  <1>1. /\ stream.closes \in Nat /\ stream' \in StreamState
        /\ stream'.closes = stream.closes + 1 /\ stream'.state \in {"Error", "Backoff"}
    <2>1. PICK e \in StreamState : e = Fail(stream)
      BY StreamTypes DEF TypeOK
    <2>2. stream.closes \in Nat /\ e.closes = stream.closes + 1 /\ e.state = "Error"
      BY <2>1 DEF Fail, Close, TypeOK, StreamState
    <2>3. Start(e) \in StreamState /\ Start(e).closes = e.closes /\ Start(e).state = "Backoff"
      BY <2>2, StreamTypes DEF Start, StreamState
    <2> QED
      BY <2>1, <2>2, <2>3 DEF StreamBroken
  <1> QED
    BY <1>1, FreshStart DEF IsOpen

LEMMA AskedOnce ==
    ASSUME TypeOK, stream' \in StreamState, RequestCredentials(stream')
    PROVE  \/ asked' = asked
           \/ /\ stream'.state = "Starting" /\ stream' # stream
              /\ \E r \in GetToken : r.closes = stream'.closes /\ asked' = asked \cup {r}
  <1>1. [closes |-> stream'.closes, count |-> tokens, from |-> signedIn] \in GetToken
    BY DEF GetToken, StreamState, TypeOK
  <1> QED
    BY <1>1 DEF RequestCredentials

LEMMA WorkerKeepsStart ==
    ASSUME QueueInv, QueueInv', StartInv, Tasks \/ TokenFails
    PROVE  StartInv'
  <1>1. /\ worker # << >> /\ worker' = Tail(worker) /\ UNCHANGED <<signedIn, main, tokens>>
    BY DEF Tasks, TokenFails, WriteMutations, HandleCredentialChange, DropToken, OpenStream,
           NextTask, auth
  <1>2. /\ TypeOK /\ stream' \in StreamState /\ stream \in StreamState
        /\ signedIn \in Owners /\ tokens \in Nat /\ stream.closes \in Nat
    BY DEF QueueInv, TypeOK, StreamState
  <1>3. CASE WriteMutations
    <2>1. PICK q, p : FillWritePipeline(q, p, stream)
      BY <1>3 DEF WriteMutations
    <2>2. /\ stream'.closes = stream.closes
          /\ IsStarted(stream) => stream'.state = stream.state
          /\ stream.state = "Starting" => stream' = stream
      BY <1>2, <2>1, FillStates
    <2>3. RequestCredentials(stream')
      BY <1>3 DEF WriteMutations
    <2>4. CASE stream.state = "Starting"
      <3>1. asked' = asked
        BY <2>2, <2>3, <2>4 DEF RequestCredentials
      <3> QED
        BY <1>1, <1>2, <2>2, <2>4, <3>1, SameStart
    <2>5. CASE stream.state # "Starting"
      BY <1>1, <1>2, <2>2, <2>3, <2>5, AskedOnce, FreshStart
    <2> QED
      BY <2>4, <2>5
  <1>4. CASE HandleCredentialChange
    <2>1. RestartNetwork(queue[user'])
      BY <1>4 DEF HandleCredentialChange
    <2> QED
      BY <1>1, <1>2, <2>1, RestartKeepsStart
  <1>5. CASE DropToken
    <2>1. asked' = asked /\ stream' = stream
      BY <1>5 DEF DropToken, auth
    <2> QED
      BY <1>1, <1>2, <2>1, SameStart
  <1>6. CASE OpenStream
    <2>1. /\ asked' = asked /\ Head(worker).kind = "token"
          /\ Head(worker).closes = stream.closes /\ stream' = OnStreamStart(stream)
      BY <1>6 DEF OpenStream, NextTask, auth, Current
    <2>2. stream'.closes = stream.closes /\ stream'.state = "Open"
      BY <1>2, <2>1 DEF OnStreamStart, StreamState
    <2>3. PICK w \in Seq(Task) : w = worker
      BY <1>2 DEF TypeOK
    <2>4. /\ Len(Tail(w)) = Len(w) - 1 /\ Len(w) \in Nat \ {0} /\ w[1] = Head(w)
          /\ \A j \in 1 .. Len(Tail(w)) : j + 1 \in 1 .. Len(w) /\ Tail(w)[j] = w[j + 1]
      BY <1>1, <2>3, HeadTailProperties
    <2>5. 1 \in 1 .. Len(worker) /\ OnWorker(1)
      BY <2>1, <2>3, <2>4 DEF OnWorker, ForThisStart
    <2>6. \A j \in 1 .. Len(worker') : /\ j + 1 \in 1 .. Len(worker) /\ j + 1 # 1
                                       /\ worker'[j] = worker[j + 1]
                                       /\ OnWorker(j)' <=> OnWorker(j + 1)
      BY <1>1, <2>2, <2>3, <2>4 DEF OnWorker, ForThisStart
    <2>7. \A j \in 1 .. Len(worker') : ~ OnWorker(j)'
      BY <2>5, <2>6 DEF StartInv, OneOnWorker
    <2>8. \A i \in 1 .. Len(main') : ~ OnMain(i)' /\ ~ OnMain(i)
      BY <1>1, <2>2, <2>5 DEF StartInv, OnePlace, OnMain, ForThisStart
    <2>9. \A r \in asked' : ~ ForThisStart(r.closes)' /\ ~ ForThisStart(r.closes)
      BY <2>1, <2>2, <2>5 DEF StartInv, OnePlace, ForThisStart
    <2>10. AskedInTime' /\ AnsweredInTime'
      BY <1>1, <2>1, <2>2, <2>8, <2>9 DEF StartInv, AskedInTime, AnsweredInTime
    <2>11. PassedInTime'
      BY <2>2, <2>6, <2>7 DEF StartInv, PassedInTime
    <2>12. OneAsked' /\ OneOnMain' /\ OneOnWorker' /\ OnePlace'
      BY <2>7, <2>8, <2>9 DEF OneAsked, OneOnMain, OneOnWorker, OnePlace
    <2> QED
      BY <2>10, <2>11, <2>12 DEF StartInv
  <1>7. CASE TokenFails
    <2>1. StreamBroken /\ asked' = asked
      BY <1>7 DEF TokenFails, auth
    <2> QED
      BY <1>1, <1>2, <2>1, BrokenKeepsStart
  <1> QED
    BY <1>3, <1>4, <1>5, <1>6, <1>7 DEF Tasks

LEMMA NetworkKeepsStart ==
    ASSUME QueueInv, QueueInv', StartInv,
           \/ Reads \/ Serves \/ RefusalHeard \/ BackoffTimer \/ IdleTimer
           \/ ConnectionLost \/ ConnectivityChanged
    PROVE  StartInv'
  <1>1. /\ TypeOK /\ stream' \in StreamState /\ stream \in StreamState
        /\ signedIn \in Owners /\ tokens \in Nat /\ stream.closes \in Nat
    BY DEF QueueInv, TypeOK, StreamState
  <1>2. UNCHANGED <<signedIn, main, tokens, worker>>
    BY DEF Reads, Serves, RefusalHeard, BackoffTimer, IdleTimer, ConnectionLost,
           ConnectivityChanged, HandshakeComplete, MutationResult, ServerShakes,
           ServerCommits, ServerRefuses, auth
  <1>3. CASE HandshakeComplete
    <2>1. stream'.closes = stream.closes /\ stream'.state = stream.state /\ asked' = asked
      BY <1>1, <1>3 DEF HandshakeComplete, WriteTo, StreamState, auth
    <2> QED
      BY <1>1, <1>2, <2>1, SameStart
  <1>4. CASE MutationResult
    <2>1. IsOpen(stream) /\ asked' = asked /\ \E q, p : FillWritePipeline(q, p, stream)
      BY <1>4 DEF MutationResult, auth
    <2>2. stream'.closes = stream.closes /\ stream'.state = stream.state
      BY <1>1, <2>1, FillStates DEF IsStarted, IsOpen
    <2> QED
      BY <1>1, <1>2, <2>1, <2>2, SameStart
  <1>5. CASE Serves
    <2>1. stream' = stream /\ asked' = asked
      BY <1>5 DEF Serves, ServerShakes, ServerCommits, ServerRefuses, auth
    <2> QED
      BY <1>1, <1>2, <2>1, SameStart
  <1>6. CASE RefusalHeard
    <2>1. PICK s \in StreamState : s = InhibitBackoff(Fail(stream))
      BY <1>1, StreamTypes
    <2>2. s.closes = stream.closes + 1
      BY <1>1, <2>1 DEF InhibitBackoff, Fail, Close, StreamState
    <2>3. \E q, p : FillWritePipeline(q, p, s)
      BY <1>6, <2>1 DEF RefusalHeard, WriteRefused
    <2>4. stream'.closes = stream.closes + 1
      BY <2>2, <2>3, FillStates
    <2>5. RequestCredentials(stream')
      BY <1>6 DEF RefusalHeard
    <2> QED
      BY <1>1, <1>2, <2>4, <2>5, AskedOnce, FreshStart
  <1>7. CASE BackoffTimer
    <2>1. /\ stream.state = "Backoff" /\ stream'.closes = stream.closes
          /\ RequestCredentials(stream')
      BY <1>1, <1>7 DEF BackoffTimer, BackoffElapsed, StreamState
    <2> QED
      BY <1>1, <1>2, <2>1, AskedOnce, FreshStart
  <1>8. CASE IdleTimer
    <2>1. asked' = asked /\ stream' = Stop(stream)
      BY <1>8 DEF IdleTimer, auth
    <2>2. \/ stream'.closes = stream.closes + 1
          \/ stream' = stream
      BY <1>1, <2>1 DEF Stop, Close
    <2> QED
      BY <1>1, <1>2, <2>1, <2>2, FreshStart, SameStart
  <1>9. CASE ConnectionLost
    BY <1>1, <1>2, <1>9, BrokenKeepsStart DEF ConnectionLost, auth
  <1>10. CASE ConnectivityChanged
    BY <1>1, <1>2, <1>10, RestartKeepsStart DEF ConnectivityChanged
  <1> QED
    BY <1>3, <1>4, <1>5, <1>6, <1>7, <1>8, <1>9, <1>10 DEF Reads

\* The steps that hand a token on: from Auth to the main queue, and from there to
\* the worker or back to Auth.
LEMMA AuthAnswersKeepsStart == ASSUME QueueInv, StartInv, AuthAnswers PROVE StartInv'
  <1>1. PICK m \in Seq(Block) : m = main
    BY DEF QueueInv, TypeOK
  <1>2. PICK r \in asked : \E u \in {r.from, signedIn} :
           /\ asked' = asked \ {r}
           /\ main' = Append(main, [kind |-> "token", user |-> u, closes |-> r.closes,
                                    count |-> r.count])
    BY DEF AuthAnswers
  <1>3. r \in GetToken /\ r.from \in Owners /\ r.closes \in Nat /\ r.count \in Nat
    BY DEF QueueInv, TypeOK, GetToken
  <1>4. PICK b \in Block : /\ b.kind = "token" /\ b.closes = r.closes
                           /\ main' = Append(m, b) /\ asked' = asked \ {r}
    <2>1. PICK u \in {r.from, signedIn} :
             /\ asked' = asked \ {r}
             /\ main' = Append(main, [kind |-> "token", user |-> u, closes |-> r.closes,
                                      count |-> r.count])
      BY <1>2
    <2>2. [kind |-> "token", user |-> u, closes |-> r.closes, count |-> r.count] \in Block
      BY <1>3 DEF QueueInv, TypeOK, Block
    <2> QED
      BY <1>1, <2>1, <2>2
  <1>5. /\ Len(main') = Len(m) + 1 /\ \A i \in 1 .. Len(m) : main'[i] = m[i]
        /\ main'[Len(m) + 1] = b
    BY <1>4, AppendProperties
  <1>6. UNCHANGED <<worker, stream>>
    BY DEF AuthAnswers
  <1>7. \A i \in 1 .. Len(m) : OnMain(i)' <=> OnMain(i)
    BY <1>1, <1>5, <1>6 DEF OnMain, ForThisStart
  <1>8. OnMain(Len(m) + 1)' <=> ForThisStart(r.closes)
    BY <1>4, <1>5, <1>6 DEF OnMain, ForThisStart
  <1>9. \A j : OnWorker(j)' <=> OnWorker(j)
    BY <1>6 DEF OnWorker, ForThisStart
  <1>10. \A c : ForThisStart(c)' <=> ForThisStart(c)
    BY <1>6 DEF ForThisStart
  <1>11. AskedInTime' /\ OneAsked'
    BY <1>4, <1>6, <1>10 DEF StartInv, AskedInTime, OneAsked
  <1>12. PassedInTime' /\ OneOnWorker'
    BY <1>6, <1>9 DEF StartInv, PassedInTime, OneOnWorker
  <1>13. AnsweredInTime'
    <2> SUFFICES ASSUME NEW i \in 1 .. Len(m) + 1, main'[i].kind = "token"
                 PROVE  /\ main'[i].closes <= stream.closes
                        /\ OnMain(i)' => stream.state = "Starting"
      BY <1>5, <1>6 DEF AnsweredInTime
    <2>1. CASE i \in 1 .. Len(m)
      BY <1>1, <1>5, <1>7, <2>1 DEF StartInv, AnsweredInTime
    <2>2. CASE i = Len(m) + 1
      BY <1>4, <1>5, <1>8, <2>2 DEF StartInv, AskedInTime
    <2> QED
      BY <2>1, <2>2
  <1>14. \A i \in 1 .. Len(m) : ~ (ForThisStart(r.closes) /\ OnMain(i))
    BY <1>1 DEF StartInv, OnePlace
  <1>15. OneOnMain'
    <2> SUFFICES ASSUME NEW i \in 1 .. Len(m) + 1, NEW k \in 1 .. Len(m) + 1,
                        OnMain(i)', OnMain(k)'
                 PROVE  i = k
      BY <1>5 DEF OneOnMain
    <2>1. CASE i \in 1 .. Len(m) /\ k \in 1 .. Len(m)
      BY <1>1, <1>7, <2>1 DEF StartInv, OneOnMain
    <2>2. CASE ~ (i \in 1 .. Len(m) /\ k \in 1 .. Len(m))
      <3>1. i \in 1 .. Len(m) => k = Len(m) + 1
        BY <2>2
      <3>2. k \in 1 .. Len(m) => i = Len(m) + 1
        BY <2>2
      <3> QED
        BY <1>7, <1>8, <1>14, <3>1, <3>2
    <2> QED
      BY <2>1, <2>2
  <1>16. OnePlace'
    <2>1. ASSUME NEW a \in asked', NEW i \in 1 .. Len(m) + 1
          PROVE  ~ (ForThisStart(a.closes) /\ OnMain(i)')
      <3>1. a \in asked /\ a # r
        BY <1>4
      <3>2. CASE i \in 1 .. Len(m)
        BY <1>1, <1>7, <3>1, <3>2 DEF StartInv, OnePlace
      <3>3. CASE i = Len(m) + 1
        BY <1>8, <3>1, <3>3 DEF StartInv, OneAsked
      <3> QED
        BY <3>2, <3>3
    <2>2. ASSUME NEW i \in 1 .. Len(m) + 1, NEW j \in 1 .. Len(worker)
          PROVE  ~ (OnMain(i)' /\ OnWorker(j))
      <3>1. CASE i \in 1 .. Len(m)
        BY <1>1, <1>7, <3>1 DEF StartInv, OnePlace
      <3>2. CASE i = Len(m) + 1
        BY <1>8, <3>2 DEF StartInv, OnePlace
      <3> QED
        BY <3>1, <3>2
    <2>3. \A a \in asked', j \in 1 .. Len(worker) : ~ (ForThisStart(a.closes) /\ OnWorker(j))
      BY <1>4 DEF StartInv, OnePlace
    <2> QED
      BY <1>5, <1>6, <1>9, <1>10, <2>1, <2>2, <2>3 DEF OnePlace
  <1> QED
    BY <1>11, <1>12, <1>13, <1>15, <1>16 DEF StartInv

\* What joins the worker's queue without being a token changes nothing.
LEMMA TaskKeepsStart ==
    ASSUME QueueInv, NEW t \in Task, t.kind # "token", worker' = Append(worker, t),
           stream' = stream, PassedInTime, OneOnWorker
    PROVE  /\ PassedInTime' /\ OneOnWorker'
           /\ \A j \in 1 .. Len(worker') : OnWorker(j)' => j \in 1 .. Len(worker) /\ OnWorker(j)
  <1>1. PICK w \in Seq(Task) : w = worker
    BY DEF QueueInv, TypeOK
  <1>2. /\ Len(worker') = Len(w) + 1 /\ \A j \in 1 .. Len(w) : worker'[j] = w[j]
        /\ worker'[Len(w) + 1] = t
    BY <1>1, AppendProperties
  <1>3. \A j \in 1 .. Len(worker') : worker'[j].kind = "token" =>
           j \in 1 .. Len(w) /\ worker'[j] = w[j]
    BY <1>2
  <1>4. \A j \in 1 .. Len(worker') : OnWorker(j)' => j \in 1 .. Len(w) /\ OnWorker(j)
    BY <1>1, <1>3 DEF OnWorker, ForThisStart
  <1> QED
    BY <1>1, <1>3, <1>4 DEF PassedInTime, OneOnWorker

\* What leaves the main queue.
LEMMA BlockKeepsStart ==
    ASSUME QueueInv, main # << >>, main' = Tail(main), stream' = stream,
           AnsweredInTime, OneOnMain
    PROVE  /\ AnsweredInTime' /\ OneOnMain'
           /\ \A i \in 1 .. Len(main') : /\ i + 1 \in 1 .. Len(main) /\ i + 1 # 1
                                         /\ OnMain(i)' => OnMain(i + 1)
  <1>1. PICK m \in Seq(Block) : m = main
    BY DEF QueueInv, TypeOK
  <1>2. /\ Len(Tail(m)) = Len(m) - 1
        /\ \A i \in 1 .. Len(Tail(m)) : i + 1 \in 1 .. Len(m) /\ Tail(m)[i] = m[i + 1]
    BY <1>1, HeadTailProperties
  <1>3. \A i \in 1 .. Len(main') : /\ i + 1 \in 1 .. Len(main) /\ i + 1 # 1
                                   /\ main'[i] = main[i + 1]
                                   /\ OnMain(i)' <=> OnMain(i + 1)
    BY <1>1, <1>2 DEF OnMain, ForThisStart
  <1>4. AnsweredInTime'
    BY <1>3 DEF AnsweredInTime
  <1>5. \A i, k \in 1 .. Len(main') : OnMain(i)' /\ OnMain(k)' => i + 1 = k + 1
    BY <1>3 DEF OneOnMain
  <1>6. OneOnMain'
    BY <1>5 DEF OneOnMain
  <1> QED
    BY <1>3, <1>4, <1>6

LEMMA TokenArrivesKeepsStart == ASSUME QueueInv, StartInv, TokenArrives PROVE StartInv'
  <1>1. /\ main # << >> /\ main' = Tail(main) /\ Head(main).kind = "token"
        /\ Head(main).user \in Owners /\ Head(main).closes \in Nat
        /\ UNCHANGED <<stream, tokens, signedIn>>
    BY BlockTypes DEF QueueInv, TokenArrives, NextBlock
  <1>2. /\ AnsweredInTime' /\ OneOnMain'
        /\ \A i \in 1 .. Len(main') : /\ i + 1 \in 1 .. Len(main) /\ i + 1 # 1
                                      /\ OnMain(i)' => OnMain(i + 1)
    BY <1>1, BlockKeepsStart DEF StartInv
  <1>3. PICK b : b = Head(main)
    OBVIOUS
  <1>4. 1 \in 1 .. Len(main) /\ main[1] = b /\ (OnMain(1) <=> ForThisStart(b.closes))
    <2>1. PICK m \in Seq(Block) : m = main
      BY DEF QueueInv, TypeOK
    <2>2. 1 \in 1 .. Len(m) /\ m[1] = Head(m)
      BY <1>1, <2>1
    <2> QED
      BY <1>1, <1>3, <2>1, <2>2 DEF OnMain
  <1>5. /\ b.closes <= stream.closes
        /\ ForThisStart(b.closes) =>
              /\ stream.state = "Starting"
              /\ \A r \in asked : ~ ForThisStart(r.closes)
              /\ \A j \in 1 .. Len(worker) : ~ OnWorker(j)
              /\ \A i \in 1 .. Len(main') : ~ OnMain(i)'
    <2>1. b.closes <= stream.closes /\ (ForThisStart(b.closes) => stream.state = "Starting")
      BY <1>1, <1>3, <1>4 DEF StartInv, AnsweredInTime
    <2>2. ForThisStart(b.closes) => /\ \A r \in asked : ~ ForThisStart(r.closes)
                                    /\ \A j \in 1 .. Len(worker) : ~ OnWorker(j)
      BY <1>4 DEF StartInv, OnePlace
    <2>3. ForThisStart(b.closes) => \A i \in 1 .. Len(main') : ~ OnMain(i)'
      BY <1>2, <1>4 DEF StartInv, OneOnMain
    <2> QED
      BY <2>1, <2>2, <2>3
  <1>6. \A c : ForThisStart(c)' <=> ForThisStart(c)
    BY <1>1 DEF ForThisStart
  <1>7. CASE TokenFresh(b)
    <2>1. PICK w \in Seq(Task) : w = worker
      BY DEF QueueInv, TypeOK
    <2>2. PICK t \in Task : t = [kind |-> "token", user |-> b.user, closes |-> b.closes]
      BY <1>1, <1>3 DEF Task
    <2>3. worker' = Append(w, t) /\ asked' = asked /\ t.kind = "token" /\ t.closes = b.closes
      BY <1>3, <1>7, <2>1, <2>2 DEF TokenArrives
    <2>4. /\ Len(worker') = Len(w) + 1 /\ \A j \in 1 .. Len(w) : worker'[j] = w[j]
          /\ worker'[Len(w) + 1] = t
      BY <2>3, AppendProperties
    <2>5. \A j \in 1 .. Len(w) : OnWorker(j)' <=> OnWorker(j)
      BY <1>1, <2>1, <2>4 DEF OnWorker, ForThisStart
    <2>6. OnWorker(Len(w) + 1)' <=> ForThisStart(b.closes)
      BY <1>1, <2>3, <2>4 DEF OnWorker, ForThisStart
    <2>7. AskedInTime' /\ OneAsked'
      BY <1>1, <1>6, <2>3 DEF StartInv, AskedInTime, OneAsked
    <2>8. PassedInTime'
      <3> SUFFICES ASSUME NEW j \in 1 .. Len(w) + 1, worker'[j].kind = "token"
                   PROVE  /\ worker'[j].closes <= stream.closes
                          /\ OnWorker(j)' => stream.state = "Starting"
        BY <1>1, <2>4 DEF PassedInTime
      <3>1. CASE j \in 1 .. Len(w)
        BY <2>1, <2>4, <2>5, <3>1 DEF StartInv, PassedInTime
      <3>2. CASE j = Len(w) + 1
        BY <1>5, <2>3, <2>4, <2>6, <3>2
      <3> QED
        BY <3>1, <3>2
    <2>9. \A j \in 1 .. Len(w) + 1 : OnWorker(j)' /\ ForThisStart(b.closes) => j = Len(w) + 1
      BY <1>5, <2>1, <2>5
    <2>10. \A j \in 1 .. Len(w) + 1 : OnWorker(j)' /\ ~ ForThisStart(b.closes) =>
              j \in 1 .. Len(w) /\ OnWorker(j)
      BY <2>5, <2>6
    <2>11. OneOnWorker'
      BY <2>1, <2>4, <2>9, <2>10 DEF StartInv, OneOnWorker
    <2>12. OnePlace'
      <3>1. CASE ForThisStart(b.closes)
        BY <1>5, <1>6, <2>3, <3>1 DEF OnePlace
      <3>2. CASE ~ ForThisStart(b.closes)
        BY <1>2, <1>6, <2>1, <2>3, <2>4, <2>10, <3>2 DEF StartInv, OnePlace
      <3> QED
        BY <3>1, <3>2
    <2> QED
      BY <1>2, <2>7, <2>8, <2>11, <2>12 DEF StartInv
  <1>8. CASE ~ TokenFresh(b)
    <2>1. PICK r : /\ r = [closes |-> b.closes, from |-> signedIn, count |-> tokens]
                   /\ asked' = asked \cup {r} /\ worker' = worker
      BY <1>3, <1>8 DEF TokenArrives
    <2>2. \A j : OnWorker(j)' <=> OnWorker(j)
      BY <1>1, <2>1 DEF OnWorker, ForThisStart
    <2>3. PassedInTime' /\ OneOnWorker'
      BY <1>1, <2>1, <2>2 DEF StartInv, PassedInTime, OneOnWorker
    <2>4. \A a \in asked' : a \in asked \/ (a = r /\ a.closes = b.closes)
      BY <2>1
    <2>5. AskedInTime'
      BY <1>1, <1>5, <1>6, <2>4 DEF StartInv, AskedInTime
    <2>6. OneAsked'
      BY <1>5, <1>6, <2>4 DEF StartInv, OneAsked
    <2>7. OnePlace'
      <3>1. CASE ForThisStart(b.closes)
        BY <1>5, <1>6, <2>1, <2>2, <3>1 DEF OnePlace
      <3>2. CASE ~ ForThisStart(b.closes)
        BY <1>2, <1>6, <2>1, <2>2, <2>4, <3>2 DEF StartInv, OnePlace
      <3> QED
        BY <3>1, <3>2
    <2> QED
      BY <1>2, <2>3, <2>5, <2>6, <2>7 DEF StartInv
  <1> QED
    BY <1>7, <1>8

LEMMA OthersKeepStart ==
    ASSUME QueueInv, StartInv, CredentialsChange \/ AuthChanges \/ AppWrites \/ Relaunch
    PROVE  StartInv'
  <1>1. CASE CredentialsChange
    <2>1. /\ main # << >> /\ main' = Tail(main) /\ Head(main).kind = "user"
          /\ Head(main) \in Task /\ worker' = Append(worker, Head(main))
          /\ UNCHANGED <<stream, asked>>
      BY <1>1, BlockTypes DEF QueueInv, CredentialsChange, NextBlock
    <2>2. /\ AnsweredInTime' /\ OneOnMain'
          /\ \A i \in 1 .. Len(main') : /\ i + 1 \in 1 .. Len(main)
                                        /\ OnMain(i)' => OnMain(i + 1)
      BY <2>1, BlockKeepsStart DEF StartInv
    <2>3. PICK t \in Task : t = Head(main) /\ t.kind # "token"
      BY <2>1
    <2>4. /\ PassedInTime' /\ OneOnWorker'
          /\ \A j \in 1 .. Len(worker') : OnWorker(j)' => j \in 1 .. Len(worker) /\ OnWorker(j)
      BY <2>1, <2>3, TaskKeepsStart DEF StartInv
    <2>5. AskedInTime' /\ OneAsked'
      BY <2>1 DEF StartInv, AskedInTime, OneAsked, ForThisStart
    <2>6. \A c : ForThisStart(c)' <=> ForThisStart(c)
      BY <2>1 DEF ForThisStart
    <2>7. OnePlace'
      BY <2>1, <2>2, <2>4, <2>6 DEF StartInv, OnePlace
    <2> QED
      BY <2>2, <2>4, <2>5, <2>7 DEF StartInv
  <1>2. CASE AppWrites
    <2>0. nextWrite \in Writes
      BY <1>2 DEF QueueInv, TypeOK, AppWrites, Writes
    <2>1. PICK t \in Task : t = [kind |-> "write", write |-> nextWrite]
      BY <2>0 DEF Task
    <2>2. /\ worker' = Append(worker, t) /\ t.kind # "token"
          /\ UNCHANGED <<stream, asked, main>>
      BY <1>2, <2>1 DEF AppWrites, auth
    <2>3. /\ PassedInTime' /\ OneOnWorker'
          /\ \A j \in 1 .. Len(worker') : OnWorker(j)' => j \in 1 .. Len(worker) /\ OnWorker(j)
      BY <2>2, TaskKeepsStart DEF StartInv
    <2>4. AskedInTime' /\ OneAsked' /\ AnsweredInTime' /\ OneOnMain'
      BY <2>2 DEF StartInv, AskedInTime, OneAsked, AnsweredInTime, OneOnMain, OnMain,
                  ForThisStart
    <2>5. /\ \A c : ForThisStart(c)' <=> ForThisStart(c)
          /\ \A i : OnMain(i)' <=> OnMain(i)
      BY <2>2 DEF ForThisStart, OnMain
    <2>6. OnePlace'
      BY <2>2, <2>3, <2>5 DEF StartInv, OnePlace
    <2> QED
      BY <2>3, <2>4, <2>6 DEF StartInv
  <1>3. CASE AuthChanges
    <2>1. PICK m \in Seq(Block) : m = main
      BY DEF QueueInv, TypeOK
    <2>2. PICK b \in Block : b = [kind |-> "user", user |-> signedIn']
      BY <1>3 DEF AuthChanges, Block
    <2>3. main' = Append(m, b) /\ UNCHANGED <<stream, asked, worker>>
      BY <1>3, <2>1, <2>2 DEF AuthChanges
    <2>4. /\ Len(main') = Len(m) + 1 /\ \A i \in 1 .. Len(m) : main'[i] = m[i]
          /\ main'[Len(m) + 1] = b
      BY <2>3, AppendProperties
    <2>5. \A i \in 1 .. Len(main') : main'[i].kind = "token" =>
             /\ i \in 1 .. Len(main) /\ main'[i] = main[i]
             /\ OnMain(i)' <=> OnMain(i)
      BY <2>1, <2>2, <2>3, <2>4 DEF OnMain, ForThisStart
    <2>6. \A i \in 1 .. Len(main') : OnMain(i)' => i \in 1 .. Len(main) /\ OnMain(i)
      BY <2>5 DEF OnMain
    <2>7. /\ \A c : ForThisStart(c)' <=> ForThisStart(c)
          /\ \A j : OnWorker(j)' <=> OnWorker(j)
      BY <2>3 DEF ForThisStart, OnWorker
    <2>8. AnsweredInTime' /\ OneOnMain'
      BY <2>3, <2>5, <2>6 DEF StartInv, AnsweredInTime, OneOnMain
    <2>9. AskedInTime' /\ OneAsked' /\ PassedInTime' /\ OneOnWorker'
      BY <2>3, <2>7 DEF StartInv, AskedInTime, OneAsked, PassedInTime, OneOnWorker
    <2>10. OnePlace'
      BY <2>3, <2>6, <2>7 DEF StartInv, OnePlace
    <2> QED
      BY <2>8, <2>9, <2>10 DEF StartInv
  <1>4. CASE Relaunch
    <2>1. Len(main') = 0 /\ Len(worker') = 0
      BY <1>4 DEF Relaunch
    <2>2. /\ \A r \in asked' : r = [closes |-> 0, count |-> 0, from |-> signedIn]
          /\ asked' # {} => stream'.closes = 0 /\ stream'.state = "Starting"
      <3>1. Start(NewStream).closes = 0 /\ Start(NewStream).state = "Starting"
        BY DEF Start, NewStream
      <3> QED
        BY <1>4, <3>1 DEF Relaunch
    <2>3. AskedInTime' /\ OneAsked'
      BY <2>2 DEF AskedInTime, OneAsked
    <2>4. AnsweredInTime' /\ PassedInTime' /\ OneOnMain' /\ OneOnWorker' /\ OnePlace'
      BY <2>1 DEF AnsweredInTime, PassedInTime, OneOnMain, OneOnWorker, OnePlace
    <2> QED
      BY <2>3, <2>4 DEF StartInv
  <1> QED
    BY <1>1, <1>2, <1>3, <1>4

LEMMA StartNext == QueueInv /\ QueueInv' /\ StartInv /\ [Next]_vars => StartInv'
  <1> SUFFICES ASSUME QueueInv, QueueInv', StartInv, [Next]_vars PROVE StartInv'
    OBVIOUS
  <1>1. CASE UNCHANGED vars
    <2>1. UNCHANGED <<main, worker, asked, stream>>
      BY <1>1 DEF vars, auth
    <2> QED
      BY <2>1, SameStart DEF QueueInv
  <1>2. CASE Tasks \/ TokenFails
    BY <1>2, WorkerKeepsStart
  <1>3. CASE \/ Reads \/ Serves \/ RefusalHeard \/ BackoffTimer \/ IdleTimer
             \/ ConnectionLost \/ ConnectivityChanged
    BY <1>3, NetworkKeepsStart
  <1>4. CASE Blocks \/ AuthAnswers \/ AuthChanges \/ AppWrites \/ Relaunch
    BY <1>4, AuthAnswersKeepsStart, TokenArrivesKeepsStart, OthersKeepStart DEF Blocks
  <1> QED
    BY <1>1, <1>2, <1>3, <1>4 DEF Next, Faults

(***************************************************************************)
(* Answers and the pipeline                                                *)
(***************************************************************************)

LEMMA ConcatHead ==
    ASSUME NEW S, NEW a \in Seq(S), NEW b \in Seq(S), a # << >>
    PROVE  a \o b # << >> /\ Head(a \o b) = Head(a) /\ Tail(a \o b) = Tail(a) \o b
  <1>1. /\ a \o b \in Seq(S) /\ Len(a \o b) = Len(a) + Len(b)
        /\ \A i \in 1 .. Len(a) + Len(b) :
              (a \o b)[i] = IF i <= Len(a) THEN a[i] ELSE b[i - Len(a)]
    BY ConcatProperties
  <1>2. a \o b # << >> /\ Head(a \o b) = Head(a)
    BY <1>1
  <1>3. /\ Tail(a) \in Seq(S) /\ Len(Tail(a)) = Len(a) - 1
        /\ \A i \in 1 .. Len(Tail(a)) : Tail(a)[i] = a[i + 1]
    BY HeadTailProperties
  <1>4. /\ Tail(a \o b) \in Seq(S) /\ Len(Tail(a \o b)) = Len(a) + Len(b) - 1
        /\ \A i \in 1 .. Len(Tail(a \o b)) : Tail(a \o b)[i] = (a \o b)[i + 1]
    BY <1>1, <1>2, HeadTailProperties
  <1>5. /\ Tail(a) \o b \in Seq(S) /\ Len(Tail(a) \o b) = Len(a) - 1 + Len(b)
        /\ \A i \in 1 .. Len(a) - 1 + Len(b) :
              (Tail(a) \o b)[i] = IF i <= Len(a) - 1 THEN Tail(a)[i] ELSE b[i - (Len(a) - 1)]
    BY <1>3, ConcatProperties
  <1>6. \A i \in 1 .. Len(Tail(a \o b)) : Tail(a \o b)[i] = (Tail(a) \o b)[i]
    BY <1>1, <1>3, <1>4, <1>5
  <1> QED
    BY <1>2, <1>4, <1>5, <1>6, SeqEqual

LEMMA MoveHead ==
    ASSUME NEW S, NEW a \in Seq(S), NEW s \in Seq(S), s # << >>
    PROVE  Append(a, Head(s)) \o Tail(s) = a \o s
  <1>1. /\ Head(s) \in S /\ Tail(s) \in Seq(S) /\ Len(Tail(s)) = Len(s) - 1
        /\ \A i \in 1 .. Len(Tail(s)) : Tail(s)[i] = s[i + 1]
        /\ Head(s) = s[1]
    BY HeadTailProperties
  <1>2. << Head(s) >> \in Seq(S) /\ Append(a, Head(s)) = a \o << Head(s) >>
    BY <1>1, AppendIsConcat
  <1>3. (a \o << Head(s) >>) \o Tail(s) = a \o (<< Head(s) >> \o Tail(s))
    BY <1>1, <1>2, ConcatAssociative
  <1>4. << Head(s) >> \o Tail(s) = s
    <2>1. /\ << Head(s) >> \o Tail(s) \in Seq(S)
          /\ Len(<< Head(s) >> \o Tail(s)) = 1 + Len(Tail(s))
          /\ \A i \in 1 .. 1 + Len(Tail(s)) : (<< Head(s) >> \o Tail(s))[i] =
                IF i <= 1 THEN << Head(s) >>[i] ELSE Tail(s)[i - 1]
      <3>1. Len(<< Head(s) >>) = 1
        OBVIOUS
      <3> QED
        BY <1>1, <1>2, <3>1, ConcatProperties
    <2>2. ASSUME NEW i \in 1 .. Len(s)
          PROVE  (<< Head(s) >> \o Tail(s))[i] = s[i]
      <3>1. CASE i = 1
        BY <1>1, <2>1, <3>1
      <3>2. CASE i # 1
        <4>1. i - 1 \in 1 .. Len(Tail(s)) /\ Tail(s)[i - 1] = s[i]
          BY <1>1, <3>2
        <4> QED
          BY <1>1, <2>1, <3>2, <4>1
      <3> QED
        BY <3>1, <3>2
    <2> QED
      BY <1>1, <2>1, <2>2, SeqEqual
  <1> QED
    BY <1>2, <1>3, <1>4

LEMMA StrictPointwise ==
    ASSUME NEW S, NEW p \in Seq(S), NEW q \in Seq(S)
    PROVE  IsStrictPrefix(p, q) <=> /\ Len(p) < Len(q)
                                    /\ \A i \in 1 .. Len(p) : p[i] = q[i]
  <1>1. IsPrefix(p, q) <=> /\ Len(p) <= Len(q)
                           /\ \A i \in 1 .. Len(p) : p[i] = q[i]
    BY PrefixPointwise
  <1>2. ASSUME IsPrefix(p, q), Len(p) = Len(q) PROVE p = q
    BY <1>1, <1>2, SeqEqual
  <1> QED
    BY <1>1, <1>2 DEF IsStrictPrefix

LEMMA StrictTail ==
    ASSUME NEW S, NEW p \in Seq(S), NEW q \in Seq(S), IsStrictPrefix(p, q), p # << >>
    PROVE  q # << >> /\ Head(p) = Head(q) /\ IsStrictPrefix(Tail(p), Tail(q))
  <1>1. Len(p) < Len(q) /\ \A i \in 1 .. Len(p) : p[i] = q[i]
    BY StrictPointwise
  <1>2. q # << >> /\ Head(p) = Head(q)
    BY <1>1
  <1>3. Tail(p) \in Seq(S) /\ Tail(q) \in Seq(S)
    BY <1>2
  <1>4. Len(Tail(p)) < Len(Tail(q)) /\ \A i \in 1 .. Len(Tail(p)) : Tail(p)[i] = Tail(q)[i]
    BY <1>1, <1>2, HeadTailProperties
  <1> QED
    BY <1>2, <1>3, <1>4, StrictPointwise

LEMMA StrictConcat ==
    ASSUME NEW S, NEW p \in Seq(S), NEW q \in Seq(S), NEW b \in Seq(S)
    PROVE  /\ IsStrictPrefix(p, q) => IsStrictPrefix(p, q \o b)
           /\ b # << >> => IsStrictPrefix(q, q \o b)
  <1>1. /\ q \o b \in Seq(S) /\ Len(q \o b) = Len(q) + Len(b)
        /\ \A i \in 1 .. Len(q) : (q \o b)[i] = q[i]
    BY ConcatProperties
  <1>2. IsStrictPrefix(p, q) => IsStrictPrefix(p, q \o b)
    <2> SUFFICES ASSUME IsStrictPrefix(p, q) PROVE IsStrictPrefix(p, q \o b)
      OBVIOUS
    <2>1. Len(p) < Len(q) /\ \A i \in 1 .. Len(p) : p[i] = q[i]
      BY StrictPointwise
    <2>2. Len(p) < Len(q \o b) /\ \A i \in 1 .. Len(p) : p[i] = (q \o b)[i]
      BY <1>1, <2>1
    <2> QED
      BY <1>1, <2>2, StrictPointwise
  <1>3. b # << >> => IsStrictPrefix(q, q \o b)
    <2>1. b # << >> => Len(q) < Len(q \o b)
      BY <1>1
    <2> QED
      BY <1>1, <2>1, StrictPointwise
  <1> QED
    BY <1>2, <1>3

\* Of one message on the stream, the server has answered all or nothing.
LEMMA OneMessage ==
    ASSUME NEW S, NEW a \in Seq(S), NEW s \in Seq(S), NEW e, a \o s = << e >>
    PROVE  \/ a = << e >> /\ s = << >>
           \/ a = << >> /\ s = << e >>
  <1>1. /\ Len(a \o s) = Len(a) + Len(s)
        /\ \A i \in 1 .. Len(a) + Len(s) : (a \o s)[i] =
              IF i <= Len(a) THEN a[i] ELSE s[i - Len(a)]
    BY ConcatProperties
  <1>2. Len(a) + Len(s) = 1 /\ (a \o s)[1] = e
    BY <1>1
  <1>3. CASE Len(a) = 0
    <2>0. a = << >>
      BY <1>3
    <2>1. a = << >> /\ << >> \o s = s
      BY <2>0, ConcatEmptySeq
    <2> QED
      BY <2>1
  <1>4. CASE Len(a) # 0
    <2>0. s = << >>
      BY <1>2, <1>4
    <2>1. s = << >> /\ a \o << >> = a
      BY <2>0, ConcatEmptySeq
    <2> QED
      BY <2>1
  <1> QED
    BY <1>3, <1>4

\* A queue that is not empty gives an empty pipeline something to send.
LEMMA NewNotEmpty ==
    ASSUME NEW q \in Seq(Batch), Ascending(q), q # << >>
    PROVE  NewInPipeline(q, << >>) # << >>
  <1>1. IsPrefix(<< >>, q) /\ << >> \in Seq(Batch) /\ Len(<< >>) = 0
    <2>1. << >> \in Seq(Batch) /\ Len(<< >>) = 0
      OBVIOUS
    <2> QED
      BY <2>1, EmptyIsPrefix
  <1>2. NextMutationBatchAfter(q, LastRetrieved(<< >>)) = 1
    <2>1. PICK p \in Seq(Batch) : p = << >>
      BY <1>1
    <2>2. NextMutationBatchAfter(q, LastRetrieved(p)) = Len(p) + 1
      BY <1>1, <2>1, NextAfterPipeline
    <2> QED
      BY <1>1, <2>1, <2>2
  <1>3. PICK end \in Nat : /\ end = IF Len(q) < 1 + (MaxPending - 0) - 1 THEN Len(q)
                                     ELSE 1 + (MaxPending - 0) - 1
                           /\ end >= 1 /\ end <= Len(q)
    OBVIOUS
  <1>4. NewInPipeline(q, << >>) = SubSeq(q, 1, end)
    BY <1>1, <1>2, <1>3 DEF NewInPipeline
  <1>5. Len(SubSeq(q, 1, end)) = end
    BY <1>3
  <1> QED
    BY <1>3, <1>4, <1>5

AnswerInv == AnswersMatchPipeline /\ IdleInv

LEMMA FillOpen ==
    ASSUME NEW q, NEW p, NEW s \in StreamState, FillWritePipeline(q, p, s)
    PROVE  IsOpen(stream') <=> IsOpen(s)
  BY FillStates DEF IsOpen, IsStarted

\* Only a stream that is open is marked idle, and only with nothing to send; what
\* is sent ends it.
LEMMA FillIdle ==
    ASSUME NEW q, NEW p, NEW s \in StreamState, FillWritePipeline(q, p, s), stream'.idle
    PROVE  \/ pipeline' = << >> /\ (s.idle \/ IsOpen(s))
           \/ s.idle /\ ~ (NewInPipeline(q, p) # << >> /\ CanSend(s))
  <1> DEFINE new == NewInPipeline(q, p)
             s2  == IF p \o new = << >> THEN MarkIdle(s)
                    ELSE IF new # << >> /\ CanSend(s) THEN WriteTo(s) ELSE s
  <1>1. /\ pipeline' = p \o new
        /\ stream' = IF ShouldStart(s2, p \o new) THEN Start(s2) ELSE s2
    BY DEF FillWritePipeline
  <1>2. s2 \in StreamState
    BY StreamTypes
  <1>3. s2.idle
    <2> HIDE DEF s2
    <2>1. Start(s2).idle = s2.idle
      BY <1>2 DEF Start, StreamState
    <2> QED
      BY <1>1, <2>1
  <1>4. CASE p \o new = << >>
    <2>1. MarkIdle(s).idle = (s.idle \/ IsOpen(s))
      BY DEF MarkIdle, StreamState
    <2>2. s2 = MarkIdle(s)
      BY <1>4
    <2> HIDE DEF s2
    <2> QED
      BY <1>1, <1>3, <1>4, <2>1, <2>2
  <1>5. CASE p \o new # << >> /\ new # << >> /\ CanSend(s)
    <2>1. WriteTo(s).idle = FALSE
      BY DEF WriteTo, StreamState
    <2>2. s2 = WriteTo(s)
      BY <1>5
    <2> HIDE DEF s2
    <2> QED
      BY <1>3, <2>1, <2>2
  <1>6. CASE p \o new # << >> /\ ~ (new # << >> /\ CanSend(s))
    <2>1. s2 = s
      BY <1>6
    <2> HIDE DEF s2
    <2> QED
      BY <1>3, <1>6, <2>1
  <1> QED
    BY <1>4, <1>5, <1>6

\* Nothing is on the way on a stream that is gone.
LEMMA GoneKeepsAnswers ==
    ASSUME StreamGone, ~ IsOpen(stream'), ~ stream'.idle
    PROVE  AnswerInv'
  <1>1. sent' = << >> /\ answers' = << >> /\ refused' = None /\ shaken' = FALSE
    BY DEF StreamGone
  <1>2. << >> \o << >> = << >>
    OBVIOUS
  <1>3. answers' \o sent' = << >>
    BY <1>1, <1>2
  <1>4. AnswersMatchPipeline'
    BY <1>1, <1>3 DEF AnswersMatchPipeline
  <1>5. IdleInv'
    BY DEF IdleInv
  <1> QED
    BY <1>4, <1>5 DEF AnswerInv

LEMMA RestartKeepsAnswers ==
    ASSUME TypeOK, AnswerInv, NEW q, RestartNetwork(q)
    PROVE  AnswerInv'
  <1>1. PICK s \in StreamState : s = InhibitBackoff(Stop(stream))
    BY StreamTypes DEF TypeOK
  <1>2. ~ IsOpen(s) /\ ~ s.idle
    <2>1. stream.idle => IsStarted(stream)
      BY DEF AnswerInv, IdleInv, AnswersMatchPipeline, IsOpen, IsStarted
    <2>2. ~ Stop(stream).idle
      BY <2>1 DEF Stop, Close
    <2>3. Stop(stream) \in StreamState
      BY StreamTypes DEF TypeOK
    <2> QED
      BY <1>1, <2>2, <2>3 DEF InhibitBackoff, IsOpen, StreamState
  <1>3. FillWritePipeline(q, << >>, s) /\ StreamGone
    BY <1>1 DEF RestartNetwork
  <1>4. ~ IsOpen(stream') /\ ~ stream'.idle
    BY <1>2, <1>3, FillOpen, FillIdle
  <1> QED
    BY <1>3, <1>4, GoneKeepsAnswers

LEMMA BrokenKeepsAnswers ==
    ASSUME TypeOK, StreamBroken
    PROVE  AnswerInv'
  <1>1. PICK e \in StreamState : e = Fail(stream)
    BY StreamTypes DEF TypeOK
  <1>2. e.state = "Error" /\ ~ e.idle
    BY <1>1 DEF Fail, Close
  <1>3. Start(e).state = "Backoff" /\ ~ Start(e).idle
    BY <1>2 DEF Start, StreamState
  <1>4. ~ IsOpen(stream') /\ ~ stream'.idle
    BY <1>1, <1>2, <1>3 DEF StreamBroken, IsOpen
  <1> QED
    BY <1>4, GoneKeepsAnswers DEF StreamBroken

\* A write joins queue, pipeline and, after the handshake, stream alike.
LEMMA WriteKeepsAnswers ==
    ASSUME QueueInv, AnswerInv, WriteMutations
    PROVE  AnswerInv'
  <1>1. /\ user \in Owners /\ queue \in [Owners -> Seq(Batch)] /\ nextBatch \in Nat \ {0}
        /\ pipeline \in Seq(Batch) /\ stream \in StreamState /\ shaken \in BOOLEAN
        /\ sent \in Seq(Message) /\ answers \in Seq(Message)
    BY DEF QueueInv, TypeOK
  <1>2. PICK w \in Writes : w = Head(worker).write
    BY TaskTypes DEF QueueInv, WriteMutations
  <1>3. PICK batch \in Batch : batch = [id |-> nextBatch, write |-> w]
    BY <1>1 DEF Batch
  <1>4. PICK q : q = Append(queue[user], batch)
    OBVIOUS
  <1>5. q \in Seq(Batch) /\ Ascending(q) /\ q # << >> /\ IsPrefix(pipeline, q)
    <2>1. queue[user] \in Seq(Batch) /\ Ascending(queue[user])
      BY <1>1 DEF QueueInv, QueuesAscend
    <2>2. \A k \in DOMAIN queue[user] : queue[user][k].id < batch.id
      BY <1>1, <1>3 DEF QueueInv, QueuesAscend
    <2>3. q \in Seq(Batch) /\ Ascending(q)
      BY <1>4, <2>1, <2>2, AppendAscends
    <2>4. Len(q) = Len(queue[user]) + 1
      BY <1>4, <2>1, AppendProperties
    <2>5. IsPrefix(pipeline, q)
      BY <1>1, <1>4, <2>1, PrefixAppend DEF QueueInv, PipelineIsQueueFront
    <2> QED
      BY <2>1, <2>3, <2>4, <2>5
  <1>6. PICK new : new = NewInPipeline(q, pipeline)
    OBVIOUS
  <1>7. /\ FillWritePipeline(q, pipeline, stream)
        /\ sent' = IF CanSend(stream) THEN sent \o new ELSE sent
        /\ UNCHANGED <<shaken, answers, refused>>
    BY <1>2, <1>3, <1>4, <1>6 DEF WriteMutations
  <1>8. pipeline' = pipeline \o new /\ new \in Seq(Batch)
    <2>1. Len(pipeline) <= MaxPending
      BY DEF QueueInv, PipelineIsQueueFront
    <2> QED
      BY <1>1, <1>5, <1>6, <1>7, <2>1, FillTypes
  <1>9. new \in Seq(Message) /\ pipeline \in Seq(Message)
    BY <1>1, <1>8, SeqMonotonic DEF Message
  <1>10. IsOpen(stream') <=> IsOpen(stream)
    BY <1>1, <1>7, FillOpen
  <1>11. AnswersMatchPipeline'
    <2>1. CASE shaken
      <3>1. IsOpen(stream) /\ sent' = sent \o new
        <4>1. IsOpen(stream)
          BY <2>1 DEF AnswerInv, AnswersMatchPipeline
        <4>2. CanSend(stream)
          BY <2>1, <4>1, Zenon DEF CanSend
        <4> QED
          BY <1>7, <4>1, <4>2
      <3>2. refused = None => answers \o sent' = pipeline'
        <4>1. refused = None => answers \o sent = pipeline
          BY <2>1 DEF AnswerInv, AnswersMatchPipeline
        <4>2. (answers \o sent) \o new = answers \o (sent \o new)
          BY <1>1, <1>9, ConcatAssociative
        <4> QED
          BY <1>8, <3>1, <4>1, <4>2
      <3>3. refused # None => IsStrictPrefix(answers, pipeline')
        BY <1>1, <1>8, <1>9, <2>1, StrictConcat DEF AnswerInv, AnswersMatchPipeline
      <3> QED
        BY <1>7, <1>10, <2>1, <3>1, <3>2, <3>3 DEF AnswersMatchPipeline
    <2>2. CASE ~ shaken
      <3>1. sent' = sent
        BY <1>7, <2>2, Zenon DEF CanSend
      <3> QED
        BY <1>7, <1>10, <2>2, <3>1 DEF AnswerInv, AnswersMatchPipeline
    <2> QED
      BY <2>1, <2>2
  <1>12. IdleInv'
    <2> SUFFICES ASSUME stream'.idle PROVE FALSE
      BY DEF IdleInv
    <2>1. pipeline' # << >>
      <3>1. CASE pipeline = << >>
        BY <1>5, <1>6, <1>8, <3>1, NewNotEmpty, ConcatEqualIffEmpty
      <3>2. CASE pipeline # << >>
        BY <1>1, <1>8, <3>2, ConcatEqualIffEmpty
      <3> QED
        BY <3>1, <3>2
    <2>2. stream.idle /\ ~ (new # << >> /\ CanSend(stream))
      BY <1>1, <1>6, <1>7, <2>1, FillIdle
    <2>3. shaken /\ pipeline = << >> /\ IsOpen(stream)
      BY <2>2 DEF AnswerInv, IdleInv, AnswersMatchPipeline
    <2>4. new # << >>
      BY <1>5, <1>6, <2>3, NewNotEmpty
    <2>5. CanSend(stream)
      BY <2>3, Zenon DEF CanSend
    <2> QED
      BY <2>2, <2>4, <2>5
  <1> QED
    BY <1>11, <1>12 DEF AnswerInv

\* The handshake's answer is all that is on the stream before it; then the whole
\* pipeline is.
LEMMA HandshakeKeepsAnswers ==
    ASSUME QueueInv, AnswerInv, HandshakeComplete
    PROVE  AnswerInv'
  <1>1. /\ pipeline \in Seq(Batch) /\ stream \in StreamState
        /\ sent \in Seq(Message) /\ answers \in Seq(Message)
    BY DEF QueueInv, TypeOK
  <1>2. IsOpen(stream) /\ ~ shaken /\ answers # << >>
    BY DEF HandshakeComplete
  <1>3. answers \o sent = << Shake >> /\ refused = None
    BY <1>2 DEF AnswerInv, AnswersMatchPipeline
  <1>4. answers = << Shake >> /\ sent = << >>
    BY <1>1, <1>2, <1>3, OneMessage
  <1>5. answers' = << >> /\ sent' = << >> \o pipeline /\ pipeline' = pipeline
        /\ refused' = refused
    BY <1>4 DEF HandshakeComplete
  <1>6. answers' \o sent' = pipeline'
    BY <1>1, <1>5, ConcatEmptySeq
  <1>7. shaken' = TRUE
    BY DEF HandshakeComplete
  <1>8. ~ stream.idle
    BY <1>2 DEF AnswerInv, IdleInv
  <1>9. IsOpen(stream') /\ ~ stream'.idle
    BY <1>1, <1>2, <1>8 DEF HandshakeComplete, WriteTo, IsOpen, StreamState
  <1>10. AnswersMatchPipeline'
    BY <1>3, <1>5, <1>6, <1>7, <1>9 DEF AnswersMatchPipeline
  <1>11. IdleInv'
    BY <1>9 DEF IdleInv
  <1> QED
    BY <1>10, <1>11 DEF AnswerInv

\* An answer and the front of the pipeline leave together.
LEMMA ResultKeepsAnswers ==
    ASSUME QueueInv, AnswerInv, MutationResult
    PROVE  AnswerInv'
  <1>1. /\ pipeline \in Seq(Batch) /\ stream \in StreamState
        /\ sent \in Seq(Message) /\ answers \in Seq(Message)
        /\ answers # << >> /\ pipeline # << >> /\ shaken /\ IsOpen(stream)
    BY DEF QueueInv, TypeOK, MutationResult
  <1>2. BatchAnswered(Head(pipeline).id, TRUE)
    BY DEF MutationResult
  <1>3. PICK q \in Seq(Batch) : q = queue'[user]
    BY <1>1, <1>2, AnsweredTypes DEF QueueInv, TypeOK
  <1>4. PICK p \in Seq(Batch) : p = Tail(pipeline)
    BY <1>1, <1>2, AnsweredTypes
  <1>5. Ascending(q) /\ IsPrefix(p, q) /\ Len(p) <= MaxPending
    BY <1>1, <1>2, <1>3, <1>4, AnsweredTypes DEF QueueInv, TypeOK
  <1>6. PICK new : new = NewInPipeline(q, p)
    OBVIOUS
  <1>7. /\ FillWritePipeline(q, p, stream) /\ sent' = sent \o new
        /\ answers' = Tail(answers) /\ shaken' = shaken /\ refused' = refused
    BY <1>3, <1>4, <1>6 DEF MutationResult
  <1>8. pipeline' = p \o new /\ new \in Seq(Batch)
    BY <1>1, <1>5, <1>6, <1>7, FillTypes DEF QueueInv, TypeOK
  <1>9. new \in Seq(Message) /\ pipeline \in Seq(Message) /\ p \in Seq(Message)
        /\ Tail(answers) \in Seq(Message)
    BY <1>1, <1>8, SeqMonotonic DEF Message
  <1>10. IsOpen(stream')
    BY <1>1, <1>7, FillOpen
  <1>11. refused = None => answers' \o sent' = pipeline'
    <2> SUFFICES ASSUME refused = None PROVE Tail(answers) \o (sent \o new) = p \o new
      BY <1>7, <1>8
    <2>1. answers \o sent = pipeline
      BY <1>1 DEF AnswerInv, AnswersMatchPipeline
    <2>2. p = Tail(answers) \o sent
      BY <1>1, <1>4, <2>1, ConcatHead
    <2>3. (Tail(answers) \o sent) \o new = Tail(answers) \o (sent \o new)
      <3>1. PICK rest \in Seq(Message) : rest = Tail(answers)
        BY <1>9
      <3>2. (rest \o sent) \o new = rest \o (sent \o new)
        BY <1>1, <1>9, ConcatAssociative
      <3> QED
        BY <3>1, <3>2
    <2> QED
      BY <2>2, <2>3
  <1>12. refused # None => IsStrictPrefix(answers', pipeline')
    <2> SUFFICES ASSUME refused # None PROVE IsStrictPrefix(Tail(answers), p \o new)
      BY <1>7, <1>8
    <2>1. IsStrictPrefix(answers, pipeline)
      BY <1>1 DEF AnswerInv, AnswersMatchPipeline
    <2>2. IsStrictPrefix(Tail(answers), p)
      BY <1>1, <1>4, <1>9, <2>1, StrictTail
    <2> QED
      BY <1>9, <2>2, StrictConcat
  <1>13. AnswersMatchPipeline'
    BY <1>1, <1>7, <1>10, <1>11, <1>12 DEF AnswersMatchPipeline
  <1>14. IdleInv'
    <2> SUFFICES ASSUME stream'.idle PROVE pipeline' = << >>
      BY <1>1, <1>7 DEF IdleInv
    <2>1. ~ stream.idle
      BY <1>1 DEF AnswerInv, IdleInv
    <2> QED
      BY <1>1, <1>7, <2>1, FillIdle
  <1> QED
    BY <1>13, <1>14 DEF AnswerInv

LEMMA RefusalKeepsAnswers ==
    ASSUME TypeOK, RefusalHeard
    PROVE  AnswerInv'
  <1>1. PICK s \in StreamState : s = InhibitBackoff(Fail(stream))
    BY StreamTypes DEF TypeOK
  <1>2. ~ IsOpen(s) /\ ~ s.idle
    <2>1. PICK e \in StreamState : e = Fail(stream) /\ ~ e.idle
      BY StreamTypes DEF TypeOK, Fail, Close
    <2> QED
      BY <1>1, <2>1 DEF InhibitBackoff, IsOpen, StreamState
  <1>3. StreamGone /\ \E q, p : FillWritePipeline(q, p, s)
    BY <1>1 DEF RefusalHeard, WriteRefused
  <1>4. ~ IsOpen(stream') /\ ~ stream'.idle
    BY <1>2, <1>3, FillOpen, FillIdle
  <1> QED
    BY <1>3, <1>4, GoneKeepsAnswers

\* The server answers in order, and what it refuses it leaves unanswered.
LEMMA ServesKeepAnswers ==
    ASSUME QueueInv, AnswerInv, Serves
    PROVE  AnswerInv'
  <1>1. /\ sent \in Seq(Message) /\ answers \in Seq(Message) /\ sent # << >>
        /\ refused = None /\ pipeline' = pipeline /\ stream' = stream /\ shaken' = shaken
        /\ pipeline \in Seq(Batch)
    BY DEF QueueInv, TypeOK, Serves, ServerShakes, ServerCommits, ServerRefuses
  <1>2. IdleInv'
    BY <1>1 DEF AnswerInv, IdleInv
  <1>3. CASE ServerShakes \/ ServerCommits
    <2>1. /\ sent' = Tail(sent) /\ answers' = Append(answers, Head(sent))
          /\ refused' = refused
      BY <1>3 DEF ServerShakes, ServerCommits
    <2>2. answers' \o sent' = answers \o sent
      BY <1>1, <2>1, MoveHead
    <2>3. AnswersMatchPipeline'
      BY <1>1, <2>1, <2>2 DEF AnswerInv, AnswersMatchPipeline
    <2> QED
      BY <1>2, <2>3 DEF AnswerInv
  <1>4. CASE ServerRefuses
    <2>1. /\ Head(sent) # Shake /\ refused' = Head(sent).write /\ answers' = answers
      BY <1>4 DEF ServerRefuses
    <2>2. refused' # None
      <3>1. Head(sent) \in Batch
        BY <1>1, <2>1 DEF Message
      <3> QED
        BY <2>1, <3>1, BatchId DEF Writes, None
    <2>3. shaken
      <3> SUFFICES ASSUME ~ shaken PROVE FALSE
        OBVIOUS
      <3>1. answers \o sent = << Shake >> \/ answers \o sent = << >>
        BY DEF AnswerInv, AnswersMatchPipeline
      <3>2. answers \o sent # << >>
        BY <1>1, ConcatEqualIffEmpty
      <3>3. sent = << Shake >>
        BY <1>1, <3>1, <3>2, OneMessage
      <3> QED
        BY <2>1, <3>3
    <2>4. IsOpen(stream) /\ answers \o sent = pipeline
      BY <1>1, <2>3 DEF AnswerInv, AnswersMatchPipeline
    <2>5. IsStrictPrefix(answers, pipeline)
      BY <1>1, <2>4, StrictConcat
    <2>6. AnswersMatchPipeline'
      BY <1>1, <2>1, <2>2, <2>3, <2>4, <2>5 DEF AnswersMatchPipeline
    <2> QED
      BY <1>2, <2>6 DEF AnswerInv
  <1> QED
    BY <1>3, <1>4 DEF Serves

\* A stream that opens was not open before, so nothing was on its way.
LEMMA OpenKeepsAnswers ==
    ASSUME QueueInv, StartInv, AnswerInv, OpenStream
    PROVE  AnswerInv'
  <1>1. /\ sent \in Seq(Message) /\ answers \in Seq(Message) /\ stream \in StreamState
        /\ worker \in Seq(Task)
    BY DEF QueueInv, TypeOK
  <1>2. stream.state = "Starting"
    <2>1. 1 \in 1 .. Len(worker) /\ worker[1] = Head(worker)
      BY <1>1 DEF OpenStream, NextTask
    <2>2. OnWorker(1)
      BY <2>1 DEF OpenStream, NextTask, Current, OnWorker, ForThisStart
    <2> QED
      BY <2>1, <2>2 DEF StartInv, PassedInTime, OnWorker
  <1>3. ~ shaken /\ ~ stream.idle /\ refused = None /\ answers \o sent = << >>
    BY <1>2 DEF AnswerInv, AnswersMatchPipeline, IdleInv, IsOpen
  <1>4. answers = << >>
    BY <1>1, <1>3, ConcatEqualIffEmpty
  <1>5. /\ sent' = << Shake >> /\ answers' = << >>
        /\ stream' = OnStreamStart(stream) /\ refused' = refused /\ shaken' = shaken
    BY <1>4 DEF OpenStream
  <1>6. answers' \o sent' = << Shake >>
    <2>1. << Shake >> \in Seq(Message)
      BY DEF Message
    <2>2. << >> \o << Shake >> = << Shake >>
      BY <2>1, ConcatEmptySeq
    <2> QED
      BY <1>5, <2>2
  <1>7. IsOpen(stream') /\ ~ stream'.idle
    BY <1>1, <1>3, <1>5 DEF OnStreamStart, IsOpen, StreamState
  <1>8. AnswersMatchPipeline'
    BY <1>3, <1>5, <1>6, <1>7 DEF AnswersMatchPipeline
  <1>9. IdleInv'
    BY <1>7 DEF IdleInv
  <1> QED
    BY <1>8, <1>9 DEF AnswerInv

LEMMA RelaunchKeepsAnswers == ASSUME Relaunch PROVE AnswerInv'
  <1>1. StreamGone /\ (stream' = Start(NewStream) \/ stream' = NewStream)
    BY DEF Relaunch
  <1>2. /\ Start(NewStream).state = "Starting" /\ ~ Start(NewStream).idle
        /\ NewStream.state = "Initial" /\ ~ NewStream.idle
    BY DEF Start, NewStream
  <1>3. ~ IsOpen(stream') /\ ~ stream'.idle
    BY <1>1, <1>2 DEF IsOpen
  <1> QED
    BY <1>1, <1>3, GoneKeepsAnswers

LEMMA AnswerNext == QueueInv /\ StartInv /\ AnswerInv /\ [Next]_vars => AnswerInv'
  <1> SUFFICES ASSUME QueueInv, StartInv, AnswerInv, [Next]_vars PROVE AnswerInv'
    OBVIOUS
  <1>0. TypeOK
    BY DEF QueueInv
  <1>1. CASE UNCHANGED <<pipeline, stream, shaken, sent, answers, refused>>
    BY <1>1 DEF AnswerInv, AnswersMatchPipeline, IdleInv
  <1>2. CASE WriteMutations \/ OpenStream \/ HandshakeComplete \/ MutationResult \/ Serves
    BY <1>2, WriteKeepsAnswers, OpenKeepsAnswers, HandshakeKeepsAnswers,
       ResultKeepsAnswers, ServesKeepAnswers
  <1>3. CASE HandleCredentialChange \/ ConnectivityChanged
    BY <1>0, <1>3, RestartKeepsAnswers DEF HandleCredentialChange, ConnectivityChanged
  <1>4. CASE ConnectionLost \/ TokenFails
    BY <1>0, <1>4, BrokenKeepsAnswers DEF ConnectionLost, TokenFails
  <1>5. CASE RefusalHeard \/ Relaunch
    BY <1>0, <1>5, RefusalKeepsAnswers, RelaunchKeepsAnswers
  <1>6. CASE BackoffTimer
    <2>1. stream \in StreamState /\ stream.state = "Backoff"
      BY <1>0, <1>6 DEF TypeOK, BackoffTimer
    <2>2. ~ shaken /\ ~ stream.idle /\ refused = None /\ answers \o sent = << >>
      BY <2>1 DEF AnswerInv, AnswersMatchPipeline, IdleInv, IsOpen
    <2>3. ~ IsOpen(stream') /\ ~ stream'.idle
      BY <1>6, <2>1, <2>2 DEF BackoffTimer, BackoffElapsed, IsOpen, StreamState
    <2>4. UNCHANGED <<shaken, sent, answers, refused>>
      BY <1>6 DEF BackoffTimer, network
    <2>5. AnswersMatchPipeline'
      BY <2>2, <2>3, <2>4 DEF AnswersMatchPipeline
    <2> QED
      BY <2>3, <2>5 DEF AnswerInv, IdleInv
  <1>7. CASE IdleTimer
    <2>1. stream.idle /\ stream' = Stop(stream) /\ StreamGone
      BY <1>7 DEF IdleTimer
    <2>2. IsStarted(stream)
      BY <2>1 DEF AnswerInv, AnswersMatchPipeline, IdleInv, IsOpen, IsStarted
    <2>3. ~ IsOpen(stream') /\ ~ stream'.idle
      BY <2>1, <2>2 DEF Stop, Close, IsOpen
    <2> QED
      BY <2>1, <2>3, GoneKeepsAnswers
  <1>8. CASE DropToken \/ Blocks \/ AuthAnswers \/ AppWrites \/ AuthChanges \/ UNCHANGED vars
    <2>1. UNCHANGED <<pipeline, stream, shaken, sent, answers, refused>>
      BY <1>8 DEF DropToken, Blocks, CredentialsChange, TokenArrives, AuthAnswers, AppWrites,
                  AuthChanges, network, vars
    <2> QED
      BY <1>1, <2>1
  <1> QED
    BY <1>2, <1>3, <1>4, <1>5, <1>6, <1>7, <1>8 DEF Next, Tasks, Reads, Faults

PipeInv == QueueInv /\ StartInv /\ AnswerInv

LEMMA PipeInvariant == Spec => []PipeInv
  <1>1. Init => PipeInv
    <2> SUFFICES ASSUME Init PROVE PipeInv
      OBVIOUS
    <2>1. QueueInv
      BY QueueInit
    <2>2. Len(main) = 0 /\ Len(worker) = 0 /\ asked = {}
      BY DEF Init
    <2>3. StartInv
      BY <2>2 DEF StartInv, AskedInTime, AnsweredInTime, PassedInTime, OneAsked, OneOnMain,
                  OneOnWorker, OnePlace
    <2>4. ~ IsOpen(stream) /\ ~ stream.idle /\ shaken = FALSE /\ refused = None
      BY DEF Init, NewStream, IsOpen
    <2>5. answers \o sent = << >>
      <3>1. << >> \o << >> = << >>
        OBVIOUS
      <3> QED
        BY <3>1 DEF Init
    <2>6. AnswerInv
      BY <2>4, <2>5 DEF AnswerInv, AnswersMatchPipeline, IdleInv
    <2> QED
      BY <2>1, <2>3, <2>6 DEF PipeInv
  <1>2. PipeInv /\ [Next]_vars => PipeInv'
    BY QueueNext, StartNext, AnswerNext DEF PipeInv
  <1> QED
    BY <1>1, <1>2, PTL DEF Spec

\* What is on its way to the server and back is the pipeline in its order, or the
\* part of it before what the server refused; on a stream that is not open nothing is.
THEOREM AnswersMatch == Spec => []AnswersMatchPipeline
  <1>1. PipeInv => AnswersMatchPipeline
    BY DEF PipeInv, AnswerInv
  <1> QED
    BY <1>1, PipeInvariant, PTL

\* The assertions of stream.cc:129, remote_store.cc:437 and 456 and local_store.cc:237,
\* which would end the app, hold where they are reached.
THEOREM NoAssertionFails == Spec => []AssertionsHold
  <1>1. ASSUME PipeInv PROVE AssertionsHold
    <2>1. /\ pipeline \in Seq(Batch) /\ queue[user] \in Seq(Batch) /\ worker \in Seq(Task)
          /\ answers \in Seq(Message) /\ sent \in Seq(Message)
      BY <1>1 DEF PipeInv, QueueInv, TypeOK
    <2>2. ASSUME NextTask("token"), Current(Head(worker)) PROVE stream.state = "Starting"
      <3>1. 1 \in 1 .. Len(worker) /\ worker[1] = Head(worker)
        BY <2>1, <2>2 DEF NextTask
      <3>2. OnWorker(1)
        BY <2>2, <3>1 DEF NextTask, Current, OnWorker, ForThisStart
      <3> QED
        BY <1>1, <3>1, <3>2 DEF PipeInv, StartInv, PassedInTime, OnWorker
    <2>3. ASSUME stream.idle PROVE IsOpen(stream) /\ pipeline = << >>
      BY <1>1, <2>3 DEF PipeInv, AnswerInv, IdleInv, AnswersMatchPipeline
    <2>4. ASSUME shaken, answers # << >> \/ refused # None
          PROVE  pipeline # << >> /\ Head(pipeline) \in Range(queue[user])
      <3>1. IF refused = None THEN answers \o sent = pipeline
            ELSE IsStrictPrefix(answers, pipeline)
        BY <1>1, <2>4 DEF PipeInv, AnswerInv, AnswersMatchPipeline
      <3>2. pipeline # << >>
        <4>1. CASE refused = None
          BY <2>1, <2>4, <3>1, <4>1, ConcatEqualIffEmpty
        <4>2. CASE refused # None
          <5>1. pipeline \in Seq(Message)
            BY <2>1, SeqMonotonic DEF Message
          <5>2. Len(answers) < Len(pipeline)
            BY <2>1, <3>1, <4>2, <5>1, StrictPointwise
          <5> QED
            BY <2>1, <5>2
        <4> QED
          BY <4>1, <4>2
      <3>3. IsPrefix(pipeline, queue[user])
        BY <1>1 DEF PipeInv, QueueInv, PipelineIsQueueFront
      <3>4. queue[user] # << >> /\ Head(pipeline) = Head(queue[user])
        BY <2>1, <3>2, <3>3, PrefixTail
      <3>5. 1 \in 1 .. Len(queue[user]) /\ Head(queue[user]) = queue[user][1]
        BY <2>1, <3>4
      <3> QED
        BY <2>1, <3>2, <3>4, <3>5, InRange
    <2> QED
      BY <2>2, <2>3, <2>4 DEF AssertionsHold
  <1>2. PipeInv => AssertionsHold
    BY <1>1
  <1> QED
    BY <1>2, PipeInvariant, PTL

(***************************************************************************)
(* What completion blocks are told                                         *)
(***************************************************************************)

\* An answer is given after the write was applied.
LEMMA AnswersCommittedNext ==
    QueueInv /\ AnswersCommitted /\ [Next]_vars => AnswersCommitted'
  <1> SUFFICES ASSUME QueueInv, AnswersCommitted, [Next]_vars PROVE AnswersCommitted'
    OBVIOUS
  <1>1. answers \in Seq(Message) /\ sent \in Seq(Message)
    BY DEF QueueInv, TypeOK
  <1>2. CASE answers' = << >>
    BY <1>2 DEF AnswersCommitted
  <1>3. CASE answers' = answers /\ committed' = committed
    BY <1>3 DEF AnswersCommitted
  <1>4. CASE answers # << >> /\ answers' = Tail(answers) /\ committed' = committed
    <2>1. \A k \in 1 .. Len(answers') : /\ k + 1 \in 1 .. Len(answers)
                                        /\ answers'[k] = answers[k + 1]
      BY <1>1, <1>4, HeadTailProperties
    <2> QED
      BY <1>4, <2>1 DEF AnswersCommitted
  <1>5. CASE Serves
    <2>1. Head(sent) \in Message
      BY <1>1, <1>5 DEF Serves, ServerShakes, ServerCommits, ServerRefuses
    <2>2. CASE ServerRefuses
      BY <1>3, <2>2 DEF ServerRefuses, history
    <2>3. CASE ServerShakes \/ ServerCommits
      <3>1. /\ answers' = Append(answers, Head(sent))
            /\ committed \subseteq committed'
            /\ Head(sent) # Shake => Head(sent).write \in committed'
        BY <2>3 DEF ServerShakes, ServerCommits, history
      <3>2. /\ Len(answers') = Len(answers) + 1
            /\ \A k \in 1 .. Len(answers) : answers'[k] = answers[k]
            /\ answers'[Len(answers) + 1] = Head(sent)
        BY <1>1, <2>1, <3>1, AppendProperties
      <3>3. \A k \in 1 .. Len(answers') : k \in 1 .. Len(answers) \/ k = Len(answers) + 1
        BY <1>1, <3>2
      <3> QED
        BY <3>1, <3>2, <3>3 DEF AnswersCommitted
    <2> QED
      BY <1>5, <2>2, <2>3 DEF Serves
  <1>6. \/ answers' = << >>
        \/ answers' = answers /\ committed' = committed
        \/ answers # << >> /\ answers' = Tail(answers) /\ committed' = committed
        \/ Serves
    BY DEF Next, Tasks, Reads, Blocks, Faults, WriteMutations, HandleCredentialChange,
           DropToken, OpenStream, HandshakeComplete, MutationResult, RefusalHeard,
           WriteRefused, BackoffTimer, IdleTimer, CredentialsChange, TokenArrives,
           AuthAnswers, AppWrites, AuthChanges, ConnectionLost, TokenFails, StreamBroken,
           StreamGone, RestartNetwork, ConnectivityChanged, Relaunch, vars, history, network
  <1> QED
    BY <1>2, <1>3, <1>4, <1>5, <1>6

\* The block found under the id of the front of the pipeline is that of its write.
LEMMA FrontsBlock ==
    ASSUME QueueInv, BlocksWaitForTheirWrite, pipeline # << >>,
           Head(pipeline).id \in DOMAIN callbacks[user]
    PROVE  callbacks[user][Head(pipeline).id] = Head(pipeline).write
  <1>1. /\ pipeline \in Seq(Batch) /\ user \in Owners /\ queue[user] \in Seq(Batch)
    BY DEF QueueInv, TypeOK
  <1>2. PICK q \in Seq(Batch) : q = queue[user]
    BY <1>1
  <1>3. IsPrefix(pipeline, q) /\ Ascending(q)
    BY <1>1, <1>2 DEF QueueInv, PipelineIsQueueFront, QueuesAscend
  <1>4. q # << >> /\ Head(pipeline) = Head(q)
    BY <1>1, <1>3, PrefixTail
  <1>5. PICK id : id = Head(pipeline).id
    OBVIOUS
  <1>6. PICK k \in 1 .. Len(q) : [id |-> id, write |-> callbacks[user][id]] = q[k]
    BY <1>1, <1>2, <1>5, InRange DEF BlocksWaitForTheirWrite
  <1>7. q[k].id = id /\ q[k].write = callbacks[user][id]
    <2>1. /\ [id |-> id, write |-> callbacks[user][id]].id = id
          /\ [id |-> id, write |-> callbacks[user][id]].write = callbacks[user][id]
      OBVIOUS
    <2> QED
      BY <1>6, <2>1
  <1>8. k = 1
    <2>1. 1 \in 1 .. Len(q) /\ q[1].id = id /\ q[1].id \in Nat
      BY <1>4, <1>5, BatchId
    <2> QED
      BY <1>3, <1>6, <1>7, <2>1 DEF Ascending
  <1> QED
    BY <1>4, <1>5, <1>7, <1>8

LEMMA SuccessNext ==
    /\ PipeInv /\ BlocksWaitForTheirWrite /\ AnswersCommitted
    /\ SuccessMeansCommitted /\ [Next]_vars
    => SuccessMeansCommitted'
  <1> SUFFICES ASSUME PipeInv, BlocksWaitForTheirWrite, AnswersCommitted,
                      SuccessMeansCommitted, [Next]_vars
               PROVE  SuccessMeansCommitted'
    OBVIOUS
  <1>1. CASE told' = told /\ committed \subseteq committed'
    BY <1>1 DEF SuccessMeansCommitted
  <1>2. CASE MutationResult
    <2>1. /\ answers \in Seq(Message) /\ pipeline \in Seq(Batch) /\ sent \in Seq(Message)
          /\ answers # << >> /\ pipeline # << >> /\ shaken /\ committed' = committed
      BY <1>2 DEF PipeInv, QueueInv, TypeOK, MutationResult
    <2>2. pipeline \in Seq(Message)
      BY <2>1, SeqMonotonic DEF Message
    <2>3. Head(answers) = Head(pipeline)
      <3>1. IF refused = None THEN answers \o sent = pipeline
            ELSE IsStrictPrefix(answers, pipeline)
        BY <2>1 DEF PipeInv, AnswerInv, AnswersMatchPipeline
      <3>2. CASE refused = None
        <4>1. Head(answers \o sent) = Head(answers)
          BY <2>1, ConcatHead
        <4> QED
          BY <3>1, <3>2, <4>1
      <3>3. CASE refused # None
        BY <2>1, <2>2, <3>1, <3>3, StrictTail
      <3> QED
        BY <3>2, <3>3
    <2>4. Head(pipeline).write \in committed
      <3>1. 1 \in 1 .. Len(answers) /\ answers[1] = Head(answers)
        BY <2>1
      <3>2. Head(pipeline) \in Batch
        BY <2>1
      <3>3. Head(pipeline) # Shake
        BY <3>2, BatchId DEF Shake, None
      <3> QED
        BY <2>3, <3>1, <3>3 DEF AnswersCommitted
    <2>5. PICK id : id = Head(pipeline).id
      OBVIOUS
    <2>6. told' = IF id \in DOMAIN callbacks[user]
                  THEN told \cup {[write |-> callbacks[user][id], ok |-> TRUE]} ELSE told
      BY <1>2, <2>5 DEF MutationResult, BatchAnswered, NotifyUser
    <2>7. id \in DOMAIN callbacks[user] => callbacks[user][id] \in committed
      BY <2>1, <2>4, <2>5, FrontsBlock DEF PipeInv
    <2> QED
      BY <2>1, <2>6, <2>7 DEF SuccessMeansCommitted
  <1>3. CASE RefusalHeard
    <2>1. PICK id : told' = IF id \in DOMAIN callbacks[user]
                            THEN told \cup {[write |-> callbacks[user][id], ok |-> FALSE]}
                            ELSE told
      BY <1>3 DEF RefusalHeard, WriteRefused, BatchAnswered, NotifyUser
    <2>2. committed' = committed
      BY <1>3 DEF RefusalHeard
    <2> QED
      BY <2>1, <2>2 DEF SuccessMeansCommitted
  <1>4. \/ MutationResult \/ RefusalHeard
        \/ told' = told /\ committed \subseteq committed'
    BY DEF Next, Tasks, Reads, Serves, Blocks, Faults, WriteMutations,
           HandleCredentialChange, DropToken, OpenStream, HandshakeComplete, BackoffTimer,
           IdleTimer, ServerShakes, ServerCommits, ServerRefuses, CredentialsChange,
           TokenArrives, AuthAnswers, AppWrites, AuthChanges, ConnectionLost, TokenFails,
           ConnectivityChanged, Relaunch, vars, history
  <1> QED
    BY <1>1, <1>2, <1>3, <1>4

\* No completion block is told of a success the server does not know of, over
\* restarts of the stream and of the app, changes of user and reuse of ids.
THEOREM SuccessIsCommitted == Spec => []SuccessMeansCommitted
  <1>1. Init => AnswersCommitted /\ SuccessMeansCommitted
    BY DEF Init, AnswersCommitted, SuccessMeansCommitted
  <1>2. Spec => []BlocksWaitForTheirWrite
    BY BlocksFindTheirWrite
  <1>3. PipeInv => QueueInv
    BY DEF PipeInv
  <1> QED
    BY <1>1, <1>2, <1>3, PipeInvariant, AnswersCommittedNext, SuccessNext, PTL DEF Spec

(***************************************************************************)
(* Every write is in one place                                             *)
(***************************************************************************)

IsWrite(j) == worker[j].kind = "write"

\* A write waits for the worker once, is in one queue once, or has left; and a write
\* the app has not made is nowhere.
WaitsOnce ==
    /\ \A j \in 1 .. Len(worker) : IsWrite(j) => worker[j].write < nextWrite
    /\ \A i, j \in 1 .. Len(worker) :
          IsWrite(i) /\ IsWrite(j) /\ worker[i].write = worker[j].write => i = j
StoredOnce ==
    /\ \A o \in Owners : \A k \in 1 .. Len(queue[o]) : queue[o][k].write < nextWrite
    /\ \A o, p \in Owners : \A k \in 1 .. Len(queue[o]) : \A l \in 1 .. Len(queue[p]) :
          queue[o][k].write = queue[p][l].write => o = p /\ k = l
WaitsOrStored ==
    \A j \in 1 .. Len(worker) : IsWrite(j) =>
        \A o \in Owners : \A k \in 1 .. Len(queue[o]) : queue[o][k].write # worker[j].write
ToldIsGone ==
    \A t \in told :
        /\ t.write < nextWrite
        /\ \A j \in 1 .. Len(worker) : IsWrite(j) => worker[j].write # t.write
        /\ \A o \in Owners : \A k \in 1 .. Len(queue[o]) : queue[o][k].write # t.write

OnceInv == WaitsOnce /\ StoredOnce /\ WaitsOrStored /\ ToldIsGone /\ ToldOnce

\* A step of the worker's queue that adds no write and takes none to disk.
LEMMA QuietOnce ==
    ASSUME TypeOK, OnceInv, UNCHANGED <<queue, nextWrite, told>>,
           \/ worker' = worker
           \/ worker' = << >>
           \/ worker # << >> /\ worker' = Tail(worker)
           \/ \E t \in Task : t.kind # "write" /\ worker' = Append(worker, t)
    PROVE  OnceInv'
  <1>1. PICK w \in Seq(Task) : w = worker
    BY DEF TypeOK
  <1>2. \E d \in Nat : \A j \in 1 .. Len(worker') :
           worker'[j].kind = "write" => j + d \in 1 .. Len(worker) /\ worker'[j] = worker[j + d]
    <2>1. CASE worker' = worker
      <3>1. \A j \in 1 .. Len(worker') : j + 0 \in 1 .. Len(worker) /\ worker'[j] = worker[j + 0]
        BY <1>1, <2>1
      <3> QED
        BY <3>1
    <2>2. CASE worker' = << >>
      <3>1. Len(worker') = 0
        BY <2>2
      <3> QED
        BY <3>1
    <2>3. CASE worker # << >> /\ worker' = Tail(worker)
      <3>1. \A j \in 1 .. Len(worker') : j + 1 \in 1 .. Len(worker) /\ worker'[j] = worker[j + 1]
        BY <1>1, <2>3, HeadTailProperties
      <3> QED
        BY <3>1
    <2>4. ASSUME NEW t \in Task, t.kind # "write", worker' = Append(worker, t)
          PROVE  \A j \in 1 .. Len(worker') : worker'[j].kind = "write" =>
                    j + 0 \in 1 .. Len(worker) /\ worker'[j] = worker[j + 0]
      <3>1. /\ Len(Append(w, t)) = Len(w) + 1 /\ Len(w) \in Nat
            /\ \A j \in 1 .. Len(w) : Append(w, t)[j] = w[j]
            /\ Append(w, t)[Len(w) + 1] = t
        BY AppendProperties
      <3> QED
        BY <1>1, <2>4, <3>1
    <2> QED
      BY <2>1, <2>2, <2>3, <2>4
  <1>3. PICK d \in Nat : \A j \in 1 .. Len(worker') :
           worker'[j].kind = "write" => j + d \in 1 .. Len(worker) /\ worker'[j] = worker[j + d]
    BY <1>2
  <1>4. WaitsOnce'
    <2>1. \A j \in 1 .. Len(worker') : worker'[j].kind = "write" => worker'[j].write < nextWrite
      BY <1>3 DEF OnceInv, WaitsOnce, IsWrite
    <2>2. ASSUME NEW i \in 1 .. Len(worker'), NEW j \in 1 .. Len(worker'),
                 worker'[i].kind = "write", worker'[j].kind = "write",
                 worker'[i].write = worker'[j].write
          PROVE  i = j
      <3>1. i + d = j + d
        BY <1>3, <2>2 DEF OnceInv, WaitsOnce, IsWrite
      <3> QED
        BY <3>1
    <2> QED
      BY <2>1, <2>2 DEF WaitsOnce, IsWrite
  <1>5. WaitsOrStored'
    <2> SUFFICES ASSUME NEW j \in 1 .. Len(worker'), worker'[j].kind = "write",
                        NEW o \in Owners, NEW k \in 1 .. Len(queue[o])
                 PROVE  queue[o][k].write # worker'[j].write
      BY DEF WaitsOrStored, IsWrite
    <2>1. j + d \in 1 .. Len(worker) /\ worker'[j] = worker[j + d]
      BY <1>3
    <2> QED
      BY <2>1 DEF OnceInv, WaitsOrStored, IsWrite
  <1>6. ToldIsGone'
    <2>1. ASSUME NEW t \in told, NEW j \in 1 .. Len(worker'), worker'[j].kind = "write"
          PROVE  worker'[j].write # t.write
      <3>1. j + d \in 1 .. Len(worker) /\ worker'[j] = worker[j + d]
        BY <1>3, <2>1
      <3> QED
        BY <2>1, <3>1 DEF OnceInv, ToldIsGone, IsWrite
    <2> QED
      BY <2>1 DEF OnceInv, ToldIsGone, IsWrite
  <1>7. StoredOnce' /\ ToldOnce'
    BY DEF OnceInv, StoredOnce, ToldOnce
  <1> QED
    BY <1>4, <1>5, <1>6, <1>7 DEF OnceInv

\* The app's next write is a new one.
LEMMA AppWritesOnce == ASSUME TypeOK, OnceInv, AppWrites PROVE OnceInv'
  <1>1. PICK w \in Seq(Task) : w = worker
    BY DEF TypeOK
  <1>2. nextWrite \in Nat \ {0} /\ nextWrite \in Writes
    BY DEF TypeOK, AppWrites, Writes
  <1>3. PICK t \in Task : t = [kind |-> "write", write |-> nextWrite]
    BY <1>2 DEF Task
  <1>4. /\ worker' = Append(w, t) /\ t.kind = "write" /\ t.write = nextWrite
        /\ nextWrite' = nextWrite + 1 /\ UNCHANGED <<queue, told>>
    BY <1>1, <1>3 DEF AppWrites, store
  <1>5. /\ Len(Append(w, t)) = Len(w) + 1 /\ Len(w) \in Nat
        /\ \A j \in 1 .. Len(w) : Append(w, t)[j] = w[j]
        /\ Append(w, t)[Len(w) + 1] = t
    BY AppendProperties
  <1>6. \A j \in 1 .. Len(worker') : \/ j \in 1 .. Len(worker) /\ worker'[j] = worker[j]
                                     \/ j = Len(w) + 1 /\ worker'[j] = t
    BY <1>1, <1>4, <1>5
  <1>7. \A j \in 1 .. Len(worker) : worker[j].kind = "write" => worker[j].write \in Nat
    <2> SUFFICES ASSUME NEW j \in 1 .. Len(worker), worker[j].kind = "write"
                 PROVE  worker[j].write \in Nat
      OBVIOUS
    <2>1. worker[j] \in Task
      BY <1>1
    <2> QED
      BY <2>1 DEF Task, Writes
  <1>8. \A o \in Owners : \A k \in 1 .. Len(queue[o]) : queue[o][k].write \in Nat
    <2> SUFFICES ASSUME NEW o \in Owners, NEW k \in 1 .. Len(queue[o])
                 PROVE  queue[o][k].write \in Nat
      OBVIOUS
    <2>1. queue[o] \in Seq(Batch)
      BY DEF TypeOK
    <2>2. queue[o][k] \in Batch
      BY <2>1
    <2> QED
      BY <2>2 DEF Batch, Writes
  <1>9. \A u \in told : u.write \in Nat
    BY DEF TypeOK, Writes
  <1>10. WaitsOnce'
    <2>1. \A j \in 1 .. Len(worker') : worker'[j].kind = "write" => worker'[j].write < nextWrite + 1
      BY <1>2, <1>4, <1>6, <1>7 DEF OnceInv, WaitsOnce, IsWrite
    <2>2. ASSUME NEW i \in 1 .. Len(worker'), NEW j \in 1 .. Len(worker'),
                 worker'[i].kind = "write", worker'[j].kind = "write",
                 worker'[i].write = worker'[j].write
          PROVE  i = j
      BY <1>2, <1>4, <1>6, <1>7, <2>2 DEF OnceInv, WaitsOnce, IsWrite
    <2> QED
      BY <1>4, <2>1, <2>2 DEF WaitsOnce, IsWrite
  <1>11. StoredOnce'
    BY <1>2, <1>4, <1>8 DEF OnceInv, StoredOnce
  <1>12. WaitsOrStored'
    <2> SUFFICES ASSUME NEW j \in 1 .. Len(worker'), worker'[j].kind = "write",
                        NEW o \in Owners, NEW k \in 1 .. Len(queue[o])
                 PROVE  queue[o][k].write # worker'[j].write
      BY <1>4 DEF WaitsOrStored, IsWrite
    <2>1. queue[o][k].write < nextWrite /\ queue[o][k].write \in Nat
      BY <1>8 DEF OnceInv, StoredOnce
    <2> QED
      BY <1>2, <1>4, <1>6, <2>1 DEF OnceInv, WaitsOrStored, IsWrite
  <1>13. ToldIsGone' /\ ToldOnce'
    <2>1. ASSUME NEW u \in told
          PROVE  /\ u.write < nextWrite + 1
                 /\ \A j \in 1 .. Len(worker') : worker'[j].kind = "write" =>
                       worker'[j].write # u.write
      <3>1. u.write < nextWrite /\ u.write \in Nat
        BY <1>9 DEF OnceInv, ToldIsGone
      <3> QED
        BY <1>2, <1>4, <1>6, <3>1 DEF OnceInv, ToldIsGone, IsWrite
    <2> QED
      BY <1>4, <2>1 DEF OnceInv, ToldIsGone, ToldOnce, IsWrite
  <1> QED
    BY <1>10, <1>11, <1>12, <1>13 DEF OnceInv

\* The worker takes a write from its tasks to the user's queue.
LEMMA StoredOnceMore == ASSUME TypeOK, OnceInv, WriteMutations PROVE OnceInv'
  <1>1. PICK w \in Seq(Task) : w = worker
    BY DEF TypeOK
  <1>2. user \in Owners /\ queue \in [Owners -> Seq(Batch)] /\ nextBatch \in Nat \ {0}
    BY DEF TypeOK
  <1>3. PICK x \in Writes : x = Head(worker).write
    BY TaskTypes DEF WriteMutations
  <1>4. PICK b \in Batch : b = [id |-> nextBatch, write |-> x]
    BY <1>2 DEF Batch
  <1>5. PICK q \in Seq(Batch) : q = queue[user]
    BY <1>2
  <1>6. /\ w # << >> /\ worker' = Tail(w) /\ queue' = [queue EXCEPT ![user] = Append(q, b)]
        /\ UNCHANGED <<nextWrite, told>> /\ Head(worker).kind = "write"
    BY <1>1, <1>3, <1>4, <1>5 DEF WriteMutations, NextTask, history
  <1>7. /\ Len(w) \in Nat \ {0} /\ w[1] = Head(w)
        /\ \A j \in 1 .. Len(worker') : j + 1 \in 1 .. Len(w) /\ j + 1 # 1 /\ worker'[j] = w[j + 1]
    BY <1>6, HeadTailProperties
  <1>8. /\ Len(Append(q, b)) = Len(q) + 1 /\ Len(q) \in Nat
        /\ \A k \in 1 .. Len(q) : Append(q, b)[k] = q[k]
        /\ Append(q, b)[Len(q) + 1] = b
    BY AppendProperties
  <1>9. b.write = x
    BY <1>4
  <1>10. \A o \in Owners : queue'[o] = IF o = user THEN Append(q, b) ELSE queue[o]
    BY <1>2, <1>6
  <1>11. \A o \in Owners : \A k \in 1 .. Len(queue'[o]) :
            \/ k \in 1 .. Len(queue[o]) /\ queue'[o][k] = queue[o][k]
            \/ o = user /\ k = Len(q) + 1 /\ queue'[o][k].write = x
    <2> SUFFICES ASSUME NEW o \in Owners, NEW k \in 1 .. Len(queue'[o])
                 PROVE  \/ k \in 1 .. Len(queue[o]) /\ queue'[o][k] = queue[o][k]
                        \/ o = user /\ k = Len(q) + 1 /\ queue'[o][k].write = x
      OBVIOUS
    <2>1. CASE o # user
      BY <1>10, <2>1
    <2>2. CASE o = user
      <3>1. queue'[o] = Append(q, b) /\ queue[o] = q
        BY <1>5, <1>10, <2>2
      <3>2. k \in 1 .. Len(q) \/ k = Len(q) + 1
        BY <1>8, <3>1
      <3> QED
        BY <1>8, <1>9, <2>2, <3>1, <3>2
    <2> QED
      BY <2>1, <2>2
  <1>12. 1 \in 1 .. Len(worker) /\ IsWrite(1) /\ worker[1].write = x
    BY <1>1, <1>3, <1>6, <1>7 DEF IsWrite
  <1>13. /\ x < nextWrite
         /\ \A o \in Owners : \A k \in 1 .. Len(queue[o]) : queue[o][k].write # x
         /\ \A t \in told : t.write # x
    BY <1>12 DEF OnceInv, WaitsOnce, WaitsOrStored, ToldIsGone
  <1>14. \A j \in 1 .. Len(worker') : worker'[j].kind = "write" =>
            /\ j + 1 \in 1 .. Len(worker) /\ worker'[j] = worker[j + 1]
            /\ worker'[j].write # x
    BY <1>1, <1>7, <1>12 DEF OnceInv, WaitsOnce, IsWrite
  <1>15. WaitsOnce'
    <2>1. \A j \in 1 .. Len(worker') : worker'[j].kind = "write" => worker'[j].write < nextWrite
      BY <1>14 DEF OnceInv, WaitsOnce, IsWrite
    <2>2. ASSUME NEW i \in 1 .. Len(worker'), NEW j \in 1 .. Len(worker'),
                 worker'[i].kind = "write", worker'[j].kind = "write",
                 worker'[i].write = worker'[j].write
          PROVE  i = j
      <3>1. i + 1 = j + 1
        BY <1>14, <2>2 DEF OnceInv, WaitsOnce, IsWrite
      <3> QED
        BY <3>1
    <2> QED
      BY <1>6, <2>1, <2>2 DEF WaitsOnce, IsWrite
  <1>16. StoredOnce'
    <2>1. \A o \in Owners : \A k \in 1 .. Len(queue'[o]) : queue'[o][k].write < nextWrite
      BY <1>11, <1>13 DEF OnceInv, StoredOnce
    <2>2. ASSUME NEW o \in Owners, NEW p \in Owners, NEW k \in 1 .. Len(queue'[o]),
                 NEW l \in 1 .. Len(queue'[p]), queue'[o][k].write = queue'[p][l].write
          PROVE  o = p /\ k = l
      <3>1. \/ k \in 1 .. Len(queue[o]) /\ queue'[o][k] = queue[o][k]
            \/ o = user /\ k = Len(q) + 1 /\ queue'[o][k].write = x
        BY <1>11
      <3>2. \/ l \in 1 .. Len(queue[p]) /\ queue'[p][l] = queue[p][l]
            \/ p = user /\ l = Len(q) + 1 /\ queue'[p][l].write = x
        BY <1>11
      <3>3. CASE queue'[o][k].write = x
        BY <1>13, <2>2, <3>1, <3>2, <3>3
      <3>4. CASE queue'[o][k].write # x
        <4>1. k \in 1 .. Len(queue[o]) /\ l \in 1 .. Len(queue[p])
          BY <2>2, <3>1, <3>2, <3>4
        <4>2. queue[o][k].write = queue[p][l].write
          BY <2>2, <3>1, <3>2, <3>4
        <4> QED
          BY <4>1, <4>2 DEF OnceInv, StoredOnce
      <3> QED
        BY <3>3, <3>4
    <2>3. nextWrite' = nextWrite
      BY <1>6
    <2> QED
      BY <2>1, <2>2, <2>3, Zenon DEF StoredOnce
  <1>17. WaitsOrStored'
    <2> SUFFICES ASSUME NEW j \in 1 .. Len(worker'), worker'[j].kind = "write",
                        NEW o \in Owners, NEW k \in 1 .. Len(queue'[o])
                 PROVE  queue'[o][k].write # worker'[j].write
      BY DEF WaitsOrStored, IsWrite
    <2>1. /\ j + 1 \in 1 .. Len(worker) /\ worker'[j] = worker[j + 1]
          /\ worker'[j].write # x
      BY <1>14
    <2>2. \/ k \in 1 .. Len(queue[o]) /\ queue'[o][k] = queue[o][k]
          \/ queue'[o][k].write = x
      BY <1>11
    <2> QED
      BY <2>1, <2>2 DEF OnceInv, WaitsOrStored, IsWrite
  <1>18. ToldIsGone' /\ ToldOnce'
    BY <1>6, <1>11, <1>13, <1>14 DEF OnceInv, ToldIsGone, ToldOnce, IsWrite
  <1> QED
    BY <1>15, <1>16, <1>17, <1>18 DEF OnceInv

\* The write that is answered leaves its queue with the answer.
LEMMA AnsweredOnceOnly ==
    ASSUME QueueInv, BlocksWaitForTheirWrite, OnceInv, pipeline # << >>,
           NEW ok \in BOOLEAN, BatchAnswered(Head(pipeline).id, ok),
           UNCHANGED <<worker, nextWrite>>
    PROVE  OnceInv'
  <1>1. user \in Owners /\ queue \in [Owners -> Seq(Batch)] /\ TypeOK
    BY DEF QueueInv, TypeOK
  <1>2. /\ queue[user] # << >> /\ Head(pipeline) = Head(queue[user])
        /\ queue'[user] = Tail(queue[user])
        /\ \A o \in Owners \ {user} : queue'[o] = queue[o]
    BY AnsweredTypes
  <1>3. PICK q \in Seq(Batch) : q = queue[user]
    BY <1>1
  <1>4. PICK x : x = Head(q).write
    OBVIOUS
  <1>5. /\ Len(q) \in Nat \ {0} /\ q[1] = Head(q)
        /\ \A k \in 1 .. Len(Tail(q)) : k + 1 \in 1 .. Len(q) /\ k + 1 # 1 /\ Tail(q)[k] = q[k + 1]
    BY <1>2, <1>3, HeadTailProperties
  <1>6. 1 \in 1 .. Len(queue[user]) /\ queue[user][1].write = x
    BY <1>3, <1>4, <1>5
  <1>7. /\ x < nextWrite
        /\ \A j \in 1 .. Len(worker) : IsWrite(j) => worker[j].write # x
        /\ \A t \in told : t.write # x
    BY <1>1, <1>6 DEF OnceInv, StoredOnce, WaitsOrStored, ToldIsGone
  <1>8. \A o \in Owners : \E d \in {0, 1} : \A k \in 1 .. Len(queue'[o]) :
           /\ k + d \in 1 .. Len(queue[o]) /\ queue'[o][k] = queue[o][k + d]
           /\ queue'[o][k].write # x
    <2> SUFFICES ASSUME NEW o \in Owners
                 PROVE  \E d \in {0, 1} : \A k \in 1 .. Len(queue'[o]) :
                           /\ k + d \in 1 .. Len(queue[o]) /\ queue'[o][k] = queue[o][k + d]
                           /\ queue'[o][k].write # x
      OBVIOUS
    <2>1. CASE o = user
      <3>1. \A k \in 1 .. Len(queue'[o]) :
               /\ k + 1 \in 1 .. Len(queue[o]) /\ k + 1 # 1 /\ queue'[o][k] = queue[o][k + 1]
        BY <1>2, <1>3, <1>5, <2>1
      <3>2. ASSUME NEW k \in 1 .. Len(queue'[o])
            PROVE  queue'[o][k].write # x
        <4>1. /\ k + 1 \in 1 .. Len(queue[user]) /\ k + 1 # 1
              /\ queue'[o][k] = queue[user][k + 1]
          BY <2>1, <3>1
        <4> QED
          BY <1>1, <1>6, <4>1 DEF OnceInv, StoredOnce
      <3> QED
        BY <3>1, <3>2
    <2>2. CASE o # user
      <3>1. queue'[o] = queue[o] /\ Len(queue[o]) \in Nat
        BY <1>1, <1>2, <2>2
      <3>2. \A k \in 1 .. Len(queue'[o]) :
               k + 0 \in 1 .. Len(queue[o]) /\ queue'[o][k] = queue[o][k + 0]
        BY <3>1
      <3>3. ASSUME NEW k \in 1 .. Len(queue'[o])
            PROVE  queue'[o][k].write # x
        <4>1. k \in 1 .. Len(queue[o]) /\ queue'[o][k] = queue[o][k]
          BY <3>1
        <4>2. queue[o][k].write # queue[user][1].write
          BY <1>1, <1>6, <2>2, <4>1 DEF OnceInv, StoredOnce
        <4> QED
          BY <1>6, <4>1, <4>2
      <3> QED
        BY <3>2, <3>3
    <2> QED
      BY <2>1, <2>2
  <1>9. \A t \in told' : t \in told \/ t = [write |-> x, ok |-> ok]
    <2>1. PICK id : id = Head(pipeline).id
      OBVIOUS
    <2>2. told' = IF id \in DOMAIN callbacks[user]
                  THEN told \cup {[write |-> callbacks[user][id], ok |-> ok]} ELSE told
      BY <2>1 DEF BatchAnswered, NotifyUser
    <2>3. id \in DOMAIN callbacks[user] => callbacks[user][id] = x
      BY <1>2, <1>3, <1>4, <2>1, FrontsBlock
    <2> QED
      BY <2>2, <2>3
  <1>10. WaitsOnce'
    BY DEF OnceInv, WaitsOnce, IsWrite
  <1>11. StoredOnce'
    <2>1. ASSUME NEW o \in Owners, NEW k \in 1 .. Len(queue'[o])
          PROVE  queue'[o][k].write < nextWrite
      <3>1. PICK d \in {0, 1} : k + d \in 1 .. Len(queue[o]) /\ queue'[o][k] = queue[o][k + d]
        BY <1>8
      <3> QED
        BY <3>1 DEF OnceInv, StoredOnce
    <2>2. ASSUME NEW o \in Owners, NEW p \in Owners, NEW k \in 1 .. Len(queue'[o]),
                 NEW l \in 1 .. Len(queue'[p]), queue'[o][k].write = queue'[p][l].write
          PROVE  o = p /\ k = l
      <3>1. PICK d \in {0, 1} : \A i \in 1 .. Len(queue'[o]) :
               i + d \in 1 .. Len(queue[o]) /\ queue'[o][i] = queue[o][i + d]
        BY <1>8
      <3>2. PICK e \in {0, 1} : \A i \in 1 .. Len(queue'[p]) :
               i + e \in 1 .. Len(queue[p]) /\ queue'[p][i] = queue[p][i + e]
        BY <1>8
      <3>3. o = p /\ k + d = l + e
        <4>1. k + d \in 1 .. Len(queue[o]) /\ queue'[o][k] = queue[o][k + d]
          BY <3>1
        <4>2. l + e \in 1 .. Len(queue[p]) /\ queue'[p][l] = queue[p][l + e]
          BY <3>2
        <4> QED
          BY <2>2, <4>1, <4>2 DEF OnceInv, StoredOnce
      <3>4. CASE o = user
        <4>1. /\ k + 1 \in 1 .. Len(queue[o]) /\ queue'[o][k] = queue[o][k + 1]
              /\ l + 1 \in 1 .. Len(queue[o]) /\ queue'[o][l] = queue[o][l + 1]
          BY <1>2, <1>3, <1>5, <3>3, <3>4
        <4>2. k + 1 = l + 1
          BY <2>2, <3>3, <4>1 DEF OnceInv, StoredOnce
        <4> QED
          BY <3>3, <4>2
      <3>5. CASE o # user
        <4>1. queue'[o] = queue[o]
          BY <1>2, <3>5
        <4> QED
          BY <2>2, <3>3, <4>1 DEF OnceInv, StoredOnce
      <3> QED
        BY <3>4, <3>5
    <2>3. \A o \in Owners : \A k \in 1 .. Len(queue'[o]) : queue'[o][k].write < nextWrite'
      BY <2>1
    <2>4. \A o, p \in Owners : \A k \in 1 .. Len(queue'[o]) : \A l \in 1 .. Len(queue'[p]) :
             queue'[o][k].write = queue'[p][l].write => o = p /\ k = l
      BY <2>2, Zenon
    <2> QED
      BY <2>3, <2>4, Zenon DEF StoredOnce
  <1>12. WaitsOrStored'
    <2> SUFFICES ASSUME NEW j \in 1 .. Len(worker), worker[j].kind = "write",
                        NEW o \in Owners, NEW k \in 1 .. Len(queue'[o])
                 PROVE  queue'[o][k].write # worker[j].write
      BY DEF WaitsOrStored, IsWrite
    <2>1. PICK d \in {0, 1} : k + d \in 1 .. Len(queue[o]) /\ queue'[o][k] = queue[o][k + d]
      BY <1>8
    <2> QED
      BY <2>1 DEF OnceInv, WaitsOrStored, IsWrite
  <1>13. ToldIsGone'
    <2> SUFFICES ASSUME NEW t \in told'
                 PROVE  /\ t.write < nextWrite
                        /\ \A j \in 1 .. Len(worker) : IsWrite(j) => worker[j].write # t.write
                        /\ \A o \in Owners : \A k \in 1 .. Len(queue'[o]) :
                              queue'[o][k].write # t.write
      BY DEF ToldIsGone, IsWrite
    <2>1. CASE t \in told
      <3>1. ASSUME NEW o \in Owners, NEW k \in 1 .. Len(queue'[o])
            PROVE  queue'[o][k].write # t.write
        <4>1. PICK d \in {0, 1} : k + d \in 1 .. Len(queue[o]) /\ queue'[o][k] = queue[o][k + d]
          BY <1>8
        <4> QED
          BY <2>1, <4>1 DEF OnceInv, ToldIsGone
      <3> QED
        BY <2>1, <3>1 DEF OnceInv, ToldIsGone
    <2>2. CASE t = [write |-> x, ok |-> ok]
      BY <1>7, <1>8, <2>2
    <2> QED
      BY <1>9, <2>1, <2>2
  <1>14. ToldOnce'
    BY <1>7, <1>9 DEF OnceInv, ToldOnce
  <1> QED
    BY <1>10, <1>11, <1>12, <1>13, <1>14 DEF OnceInv

\* No other step makes, stores or answers a write.
LEMMA OnceNext ==
    QueueInv /\ BlocksWaitForTheirWrite /\ OnceInv /\ [Next]_vars => OnceInv'
  <1> SUFFICES ASSUME QueueInv, BlocksWaitForTheirWrite, OnceInv, [Next]_vars
               PROVE  OnceInv'
    OBVIOUS
  <1>1. TypeOK
    BY DEF QueueInv
  <1>2. CASE WriteMutations
    BY <1>1, <1>2, StoredOnceMore
  <1>3. CASE AppWrites
    BY <1>1, <1>3, AppWritesOnce
  <1>4. CASE MutationResult
    BY <1>4, AnsweredOnceOnly DEF MutationResult
  <1>5. CASE RefusalHeard
    BY <1>5, AnsweredOnceOnly DEF RefusalHeard, WriteRefused
  <1>6. CASE CredentialsChange
    <2>1. Head(main) \in Task /\ Head(main).kind # "write"
      BY <1>1, <1>6, BlockTypes DEF CredentialsChange, NextBlock
    <2>2. worker' = Append(worker, Head(main)) /\ UNCHANGED <<queue, nextWrite, told>>
      BY <1>6 DEF CredentialsChange, store, history
    <2> QED
      BY <1>1, <2>1, <2>2, QuietOnce
  <1>7. CASE TokenArrives
    <2>1. PICK b : b = Head(main)
      OBVIOUS
    <2>2. b.user \in Owners /\ b.closes \in Nat
      BY <1>1, <1>7, <2>1, BlockTypes DEF TokenArrives
    <2>3. PICK t \in Task : t = [kind |-> "token", user |-> b.user, closes |-> b.closes]
      BY <2>2 DEF Task
    <2>4. /\ worker' = Append(worker, t) \/ worker' = worker
          /\ UNCHANGED <<queue, nextWrite, told>>
      BY <1>7, <2>1, <2>3 DEF TokenArrives, store, history
    <2>5. t.kind # "write"
      BY <2>3
    <2> QED
      BY <1>1, <2>4, <2>5, QuietOnce
  <1>8. CASE /\ UNCHANGED <<queue, nextWrite, told>>
             /\ \/ worker' = worker \/ worker' = << >>
                \/ worker # << >> /\ worker' = Tail(worker)
    BY <1>1, <1>8, QuietOnce
  <1>9. \/ WriteMutations \/ AppWrites \/ MutationResult \/ RefusalHeard
        \/ CredentialsChange \/ TokenArrives
        \/ /\ UNCHANGED <<queue, nextWrite, told>>
           /\ \/ worker' = worker \/ worker' = << >>
              \/ worker # << >> /\ worker' = Tail(worker)
    BY DEF Next, Tasks, Reads, Serves, Blocks, Faults, HandleCredentialChange, DropToken,
           OpenStream, NextTask, HandshakeComplete, BackoffTimer, IdleTimer, ServerShakes,
           ServerCommits, ServerRefuses, AuthAnswers, AuthChanges, ConnectionLost,
           TokenFails, ConnectivityChanged, Relaunch, vars, store, history
  <1> QED
    BY <1>2, <1>3, <1>4, <1>5, <1>6, <1>7, <1>8, <1>9

\* Every reachable state has each write in one place.
LEMMA OnceInvariant == Spec => []OnceInv
  <1>1. Init => OnceInv
    <2> SUFFICES ASSUME Init PROVE OnceInv
      OBVIOUS
    <2>1. Len(worker) = 0 /\ told = {} /\ \A o \in Owners : Len(queue[o]) = 0
      BY DEF Init
    <2> QED
      BY <2>1 DEF OnceInv, WaitsOnce, StoredOnce, WaitsOrStored, ToldIsGone, ToldOnce
  <1>2. Spec => []QueueInv
    BY QueueInit, QueueNext, PTL DEF Spec
  <1> QED
    BY <1>1, <1>2, BlocksFindTheirWrite, OnceNext, PTL DEF Spec

\* No write is both reported done and reported refused, although a write is sent again
\* after every break of the stream and its id is used again once it has left.
THEOREM ToldOnceOnly == Spec => []ToldOnce
  <1>1. OnceInv => ToldOnce
    BY DEF OnceInv
  <1> QED
    BY <1>1, OnceInvariant, PTL

\* What the server commits on a stream is the write after those it has answered there.
LEMMA CommitIsNext ==
    ASSUME PipeInv, ServerCommits
    PROVE  /\ Len(answers) + 1 \in 1 .. Len(pipeline)
           /\ Head(sent) = pipeline[Len(answers) + 1]
           /\ \A i \in 1 .. Len(answers) : answers[i] = pipeline[i] /\ answers[i] # Shake
  <1>1. /\ sent \in Seq(Message) /\ answers \in Seq(Message) /\ sent # << >>
        /\ pipeline \in Seq(Batch) /\ refused = None /\ Head(sent) # Shake
    BY DEF PipeInv, QueueInv, TypeOK, ServerCommits
  <1>2. shaken
    <2> SUFFICES ASSUME ~ shaken PROVE FALSE
      OBVIOUS
    <2>1. answers \o sent = << Shake >> \/ answers \o sent = << >>
      BY DEF PipeInv, AnswerInv, AnswersMatchPipeline
    <2>2. answers \o sent # << >>
      BY <1>1, ConcatEqualIffEmpty
    <2>3. sent = << Shake >>
      BY <1>1, <2>1, <2>2, OneMessage
    <2> QED
      BY <1>1, <2>3
  <1>3. answers \o sent = pipeline
    BY <1>1, <1>2 DEF PipeInv, AnswerInv, AnswersMatchPipeline
  <1>4. /\ Len(pipeline) = Len(answers) + Len(sent) /\ Len(sent) > 0 /\ sent[1] = Head(sent)
        /\ \A i \in 1 .. Len(answers) + Len(sent) :
              pipeline[i] = IF i <= Len(answers) THEN answers[i] ELSE sent[i - Len(answers)]
    BY <1>1, <1>3, ConcatProperties
  <1>5. Len(answers) \in Nat /\ Len(sent) \in Nat
    BY <1>1
  <1>6. Len(answers) + 1 \in 1 .. Len(pipeline) /\ pipeline[Len(answers) + 1] = sent[1]
    BY <1>4, <1>5
  <1>7. \A i \in 1 .. Len(answers) : i \in 1 .. Len(pipeline) /\ answers[i] = pipeline[i]
    BY <1>4, <1>5
  <1>8. \A i \in 1 .. Len(pipeline) : pipeline[i] # Shake
    <2> SUFFICES ASSUME NEW i \in 1 .. Len(pipeline) PROVE pipeline[i] # Shake
      OBVIOUS
    <2>1. pipeline[i] \in Batch
      BY <1>1
    <2> QED
      BY <2>1, BatchId DEF Shake, None
  <1> QED
    BY <1>4, <1>6, <1>7, <1>8

CommitStep ==
    [\A k \in DOMAIN queue[user] :
        queue[user][k].write \in committed' \ committed =>
           \A j \in 1 .. k : queue[user][j].write \in committed']_vars

\* A write newly applied is the next of the pipeline, and those before it in the queue
\* were answered on this stream.
LEMMA CommitKeepsOrder ==
    ASSUME PipeInv, OnceInv, AnswersCommitted, ServerCommits,
           NEW k \in DOMAIN queue[user], queue[user][k].write \in committed' \ committed,
           NEW j \in 1 .. k
    PROVE  queue[user][j].write \in committed'
  <1>1. user \in Owners /\ queue[user] \in Seq(Batch) /\ pipeline \in Seq(Batch)
        /\ answers \in Seq(Message)
    BY DEF PipeInv, QueueInv, TypeOK
  <1>2. PICK n \in Nat : n = Len(answers)
    BY <1>1
  <1>3. /\ n + 1 \in 1 .. Len(pipeline) /\ Head(sent) = pipeline[n + 1]
        /\ \A i \in 1 .. n : answers[i] = pipeline[i] /\ answers[i] # Shake
    BY <1>2, CommitIsNext
  <1>4. Len(pipeline) <= Len(queue[user]) /\ \A i \in 1 .. Len(pipeline) : pipeline[i] = queue[user][i]
    BY <1>1, PrefixPointwise DEF PipeInv, QueueInv, PipelineIsQueueFront
  <1>5. committed' = committed \cup {Head(sent).write}
    BY DEF ServerCommits
  <1>6. n + 1 \in 1 .. Len(queue[user]) /\ queue[user][n + 1].write = Head(sent).write
    BY <1>1, <1>3, <1>4
  <1>7. k \in 1 .. Len(queue[user]) /\ queue[user][k].write = Head(sent).write
    BY <1>1, <1>5
  <1>8. k = n + 1
    BY <1>1, <1>6, <1>7 DEF OnceInv, StoredOnce
  <1>9. CASE j = n + 1
    BY <1>5, <1>6, <1>9
  <1>10. CASE j # n + 1
    <2>1. j \in 1 .. n /\ j \in 1 .. Len(pipeline)
      BY <1>1, <1>3, <1>8, <1>10
    <2>2. answers[j] = queue[user][j]
      BY <1>3, <1>4, <2>1
    <2>3. answers[j].write \in committed
      BY <1>2, <1>3, <2>1 DEF AnswersCommitted
    <2> QED
      BY <1>5, <2>2, <2>3
  <1> QED
    BY <1>9, <1>10

\* Only the server's commit applies a write.
LEMMA CommitInOrder == PipeInv /\ OnceInv /\ AnswersCommitted /\ [Next]_vars => CommitStep
  <1> SUFFICES ASSUME PipeInv, OnceInv, AnswersCommitted, [Next]_vars PROVE CommitStep
    OBVIOUS
  <1>1. ServerCommits \/ committed' = committed \/ UNCHANGED vars
    BY DEF Next, Tasks, Reads, Serves, Blocks, Faults, WriteMutations,
           HandleCredentialChange, DropToken, OpenStream, HandshakeComplete,
           MutationResult, RefusalHeard, BackoffTimer, IdleTimer, ServerShakes,
           ServerRefuses, CredentialsChange, TokenArrives, AuthAnswers, AppWrites,
           AuthChanges, ConnectionLost, TokenFails, ConnectivityChanged, Relaunch, history
  <1> QED
    BY <1>1, CommitKeepsOrder DEF CommitStep

\* The server first sees the writes of a user in the order the user made them, however
\* often the stream broke, the user changed or the app was started again in between.
THEOREM CommitsFollowQueue == Spec => CommitsInOrder
  <1>1. Init => AnswersCommitted
    BY DEF Init, AnswersCommitted
  <1>2. PipeInv => QueueInv
    BY DEF PipeInv
  <1> QED
    BY <1>1, <1>2, PipeInvariant, OnceInvariant, AnswersCommittedNext, CommitInOrder, PTL
       DEF Spec, CommitsInOrder, CommitStep

(***************************************************************************)
(* The client keeps the promise of WriteQueue: the refinement, for every   *)
(* set of owners and every bound                                           *)
(***************************************************************************)

\* The writes of a queue are a sequence as long, and lose and gain what it does.
LEMMA WritesAreSequence ==
    ASSUME NEW q \in Seq(Batch)
    PROVE  /\ WritesOf(q) \in Seq(Writes) /\ Len(WritesOf(q)) = Len(q)
           /\ \A k \in 1 .. Len(q) : WritesOf(q)[k] = q[k].write
  <1>1. WritesOf(q) = [k \in 1 .. Len(q) |-> q[k].write]
    BY DEF WritesOf
  <1>2. \A k \in 1 .. Len(q) : q[k].write \in Writes
    BY BatchId
  <1> QED
    BY <1>1, <1>2

\* An empty queue holds no writes.
LEMMA WritesOfEmpty == WritesOf(<< >>) = << >>
  <1>1. << >> \in Seq(Batch) /\ Len(<< >>) = 0
    OBVIOUS
  <1>2. WritesOf(<< >>) \in Seq(Writes) /\ Len(WritesOf(<< >>)) = 0
    BY <1>1, WritesAreSequence
  <1> QED
    BY <1>2

\* The oldest batch takes the oldest write with it.
LEMMA WritesOfTail ==
    ASSUME NEW q \in Seq(Batch), q # << >>
    PROVE  WritesOf(q) # << >> /\ WritesOf(Tail(q)) = Tail(WritesOf(q))
  <1>1. /\ WritesOf(q) \in Seq(Writes) /\ Len(WritesOf(q)) = Len(q)
        /\ \A k \in 1 .. Len(q) : WritesOf(q)[k] = q[k].write
    BY WritesAreSequence
  <1>2. /\ Tail(q) \in Seq(Batch) /\ Len(Tail(q)) = Len(q) - 1
        /\ \A k \in 1 .. Len(Tail(q)) : Tail(q)[k] = q[k + 1]
    BY HeadTailProperties
  <1>3. /\ WritesOf(Tail(q)) \in Seq(Writes) /\ Len(WritesOf(Tail(q))) = Len(q) - 1
        /\ \A k \in 1 .. Len(q) - 1 : WritesOf(Tail(q))[k] = Tail(q)[k].write
    BY <1>2, WritesAreSequence
  <1>4. WritesOf(q) # << >>
    BY <1>1
  <1>5. /\ Tail(WritesOf(q)) \in Seq(Writes) /\ Len(Tail(WritesOf(q))) = Len(q) - 1
        /\ \A k \in 1 .. Len(q) - 1 : Tail(WritesOf(q))[k] = WritesOf(q)[k + 1]
    BY <1>1, <1>4, HeadTailProperties
  <1>6. \A k \in 1 .. Len(q) - 1 : WritesOf(Tail(q))[k] = Tail(WritesOf(q))[k]
    BY <1>1, <1>2, <1>3, <1>5
  <1> QED
    BY <1>3, <1>4, <1>5, <1>6, SeqEqual

\* A batch that joins lengthens the list of writes.
LEMMA WritesOfAppend ==
    ASSUME NEW q \in Seq(Batch), NEW b \in Batch
    PROVE  IsStrictPrefix(WritesOf(q), WritesOf(Append(q, b)))
  <1>1. /\ WritesOf(q) \in Seq(Writes) /\ Len(WritesOf(q)) = Len(q)
        /\ \A k \in 1 .. Len(q) : WritesOf(q)[k] = q[k].write
    BY WritesAreSequence
  <1>2. /\ Append(q, b) \in Seq(Batch) /\ Len(Append(q, b)) = Len(q) + 1
        /\ \A k \in 1 .. Len(q) : Append(q, b)[k] = q[k]
    BY AppendProperties
  <1>3. /\ WritesOf(Append(q, b)) \in Seq(Writes)
        /\ Len(WritesOf(Append(q, b))) = Len(q) + 1
        /\ \A k \in 1 .. Len(q) + 1 : WritesOf(Append(q, b))[k] = Append(q, b)[k].write
    BY <1>2, WritesAreSequence
  <1>4. Len(WritesOf(q)) < Len(WritesOf(Append(q, b)))
    BY <1>1, <1>3
  <1>5. \A k \in 1 .. Len(WritesOf(q)) : WritesOf(q)[k] = WritesOf(Append(q, b))[k]
    BY <1>1, <1>2, <1>3
  <1> QED
    BY <1>1, <1>3, <1>4, <1>5, StrictPointwise

Pending == [o \in Owners |-> WritesOf(queue[o])]
Ahead   == IF shaken THEN Len(answers) ELSE 0

PromiseStep == [Promise!Next]_(Promise!vars)

\* The writes of the user's queue when that queue alone has changed.
LEMMA PendingChanged ==
    ASSUME TypeOK, NEW q \in Seq(Batch), queue' = [queue EXCEPT ![user] = q]
    PROVE  Pending' = [Pending EXCEPT ![user] = WritesOf(q)]
  <1>1. user \in Owners /\ queue \in [Owners -> Seq(Batch)]
    BY DEF TypeOK
  <1>2. \A o \in Owners : queue'[o] = IF o = user THEN q ELSE queue[o]
    BY <1>1
  <1> QED
    BY <1>1, <1>2 DEF Pending

\* A write of the app is an Enqueue of the promise ...
LEMMA WriteIsEnqueue == ASSUME QueueInv, WriteMutations PROVE Promise!Enqueue
  <1>1. /\ user \in Owners /\ queue \in [Owners -> Seq(Batch)] /\ nextBatch \in Nat \ {0}
        /\ TypeOK
    BY DEF QueueInv, TypeOK
  <1>2. PICK w \in Writes : w = Head(worker).write
    BY TaskTypes DEF QueueInv, WriteMutations
  <1>3. PICK batch \in Batch : batch = [id |-> nextBatch, write |-> w]
    BY <1>1 DEF Batch
  <1>4. PICK q \in Seq(Batch) : q = queue[user]
    BY <1>1
  <1>5. queue' = [queue EXCEPT ![user] = Append(q, batch)]
    BY <1>2, <1>3, <1>4 DEF WriteMutations
  <1>6. Append(q, batch) \in Seq(Batch)
    BY AppendProperties
  <1>7. Pending' = [Pending EXCEPT ![user] = WritesOf(Append(q, batch))]
    BY <1>1, <1>5, <1>6, PendingChanged
  <1>8. Pending[user] = WritesOf(q)
    BY <1>1, <1>4 DEF Pending
  <1>9. IsStrictPrefix(Pending[user], Pending'[user])
    BY <1>1, <1>7, <1>8, WritesOfAppend DEF Pending
  <1>10. DOMAIN Pending' = Owners /\ \A o \in Owners \ {user} : Pending'[o] = Pending[o]
    BY <1>7 DEF Pending
  <1>11. user' = user /\ Ahead' = Ahead
    BY DEF WriteMutations, Ahead
  <1>12. Promise!IsStrictPrefix(Pending[user], Pending'[user])
    BY <1>9, Zenon DEF IsStrictPrefix, IsPrefix, Promise!IsStrictPrefix, Promise!IsPrefix
  <1> QED
    BY <1>10, <1>11, <1>12 DEF Promise!Enqueue, Pending, Ahead

\* A batch that is removed leaves with its block ...
LEMMA AnsweredLeaves ==
    ASSUME QueueInv, pipeline # << >>, NEW ok \in BOOLEAN,
           BatchAnswered(Head(pipeline).id, ok)
    PROVE  /\ Pending[user] # << >> /\ Pending' = [Pending EXCEPT ![user] = Tail(@)]
  <1>1. /\ user \in Owners /\ queue \in [Owners -> Seq(Batch)] /\ TypeOK
    BY DEF QueueInv, TypeOK
  <1>2. /\ queue' \in [Owners -> Seq(Batch)] /\ queue[user] # << >>
        /\ queue'[user] = Tail(queue[user])
        /\ \A o \in Owners \ {user} : queue'[o] = queue[o]
    BY AnsweredTypes
  <1>3. PICK q \in Seq(Batch) : q = queue[user]
    BY <1>1
  <1>4. WritesOf(q) # << >> /\ WritesOf(Tail(q)) = Tail(WritesOf(q))
    BY <1>2, <1>3, WritesOfTail
  <1>5. Pending[user] = WritesOf(q)
    BY <1>1, <1>3 DEF Pending
  <1>6. \A o \in Owners : queue'[o] = IF o = user THEN Tail(q) ELSE queue[o]
    BY <1>2, <1>3
  <1>7. Pending' = [Pending EXCEPT ![user] = WritesOf(Tail(q))]
    BY <1>1, <1>6 DEF Pending
  <1> QED
    BY <1>4, <1>5, <1>7

\* ... an answer to the front of the pipeline is a Hear ...
LEMMA ResultIsHear == ASSUME QueueInv, MutationResult PROVE Promise!Hear
  <1>1. /\ pipeline # << >> /\ BatchAnswered(Head(pipeline).id, TRUE)
        /\ answers \in Seq(Message) /\ answers # << >> /\ answers' = Tail(answers)
        /\ shaken /\ shaken' = shaken /\ user' = user
    BY DEF QueueInv, TypeOK, MutationResult
  <1>2. Pending' = [Pending EXCEPT ![user] = Tail(@)]
    BY <1>1, AnsweredLeaves
  <1>3. Len(answers) > 0 /\ Len(answers') = Len(answers) - 1
    BY <1>1
  <1>4. Ahead > 0 /\ Ahead' = Ahead - 1
    BY <1>1, <1>3 DEF Ahead
  <1> QED
    BY <1>1, <1>2, <1>4 DEF Promise!Hear, Promise!Leave, Pending, Ahead

\* ... and a refusal a Refuse.
LEMMA RefusalIsRefuse == ASSUME QueueInv, RefusalHeard PROVE Promise!Refuse
  <1>1. pipeline # << >> /\ BatchAnswered(Head(pipeline).id, FALSE) /\ user' = user
    BY DEF RefusalHeard, WriteRefused
  <1>2. Pending[user] # << >> /\ Pending' = [Pending EXCEPT ![user] = Tail(@)]
    BY <1>1, AnsweredLeaves
  <1>3. Ahead' = 0
    BY DEF RefusalHeard, WriteRefused, StreamGone, Ahead
  <1> QED
    BY <1>1, <1>2, <1>3 DEF Promise!Refuse, Promise!Leave, Pending, Ahead

\* The server commits what is next in the pipeline, and so in the user's queue.
LEMMA ServesIsCommit == ASSUME PipeInv, Serves PROVE PromiseStep
  <1>1. /\ sent \in Seq(Message) /\ answers \in Seq(Message) /\ sent # << >>
        /\ pipeline \in Seq(Batch) /\ queue[user] \in Seq(Batch) /\ user \in Owners
        /\ user' = user /\ queue' = queue /\ shaken' = shaken /\ refused = None
    BY DEF PipeInv, QueueInv, TypeOK, Serves, ServerShakes, ServerCommits, ServerRefuses,
           store
  <1>2. Pending' = Pending
    BY <1>1 DEF Pending
  <1>3. shaken <=> Head(sent) # Shake
    <2>1. CASE shaken
      <3>1. answers \o sent = pipeline
        BY <1>1, <2>1 DEF PipeInv, AnswerInv, AnswersMatchPipeline
      <3>2. /\ Len(pipeline) = Len(answers) + Len(sent)
            /\ pipeline[Len(answers) + 1] = sent[1]
        BY <1>1, <3>1, ConcatProperties
      <3>3. Len(answers) + 1 \in 1 .. Len(pipeline)
        BY <1>1, <3>2
      <3>4. sent[1] \in Batch
        BY <1>1, <3>2, <3>3
      <3> QED
        BY <1>1, <2>1, <3>4, BatchId DEF Shake, None
    <2>2. CASE ~ shaken
      <3>1. answers \o sent = << Shake >> \/ answers \o sent = << >>
        BY <2>2 DEF PipeInv, AnswerInv, AnswersMatchPipeline
      <3>2. answers \o sent # << >>
        BY <1>1, ConcatEqualIffEmpty
      <3>3. sent = << Shake >>
        BY <1>1, <3>1, <3>2, OneMessage
      <3> QED
        BY <2>2, <3>3
    <2> QED
      BY <2>1, <2>2
  <1>4. CASE ServerCommits
    <2>1. shaken /\ answers' = Append(answers, Head(sent))
      BY <1>3, <1>4 DEF ServerCommits
    <2>2. answers \o sent = pipeline
      BY <1>1, <2>1 DEF PipeInv, AnswerInv, AnswersMatchPipeline
    <2>3. Len(answers) < Len(pipeline)
      <3>1. Len(answers \o sent) = Len(answers) + Len(sent)
        BY <1>1, ConcatProperties
      <3> QED
        BY <1>1, <2>2, <3>1
    <2>4. Len(pipeline) <= Len(queue[user])
      BY <1>1, PrefixPointwise DEF PipeInv, QueueInv, PipelineIsQueueFront
    <2>5. Len(Pending[user]) = Len(queue[user])
      BY <1>1, WritesAreSequence DEF Pending
    <2>6. Head(sent) \in Message
      BY <1>1
    <2>7. Len(answers') = Len(answers) + 1
      BY <1>1, <2>1, <2>6, AppendProperties
    <2>8. Ahead < Len(Pending[user]) /\ Ahead' = Ahead + 1
      BY <1>1, <2>1, <2>3, <2>4, <2>5, <2>7 DEF Ahead
    <2>9. Promise!Commit
      BY <1>1, <1>2, <2>8 DEF Promise!Commit, Pending, Ahead
    <2> QED
      BY <2>9 DEF PromiseStep, Promise!Next
  <1>5. CASE ServerShakes \/ ServerRefuses
    <2>1. Ahead' = Ahead
      <3>1. CASE ServerShakes
        <4>1. ~ shaken
          BY <1>3, <3>1 DEF ServerShakes
        <4> QED
          BY <1>1, <4>1 DEF Ahead
      <3>2. CASE ServerRefuses
        <4>1. answers' = answers
          BY <3>2 DEF ServerRefuses
        <4> QED
          BY <1>1, <4>1 DEF Ahead
      <3> QED
        BY <1>5, <3>1, <3>2
    <2> QED
      BY <1>1, <1>2, <2>1 DEF PromiseStep, Promise!vars, Pending, Ahead
  <1> QED
    BY <1>4, <1>5 DEF Serves

\* A stream that ends, or another user, is a new connection.
LEMMA GoneIsReconnect ==
    ASSUME StreamGone, user' \in Owners, queue' = queue
    PROVE  Promise!Reconnect
  <1>1. Ahead' = 0
    BY DEF StreamGone, Ahead
  <1>2. Pending' = Pending
    BY DEF Pending
  <1> QED
    BY <1>1, <1>2 DEF Promise!Reconnect, Pending, Ahead

\* Every step of the client is one of the promise, or a stutter.
LEMMA StepKeepsPromise == PipeInv /\ [Next]_vars => PromiseStep
  <1> SUFFICES ASSUME PipeInv, [Next]_vars PROVE PromiseStep
    OBVIOUS
  <1>1. /\ user \in Owners /\ signedIn \in Owners /\ worker \in Seq(Task) /\ QueueInv
        /\ TypeOK
    BY DEF PipeInv, QueueInv, TypeOK
  <1>2. CASE UNCHANGED <<user, queue, shaken, answers>>
    <2>1. Pending' = Pending /\ Ahead' = Ahead /\ user' = user
      BY <1>2 DEF Pending, Ahead
    <2> QED
      BY <2>1 DEF PromiseStep, Promise!vars, Pending, Ahead
  <1>3. CASE WriteMutations
    BY <1>1, <1>3, WriteIsEnqueue DEF PromiseStep, Promise!Next
  <1>4. CASE MutationResult
    BY <1>1, <1>4, ResultIsHear DEF PromiseStep, Promise!Next
  <1>5. CASE RefusalHeard
    BY <1>1, <1>5, RefusalIsRefuse DEF PromiseStep, Promise!Next
  <1>6. CASE Serves
    BY <1>6, ServesIsCommit
  <1>7. CASE \/ HandleCredentialChange \/ ConnectionLost \/ TokenFails \/ IdleTimer
             \/ ConnectivityChanged \/ Relaunch
    <2>1. StreamGone
      BY <1>7 DEF HandleCredentialChange, ConnectionLost, TokenFails, IdleTimer,
                  ConnectivityChanged, Relaunch, RestartNetwork, StreamBroken
    <2>2. queue' = queue
      BY <1>7 DEF HandleCredentialChange, ConnectionLost, TokenFails, IdleTimer,
                  ConnectivityChanged, Relaunch, store
    <2>3. user' \in Owners
      <3>1. CASE HandleCredentialChange
        BY <1>1, <3>1, TaskTypes DEF HandleCredentialChange
      <3>2. CASE ~ HandleCredentialChange
        BY <1>1, <1>7, <3>2 DEF ConnectionLost, TokenFails, IdleTimer,
                                ConnectivityChanged, Relaunch, store
      <3> QED
        BY <3>1, <3>2
    <2> QED
      BY <2>1, <2>2, <2>3, GoneIsReconnect DEF PromiseStep, Promise!Next
  <1>8. CASE HandshakeComplete
    <2>1. /\ ~ shaken /\ answers # << >> /\ answers' = Tail(answers)
          /\ user' = user /\ queue' = queue
      BY <1>8 DEF HandshakeComplete, store
    <2>2. answers \in Seq(Message) /\ sent \in Seq(Message)
      BY <1>1 DEF TypeOK
    <2>3. answers \o sent = << Shake >> \/ answers \o sent = << >>
      BY <2>1 DEF PipeInv, AnswerInv, AnswersMatchPipeline
    <2>4. answers \o sent # << >>
      BY <2>1, <2>2, ConcatEqualIffEmpty
    <2>5. answers = << Shake >>
      BY <2>1, <2>2, <2>3, <2>4, OneMessage
    <2>6. Len(answers') = 0
      BY <2>1, <2>5
    <2>7. Ahead = 0 /\ Ahead' = 0 /\ Pending' = Pending
      BY <2>1, <2>6 DEF Ahead, Pending
    <2> QED
      BY <2>1, <2>7 DEF PromiseStep, Promise!vars, Pending, Ahead
  <1>9. CASE \/ DropToken \/ OpenStream \/ BackoffTimer \/ Blocks \/ AuthAnswers
             \/ AppWrites \/ AuthChanges \/ UNCHANGED vars
    <2>1. UNCHANGED <<user, queue, shaken, answers>>
      BY <1>9 DEF DropToken, OpenStream, BackoffTimer, Blocks, CredentialsChange,
                  TokenArrives, AuthAnswers, AppWrites, AuthChanges, vars, store, network
    <2> QED
      BY <1>2, <2>1
  <1> QED
    BY <1>3, <1>4, <1>5, <1>6, <1>7, <1>8, <1>9 DEF Next, Tasks, Reads, Faults

\* The client keeps the promise of WriteQueue: a write leaves an account's queue from
\* the front and only when the server was heard of it, over lost connections, lost
\* answers, changes of user and restarts of the app.
THEOREM KeepsItsPromise == Spec => ImplementsWriteQueue
  <1>1. Init => Promise!Init
    <2> SUFFICES ASSUME Init PROVE Promise!Init
      OBVIOUS
    <2>1. user \in Owners /\ Ahead = 0
      BY DEF Init, Ahead
    <2>2. Pending = [o \in Owners |-> << >>]
      BY WritesOfEmpty DEF Init, Pending
    <2> QED
      BY <2>1, <2>2 DEF Promise!Init, Pending, Ahead
  <1> QED
    BY <1>1, PipeInvariant, StepKeepsPromise, PTL
       DEF Spec, ImplementsWriteQueue, Promise!Spec, PromiseStep
=============================================================================
