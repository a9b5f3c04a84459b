------------------------------- MODULE Stream -------------------------------
(***************************************************************************)
(* The life of one of the client's two gRPC streams (remote/stream.cc), as *)
(* operators on its state: both WritePipeline and WatchTargets have one.   *)
(* Opening needs no answer of the server: once it has a token the stream   *)
(* counts as open, and its first message carries the headers.              *)
(***************************************************************************)
EXTENDS Integers

States == {"Initial", "Starting", "Open", "Error", "Backoff"}

StreamState == [state : States,       \* state_
                closes : Nat,         \* close_count_
                idle : BOOLEAN]       \* is idleness_timer_ scheduled?

NewStream == [state |-> "Initial", closes |-> 0, idle |-> FALSE]

IsOpen(s)    == s.state = "Open"
IsStarted(s) == s.state \in {"Starting", "Backoff", "Open"}

\* After an error the stream waits before it asks for a token again.
Start(s) ==
    [s EXCEPT !.state = IF s.state = "Error" THEN "Backoff" ELSE "Starting"]

BackoffElapsed(s) == [s EXCEPT !.state = "Starting"]

OnStreamStart(s) == [s EXCEPT !.state = "Open"]

InhibitBackoff(s) == [s EXCEPT !.state = "Initial"]

CloseKeepsTimer(s, state) ==
    [state |-> state, closes |-> s.closes + 1, idle |-> s.idle]

\* Timers are cancelled and callbacks of this incarnation become void.
Close(s, state) ==
    [state |-> state, closes |-> s.closes + 1, idle |-> FALSE]

Stop(s) == IF IsStarted(s) THEN Close(s, "Initial") ELSE s

Fail(s) == Close(s, "Error")

MarkIdle(s) == [s EXCEPT !.idle = s.idle \/ IsOpen(s)]

WriteTo(s) == [s EXCEPT !.idle = FALSE]
=============================================================================
