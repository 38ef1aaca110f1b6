----------------------------- MODULE Dispatcher -----------------------------
(***************************************************************************)
(* Dispatcher (libqt/sync/dispatcher.h): post() runs a task on the thread   *)
(* pool, wait() runs an event loop in the calling thread until the task's   *)
(* watcher or a timer ends it.  Events that the loop delivers may wait      *)
(* again, on top: the lower loop may be told to quit meanwhile, but returns *)
(* only after the upper one.                                                *)
(***************************************************************************)
EXTENDS Integers, Sequences

CONSTANTS
    Futures,         \* tasks
    WaitTimes,       \* arguments ms of wait()
    WaitLimit,       \* 60000 in the code
    MaxWaits         \* bound: calls of wait()

VARIABLES
    future,          \* each task: "new", "running", "finished"
    waits,           \* waits in progress, innermost last: the task, the time the
                     \* timer has left, whether the loop was told to quit
    waited           \* calls of wait()

dispatchVars == <<future, waits, waited>>

DispatchInit ==
    /\ future = [f \in Futures |-> "new"]
    /\ waits = <<>>
    /\ waited = 0

\* post()
Post(f) ==
    /\ future[f] = "new"
    /\ future' = [future EXCEPT ![f] = "running"]
    /\ UNCHANGED <<waits, waited>>

\* The thread pool.  A task may run for ever.
TaskEnds(f) ==
    /\ future[f] = "running"
    /\ future' = [future EXCEPT ![f] = "finished"]
    /\ UNCHANGED <<waits, waited>>

\* Mutant of Wait: the timer is not started.
WaitUntimed(f, ms) ==
    /\ waited < MaxWaits
    /\ future[f] # "new"
    /\ waited' = waited + 1
    /\ waits' = Append(waits, [task |-> f, left |-> -1, quit |-> FALSE])
    /\ UNCHANGED future

\* wait(), as far as loop.exec(); ms outside 1 .. 60000 counts as 1.
Wait(f, ms) ==
    /\ waited < MaxWaits
    /\ future[f] # "new"
    /\ waited' = waited + 1
    /\ waits' = Append(waits, [task |-> f, quit |-> FALSE,
                               left |-> IF ms < 1 \/ ms > WaitLimit THEN 1 ELSE ms])
    /\ UNCHANGED future

\* A millisecond passes.
Tick ==
    /\ \E i \in DOMAIN waits : waits[i].left > 0
    /\ waits' = [i \in DOMAIN waits |-> [waits[i] EXCEPT !.left = IF @ > 0 THEN @ - 1 ELSE @]]
    /\ UNCHANGED <<future, waited>>

\* The innermost loop delivers finished() of a watcher, or a timeout; the
\* watcher of a task that was already over gets its finished() as well.
Deliver(i) ==
    /\ ~ waits[i].quit
    /\ future[waits[i].task] = "finished" \/ waits[i].left = 0
    /\ waits' = [waits EXCEPT ![i].quit = TRUE]
    /\ UNCHANGED <<future, waited>>

\* The innermost loop was told to quit.
WaitReturns ==
    /\ waits # <<>>
    /\ waits[Len(waits)].quit
    /\ waits' = SubSeq(waits, 1, Len(waits) - 1)
    /\ UNCHANGED <<future, waited>>

\* Time passes, and events are delivered; tasks owe nothing.
LoopRuns == Tick \/ WaitReturns \/ \E i \in DOMAIN waits : Deliver(i)

DispatchNext ==
    \/ LoopRuns
    \/ \E f \in Futures : Post(f) \/ TaskEnds(f) \/ \E ms \in WaitTimes : Wait(f, ms)

-----------------------------------------------------------------------------
(* Properties                                                               *)

\* Every wait() returns, whether its task ends, has ended before or never ends,
\* for any ms, and although other waits are nested in its loop.
WaitsReturn == \A n \in 1 .. MaxWaits : Len(waits) >= n ~> Len(waits) < n
=============================================================================
