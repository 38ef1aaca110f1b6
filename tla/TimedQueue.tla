----------------------------- MODULE TimedQueue -----------------------------
(***************************************************************************)
(* TimedQueue (libqt/sync/timedqueue.h): a bounded queue of tasks, one of   *)
(* which runs at every tick of a timer, in one thread.  A full queue drops  *)
(* its oldest tasks and says so with a signal before the new task goes in;  *)
(* slots of that signal may call the queue again.                           *)
(*                                                                          *)
(* pending holds the enqueue() calls suspended in that emission, innermost  *)
(* last.  Tasks are numbered by enqueue() call.  A running task is the end  *)
(* of consume(), so what it calls is a call right after it.                 *)
(***************************************************************************)
EXTENDS Naturals, Sequences, FiniteSets

CONSTANTS
    MaxQueueSize,    \* the constructor's maxQueueSize
    MaxTasks,        \* bound: number of enqueue calls
    MaxNesting       \* how deep slots of signalQueueOverflow call enqueue

\* With maxQueueSize 0 the first enqueue() would dequeue from an empty queue.
ASSUME QueueSizeAssumption == MaxQueueSize \in Nat \ {0}
ASSUME QueueTasks   == MaxTasks \in Nat
ASSUME QueueNesting == MaxNesting \in Nat

Tasks == 1 .. MaxTasks

VARIABLES
    m_queue,     \* QQueue of tasks, oldest first
    active,      \* m_timer.isActive()
    pending,     \* tasks of the enqueue() calls inside the overflow signal
    calls,       \* number of enqueue calls
    ran,         \* history: tasks in the order they ran
    lost,        \* history: tasks dropped by enqueue or removed by clear
    nested       \* history: tasks submitted from a slot of the overflow signal

vars == <<m_queue, active, pending, calls, ran, lost, nested>>

Elems(s) == {s[i] : i \in DOMAIN s}

Init ==
    /\ m_queue = <<>>
    /\ active = FALSE
    /\ pending = <<>>
    /\ calls = 0
    /\ ran = <<>>
    /\ lost = {} /\ nested = {}

\* Mutant of Overflow: line 33 says > instead of >=.
OverflowLate == IF Len(m_queue) =< MaxQueueSize THEN 0 ELSE Len(m_queue) - MaxQueueSize

\* The tasks enqueue() drops: the oldest ones, until there is room for one.
Overflow == IF Len(m_queue) < MaxQueueSize THEN 0 ELSE Len(m_queue) - (MaxQueueSize - 1)

\* enqueue(), as far as the overflow signal; without one it is over.
Enqueue ==
    /\ calls < MaxTasks
    /\ Len(pending) =< MaxNesting
    /\ calls' = calls + 1
    /\ LET kept == SubSeq(m_queue, Overflow + 1, Len(m_queue))
       IN  IF Overflow = 0
           THEN m_queue' = Append(kept, calls') /\ UNCHANGED <<pending, lost>>
           ELSE /\ m_queue' = kept
                /\ lost' = lost \cup Elems(SubSeq(m_queue, 1, Overflow))
                /\ pending' = Append(pending, calls')
    /\ nested' = IF pending = <<>> THEN nested ELSE nested \cup {calls'}
    /\ UNCHANGED <<active, ran>>

\* The slots of the innermost overflow signal return and its task goes in: the
\* size is not looked at again.
EnqueueEnds ==
    /\ pending # <<>>
    /\ m_queue' = Append(m_queue, pending[Len(pending)])
    /\ pending' = SubSeq(pending, 1, Len(pending) - 1)
    /\ UNCHANGED <<active, calls, ran, lost, nested>>

\* start() starts a stopped timer; a second start() changes nothing.
Start == ~ active /\ active' = TRUE /\ UNCHANGED <<m_queue, pending, calls, ran, lost, nested>>
Stop  == active' = FALSE /\ UNCHANGED <<m_queue, pending, calls, ran, lost, nested>>

\* clear() stops the timer, too.
Clear ==
    /\ m_queue' = <<>>
    /\ lost' = lost \cup Elems(m_queue)
    /\ active' = FALSE
    /\ UNCHANGED <<pending, calls, ran, nested>>

\* Mutant of Consume: the task runs and stays in the queue.
ConsumeKeeps ==
    /\ active /\ pending = <<>>
    /\ m_queue # <<>>
    /\ ran' = Append(ran, Head(m_queue))
    /\ Len(ran) < MaxTasks
    /\ UNCHANGED <<m_queue, active, pending, calls, lost, nested>>

\* A tick of the timer, in the event loop.
Consume ==
    /\ active /\ pending = <<>>
    /\ m_queue # <<>>
    /\ ran' = Append(ran, Head(m_queue))
    /\ m_queue' = Tail(m_queue)
    /\ UNCHANGED <<active, pending, calls, lost, nested>>

Next == Enqueue \/ EnqueueEnds \/ Start \/ Stop \/ Clear \/ Consume

Spec == Init /\ [][Next]_vars

-----------------------------------------------------------------------------
(* Properties                                                               *)

\* The queue is bounded, but not by MaxQueueSize: every enqueue() suspended in
\* the overflow signal has made room for its task, and a nested one takes that
\* room.  So the bound is exceeded by at most the depth of the nesting.
QueueBounded == Len(m_queue) + Len(pending) =< MaxQueueSize + MaxNesting

\* A task runs at most once, and every submitted task is accounted for: it has
\* run, was dropped or cleared, waits in the queue, or is about to enter it.
EveryTaskOnce ==
    /\ Len(ran) + Cardinality(lost) + Len(m_queue) + Len(pending) = calls
    /\ Elems(ran) \cup lost \cup Elems(m_queue) \cup Elems(pending) = 1 .. calls

\* Tasks run in the order they were submitted, and a lost task is older than
\* any that waits.  Only a task submitted from an overflow slot is out of turn:
\* it enters before the task whose overflow caused it.
OldestFirst ==
    LET inOrder == ran \o m_queue
    IN  /\ \A i, j \in DOMAIN inOrder :
              i < j => inOrder[i] < inOrder[j] \/ inOrder[i] \in nested
        /\ \A t \in lost, u \in Elems(m_queue) \cup Elems(pending) :
              t < u \/ t \in nested

\* Both: no task is lost silently, runs twice or overtakes.
EachOnceInOrder == EveryTaskOnce /\ OldestFirst
=============================================================================
