------------------------------ MODULE Channel ------------------------------
(***************************************************************************)
(* Channel<T> (libqt/sync/channel.h): a QSemaphore that counts the elements *)
(* of a QQueue.  The semaphore is thread-safe, the queue is not and no lock *)
(* protects it.  TcpClient hands received data from its pool thread to the  *)
(* readers through two channels; ObjPool (libqt/core/objpool.h) is the same *)
(* algorithm under other names (giveback / acquire / tryAcquire).           *)
(*                                                                          *)
(* An operation on the queue takes two steps: it reads the container, then  *)
(* writes it back changed.  Two operations that overlap are a data race:    *)
(* the later one overwrites the earlier, one of the outcomes the build can  *)
(* produce, and raced records it.  The properties below claim nothing after *)
(* that.  Dequeuing from an empty QQueue is an assertion failure: fault     *)
(* records it and the process stops.                                        *)
(***************************************************************************)
EXTENDS Naturals, Sequences, FiniteSets

CONSTANTS
    Threads,     \* the threads that share the channel
    Capa,        \* the constructor's sz
    MaxItems     \* bound: number of enqueue calls

ASSUME ChannelThreads == IsFiniteSet(Threads)
ASSUME ChannelCapa    == Capa \in Nat
ASSUME ChannelItems   == MaxItems \in Nat

VARIABLES
    m_sem,       \* available tokens
    m_data,      \* the container
    pc, op,      \* where each thread is, and in which call
    item,        \* the value a thread enqueues; values are numbered by call
    snap,        \* the container as the operation in progress read it
    calls,       \* number of enqueue calls so far
    put, got,    \* history: values written to and taken from the container
    raced,       \* history: two container operations overlapped
    fault        \* a dequeue from an empty container

vars == <<m_sem, m_data, pc, op, item, snap, calls, put, got, raced, fault>>

Ops    == {"none", "enqueue", "dequeue", "try", "timed", "clear"}
Labels == {"idle", "released", "enq", "acquire", "acquired", "deq"}

\* Threads that have released a token and not yet added the element, threads
\* that have taken a token and not yet removed one, operations in progress.
Putting == {t \in Threads : pc[t] \in {"released", "enq"}}
Taking  == {t \in Threads : pc[t] \in {"acquired", "deq"}}
Inside  == {t \in Threads : pc[t] \in {"enq", "deq"}}

\* The constructor creates the semaphore with sz tokens and acquires them all.
Init ==
    /\ m_sem = Capa - Capa
    /\ m_data = <<>>
    /\ pc = [t \in Threads |-> "idle"]
    /\ op = [t \in Threads |-> "none"]
    /\ item = [t \in Threads |-> 0]
    /\ snap = [t \in Threads |-> <<>>]
    /\ calls = 0
    /\ put = <<>> /\ got = <<>>
    /\ raced = FALSE
    /\ fault = FALSE

Goto(t, l) == pc' = [pc EXCEPT ![t] = l]

\* The call returns, or clear goes back to its loop; the locals are gone.
Leave(t) ==
    /\ Goto(t, IF op[t] = "clear" /\ pc[t] = "deq" THEN "acquire" ELSE "idle")
    /\ op' = [op EXCEPT ![t] = IF @ = "clear" /\ pc[t] = "deq" THEN @ ELSE "none"]
    /\ item' = [item EXCEPT ![t] = 0]
    /\ snap' = [snap EXCEPT ![t] = <<>>]

\* A container operation starts: it reads the container, and races with any
\* other one in progress.
Enter(t, l) ==
    /\ Goto(t, l)
    /\ snap' = [snap EXCEPT ![t] = m_data]
    /\ raced' = (raced \/ Inside # {})

-----------------------------------------------------------------------------
\* Mutant of Enqueue: no token is released.
EnqueueSilently(t) ==
    /\ ~ fault /\ pc[t] = "idle"
    /\ calls < MaxItems
    /\ calls' = calls + 1
    /\ item' = [item EXCEPT ![t] = calls + 1]
    /\ op' = [op EXCEPT ![t] = "enqueue"]
    /\ Goto(t, "released")
    /\ UNCHANGED <<m_sem, m_data, snap, put, got, raced, fault>>

\* enqueue: m_sem.release(1) comes first,
Enqueue(t) ==
    /\ ~ fault /\ pc[t] = "idle"
    /\ calls < MaxItems
    /\ calls' = calls + 1
    /\ item' = [item EXCEPT ![t] = calls + 1]
    /\ op' = [op EXCEPT ![t] = "enqueue"]
    /\ m_sem' = m_sem + 1
    /\ Goto(t, "released")
    /\ UNCHANGED <<m_data, snap, put, got, raced, fault>>

\* m_data.enqueue(t) after it.
EnqueueBegin(t) ==
    /\ ~ fault /\ pc[t] = "released"
    /\ Enter(t, "enq")
    /\ UNCHANGED <<m_sem, m_data, op, item, calls, put, got, fault>>

\* Mutant of EnqueueEnd: the element goes to the wrong end.
EnqueuePrepends(t) ==
    /\ ~ fault /\ pc[t] = "enq"
    /\ m_data' = <<item[t]>> \o snap[t]
    /\ put' = Append(put, item[t])
    /\ Leave(t)
    /\ UNCHANGED <<m_sem, calls, got, raced, fault>>

EnqueueEnd(t) ==
    /\ ~ fault /\ pc[t] = "enq"
    /\ m_data' = Append(snap[t], item[t])
    /\ put' = Append(put, item[t])
    /\ Leave(t)
    /\ UNCHANGED <<m_sem, calls, got, raced, fault>>

-----------------------------------------------------------------------------
\* dequeue, both tryDequeue and clear start by asking for a token.
Ask(t, kind) ==
    /\ ~ fault /\ pc[t] = "idle"
    /\ op' = [op EXCEPT ![t] = kind]
    /\ Goto(t, "acquire")
    /\ UNCHANGED <<m_sem, m_data, item, snap, calls, put, got, raced, fault>>

Acquire(t) ==
    /\ ~ fault /\ pc[t] = "acquire"
    /\ m_sem > 0
    /\ m_sem' = m_sem - 1
    /\ Goto(t, "acquired")
    /\ UNCHANGED <<m_data, op, item, snap, calls, put, got, raced, fault>>

\* Mutant of GiveUp: the result of tryAcquire is ignored.
GiveUpIgnored(t) ==
    /\ ~ fault /\ pc[t] = "acquire"
    /\ op[t] = "timed" \/ (op[t] \in {"try", "clear"} /\ m_sem = 0)
    /\ Goto(t, "acquired")
    /\ UNCHANGED <<m_sem, m_data, op, item, snap, calls, put, got, raced, fault>>

\* tryAcquire fails: at once, or when ms milliseconds have passed (the answer
\* may then be late for a token that has just been released).
GiveUp(t) ==
    /\ ~ fault /\ pc[t] = "acquire"
    /\ op[t] = "timed" \/ (op[t] \in {"try", "clear"} /\ m_sem = 0)
    /\ Leave(t)
    /\ UNCHANGED <<m_sem, m_data, calls, put, got, raced, fault>>

DequeueBegin(t) ==
    /\ ~ fault /\ pc[t] = "acquired"
    /\ Enter(t, "deq")
    /\ UNCHANGED <<m_sem, m_data, op, item, calls, put, got, fault>>

DequeueEnd(t) ==
    /\ ~ fault /\ pc[t] = "deq"
    /\ \/ /\ snap[t] = <<>>
          /\ fault' = TRUE
          /\ UNCHANGED <<m_data, got>>
       \/ /\ snap[t] # <<>>
          /\ m_data' = Tail(snap[t])
          /\ got' = Append(got, Head(snap[t]))
          /\ UNCHANGED fault
    /\ Leave(t)
    /\ UNCHANGED <<m_sem, calls, put, raced>>

-----------------------------------------------------------------------------
Step(t) ==
    \/ EnqueueBegin(t) \/ EnqueueEnd(t) \/ Acquire(t) \/ GiveUp(t)
    \/ DequeueBegin(t) \/ DequeueEnd(t)

Next ==
    \E t \in Threads :
        \/ Enqueue(t)
        \/ \E kind \in Ops \ {"none", "enqueue"} : Ask(t, kind)
        \/ Step(t)

Spec == Init /\ [][Next]_vars

\* Fairness: a thread inside a call is scheduled, and the semaphore starves no
\* waiter.  Nothing obliges a thread to make a call.
FairSpec == Spec /\ \A t \in Threads : SF_vars(Step(t))

-----------------------------------------------------------------------------
(* Properties                                                               *)

TypeOK ==
    /\ m_sem \in Nat
    /\ m_data \in Seq(Nat)
    /\ pc \in [Threads -> Labels]
    /\ op \in [Threads -> Ops]
    /\ item \in [Threads -> Nat]
    /\ snap \in [Threads -> Seq(Nat)]
    /\ calls \in 0 .. MaxItems
    /\ put \in Seq(Nat) /\ got \in Seq(Nat)
    /\ raced \in BOOLEAN /\ fault \in BOOLEAN
    /\ \A t \in Threads :
          /\ (pc[t] = "idle") <=> (op[t] = "none")
          /\ (pc[t] \in {"released", "enq"}) <=> (op[t] = "enqueue")

\* Every token stands for an element: tokens in the semaphore and tokens taken
\* for a dequeue on its way balance the elements and the enqueues on their way.
TokensMatchItems ==
    ~ raced /\ ~ fault =>
        m_sem + Cardinality(Taking) = Len(m_data) + Cardinality(Putting)

\* First in, first out, nothing lost and nothing delivered twice: what was
\* taken, followed by what is left, is what was added.
Fifo == ~ raced => put = got \o m_data

\* Without a race tokens and elements balance, and elements come out once, in
\* the order in which they went in.
Balanced == TokensMatchItems /\ Fifo

\* The only way a dequeue without a data race meets an empty container is the
\* window between line 32 and line 33, where an enqueue has released its token
\* and not added its element.
EmptyOnlyInWindow == [][fault' /\ ~ fault => raced \/ Putting # {}]_vars

\* A reader that waits while there is an element gets it, or another reader
\* does.  tryDequeue, timed tryDequeue and clear return; clear does although
\* other threads keep the channel busy, since each turn consumes a token.
ReadersServed ==
    \A t \in Threads :
        /\ (pc[t] = "acquire" /\ m_data # <<>>)
              ~> (pc[t] # "acquire" \/ m_data = <<>> \/ raced \/ fault)
        /\ (op[t] \in {"try", "timed", "clear"} /\ pc[t] # "idle") ~> (pc[t] = "idle" \/ fault)

\* examples/objpool shares one pool between a producer and two consumers
\* without any other synchronisation: it relies on acquire() always finding
\* the object its token stands for.
NeverDequeuesEmpty == ~ fault
=============================================================================
