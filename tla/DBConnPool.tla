----------------------------- MODULE DBConnPool -----------------------------
(***************************************************************************)
(* DBConnPool (libqt/db/dbconnpool.cpp): a queue of QSqlDatabase handles    *)
(* behind one std::mutex and one std::condition_variable, used by any       *)
(* number of client threads and by the tasks exec() starts on a             *)
(* QThreadPool.                                                             *)
(*                                                                          *)
(* A critical section that runs from lock to unlock without a loop is one   *)
(* step, guarded by m_lock = NoThread.  The two that loop under the lock    *)
(* (the scan of acquire and the body of setConnNum) hold m_lock over        *)
(* several steps.                                                           *)
(*                                                                          *)
(* Clients follow the protocol of examples/db: they give back a handle that *)
(* acquire() returned to them, once.  They may close any handle they ever   *)
(* saw, at any time: giveback() copies the handle, so its caller keeps one. *)
(***************************************************************************)
EXTENDS Naturals, Sequences, FiniteSets

CONSTANTS
    Threads,     \* client threads
    Conns,       \* identities of database connections
    Nums,        \* arguments of setConnNum
    Factories,   \* factories clients may install, a subset of FactoryKinds
    MaxDrops,    \* bound: how many times an open connection becomes closed
    NoDb,        \* QSqlDatabase(), the invalid handle
    NoThread     \* the owner of a free mutex

\* What a factory returns: an opened connection (examples/db, the open may
\* fail), one that it does not open, or the invalid handle of line 10.
FactoryKinds == {"opens", "unopened", "invalid"}

ASSUME ThreadsAssumption == IsFiniteSet(Threads) /\ NoThread \notin Threads
ASSUME ConnsAssumption   == IsFiniteSet(Conns) /\ NoDb \notin Conns
ASSUME NumsAssumption    == Nums \subseteq Nat
ASSUME FactoriesAssumption == Factories \subseteq FactoryKinds
ASSUME DropsAssumption   == MaxDrops \in Nat
ASSUME OwnersAssumption  == Threads \cap {"pool", "task"} = {}

VARIABLES
    m_conns,     \* QQueue<QSqlDatabase>: idle handles, oldest first
    m_lock,      \* the thread inside a multi-step critical section
    m_threads,   \* is a QThreadPool installed
    m_factory,   \* kind of the installed factory
    pc,          \* where each client thread is
    op,          \* the call it makes: "acquire", "timed" or "exec"
    db,          \* the local variable db of exec
    held,        \* handles the client got from acquire and has not given back
    num,         \* argument of the setConnNum call in progress
    status,      \* state of each connection; "none" is not created or gone
    tasks,       \* handles captured by QThreadPool tasks not yet finished
    drops,       \* number of connections closed so far
    silent       \* history: setConnNum added a handle past a sleeping thread

vars == <<m_conns, m_lock, m_threads, m_factory, pc, op, db, held, num,
          status, tasks, drops, silent>>

Labels == {"client", "check", "waitlock", "sleep", "woken", "expired",
           "takelock", "scan", "execcheck", "give", "resize"}

\* The handles of a queue, and a queue that holds no connection twice.
Elems(s)    == {s[i] : i \in DOMAIN s}
Distinct(s) == \A i, j \in DOMAIN s : i # j /\ s[i] # NoDb => s[i] # s[j]

Idle       == Elems(m_conns)
Sleepers   == {t \in Threads : pc[t] = "sleep"}
Contenders == {t \in Threads : pc[t] \in {"woken", "expired", "takelock", "scan"}}
IsOpen(c)  == c # NoDb /\ status[c] = "open"

-----------------------------------------------------------------------------
\* The constructors: an empty pool, then setConnNum (an ordinary action here).
Init ==
    /\ m_conns = <<>>
    /\ m_lock = NoThread
    /\ m_threads \in BOOLEAN
    /\ m_factory \in Factories
    /\ pc = [t \in Threads |-> "client"]
    /\ op = [t \in Threads |-> "acquire"]
    /\ db = [t \in Threads |-> NoDb]
    /\ held = [t \in Threads |-> {}]
    /\ num = 0
    /\ status = [c \in Conns |-> "none"]
    /\ tasks = {}
    /\ drops = 0
    /\ silent = FALSE

Goto(t, l) == pc' = [pc EXCEPT ![t] = l]

-----------------------------------------------------------------------------
(* acquire(timeout_ms), also as the first line of exec()                    *)

\* acquire(0) and exec() go straight to the second lock, acquire(ms) first
\* looks at the queue.
Call(t, kind) ==
    /\ pc[t] = "client"
    /\ op' = [op EXCEPT ![t] = kind]
    /\ Goto(t, IF kind = "timed" THEN "check" ELSE "takelock")
    /\ UNCHANGED <<m_conns, m_lock, m_threads, m_factory, db, held, num,
                   status, tasks, drops, silent>>

\* m_conns.isEmpty() without the lock: while another thread is inside a
\* critical section that changes the queue the read may return either value.
Check(t) ==
    /\ pc[t] = "check"
    /\ \E empty \in (IF m_lock = NoThread THEN {m_conns = <<>>} ELSE BOOLEAN) :
          Goto(t, IF empty THEN "waitlock" ELSE "takelock")
    /\ UNCHANGED <<m_conns, m_lock, m_threads, m_factory, op, db, held, num,
                   status, tasks, drops, silent>>

\* wait_for: the predicate is evaluated under the lock on entry and after
\* every wake-up; when it is false the thread sleeps and releases the lock.
WaitFor(t) ==
    /\ pc[t] \in {"waitlock", "woken"}
    /\ m_lock = NoThread
    /\ \/ /\ m_conns # <<>>
          /\ Goto(t, "takelock")
          /\ UNCHANGED silent
       \/ /\ m_conns = <<>>
          /\ Goto(t, "sleep")
          /\ silent' = FALSE
    /\ UNCHANGED <<m_conns, m_lock, m_threads, m_factory, op, db, held, num,
                   status, tasks, drops>>

\* The deadline passes, or the thread wakes without a notification.
LeaveSleep(t, l) ==
    /\ pc[t] = "sleep"
    /\ Goto(t, l)
    /\ UNCHANGED <<m_conns, m_lock, m_threads, m_factory, op, db, held, num,
                   status, tasks, drops, silent>>

Expire(t)   == LeaveSleep(t, "expired")
Spurious(t) == LeaveSleep(t, "woken")

\* Mutant of Expired: acquire waits once more instead of returning.
ExpiredWaitsAgain(t) ==
    /\ pc[t] = "expired"
    /\ m_lock = NoThread
    /\ Goto(t, IF m_conns = <<>> THEN "sleep" ELSE "takelock")
    /\ UNCHANGED <<m_conns, m_lock, m_threads, m_factory, op, db, held, num,
                   status, tasks, drops, silent>>

\* After the deadline wait_for returns the predicate: false makes acquire
\* return an invalid handle.
Expired(t) ==
    /\ pc[t] = "expired"
    /\ m_lock = NoThread
    /\ Goto(t, IF m_conns = <<>> THEN "client" ELSE "takelock")
    /\ UNCHANGED <<m_conns, m_lock, m_threads, m_factory, op, db, held, num,
                   status, tasks, drops, silent>>

\* Mutant of Take: the queue is not tested again under the second lock.
TakeUnchecked(t) ==
    /\ pc[t] = "takelock"
    /\ m_lock = NoThread
    /\ Goto(t, "scan")
    /\ m_lock' = t
    /\ UNCHANGED <<m_conns, m_threads, m_factory, op, db, held, num, status,
                   tasks, drops, silent>>

\* The second lock of acquire: the first one was released in between, so the
\* queue may be empty again.
Take(t) ==
    /\ pc[t] = "takelock"
    /\ m_lock = NoThread
    /\ \/ /\ m_conns = <<>>
          /\ Goto(t, IF op[t] = "exec" THEN "execcheck" ELSE "client")
          /\ UNCHANGED m_lock
       \/ /\ m_conns # <<>>
          /\ Goto(t, "scan")
          /\ m_lock' = t
    /\ UNCHANGED <<m_conns, m_threads, m_factory, op, db, held, num, status,
                   tasks, drops, silent>>

\* The scan finds an open connection at the head: acquire returns it.
ScanOpen(t) ==
    /\ pc[t] = "scan"
    /\ IsOpen(Head(m_conns))
    /\ m_conns' = Tail(m_conns)
    /\ m_lock' = NoThread
    /\ IF op[t] = "exec"
       THEN /\ db' = [db EXCEPT ![t] = Head(m_conns)]
            /\ Goto(t, "execcheck")
            /\ UNCHANGED held
       ELSE /\ held' = [held EXCEPT ![t] = @ \cup {Head(m_conns)}]
            /\ Goto(t, "client")
            /\ UNCHANGED db
    /\ UNCHANGED <<m_threads, m_factory, op, num, status, tasks, drops, silent>>

\* The connections that exist once a closed one is removed.
Removed(c) == IF c = NoDb THEN status ELSE [status EXCEPT ![c] = "none"]

\* The scan finds a closed connection: removeDatabase, then whatever the
\* factory returns goes to the tail, open or not, and the scan goes on.
ScanClosed(t, opened) ==
    /\ pc[t] = "scan"
    /\ ~ IsOpen(Head(m_conns))
    /\ LET removed == Removed(Head(m_conns))
       IN  IF m_factory = "invalid"
           THEN /\ ~ opened
                /\ m_conns' = Append(Tail(m_conns), NoDb)
                /\ status' = removed
           ELSE /\ opened => m_factory = "opens"
                /\ \E c \in Conns :
                      /\ removed[c] = "none"
                      /\ m_conns' = Append(Tail(m_conns), c)
                      /\ status' = [removed EXCEPT ![c] =
                                      IF opened THEN "open" ELSE "closed"]
    /\ UNCHANGED <<m_lock, m_threads, m_factory, pc, op, db, held, num, tasks,
                   drops, silent>>

-----------------------------------------------------------------------------
(* exec(sql, fn) after its acquire()                                        *)

\* The connection is checked again, outside the lock: if it is closed by now
\* exec reports an error and returns, and nobody gives the handle back.
ExecCheck(t) ==
    /\ pc[t] = "execcheck"
    /\ \/ /\ ~ IsOpen(db[t])
          /\ db' = [db EXCEPT ![t] = NoDb]
          /\ Goto(t, "client")
          /\ UNCHANGED tasks
       \/ /\ IsOpen(db[t]) /\ ~ m_threads
          /\ Goto(t, "give")
          /\ UNCHANGED <<db, tasks>>
       \/ /\ IsOpen(db[t]) /\ m_threads
          /\ tasks' = tasks \cup {db[t]}
          /\ db' = [db EXCEPT ![t] = NoDb]
          /\ Goto(t, "client")
    /\ UNCHANGED <<m_conns, m_lock, m_threads, m_factory, op, held, num, status,
                   drops, silent>>

-----------------------------------------------------------------------------
(* giveback(db), by a client, at the end of an inline exec, and by a task   *)

\* Mutant of NotifyOne: nobody is notified.
NotifyNone(moved) == pc' = moved

\* m_cond.notify_one(), together with the move of thread t to label l.
NotifyOne(moved) ==
    IF Sleepers = {} THEN pc' = moved
    ELSE \E s \in Sleepers : pc' = [moved EXCEPT ![s] = "woken"]

\* giveback under the lock: enqueue the handle and wake one sleeper.
Enqueue(c, moved) ==
    /\ m_lock = NoThread
    /\ m_conns' = Append(m_conns, c)
    /\ NotifyOne(moved)
    /\ UNCHANGED <<m_lock, m_threads, m_factory, op, num, status, drops, silent>>

Giveback(t, c) ==
    /\ pc[t] = "client"
    /\ c \in held[t]
    /\ held' = [held EXCEPT ![t] = @ \ {c}]
    /\ Enqueue(c, pc)
    /\ UNCHANGED <<db, tasks>>

\* Mutant of ExecGiveback: an inline exec keeps its connection.
ExecKeeps(t) ==
    /\ pc[t] = "give"
    /\ db' = [db EXCEPT ![t] = NoDb]
    /\ Goto(t, "client")
    /\ UNCHANGED <<m_conns, m_lock, m_threads, m_factory, op, held, num, status,
                   tasks, drops, silent>>

ExecGiveback(t) ==
    /\ pc[t] = "give"
    /\ db' = [db EXCEPT ![t] = NoDb]
    /\ Enqueue(db[t], [pc EXCEPT ![t] = "client"])
    /\ UNCHANGED <<held, tasks>>

\* Mutant of TaskGiveback: the task returns early, without giveback.
TaskKeeps(c) ==
    /\ c \in tasks
    /\ tasks' = tasks \ {c}
    /\ UNCHANGED <<m_conns, m_lock, m_threads, m_factory, pc, op, db, held, num,
                   status, drops, silent>>

TaskGiveback(c) ==
    /\ c \in tasks
    /\ tasks' = tasks \ {c}
    /\ Enqueue(c, pc)
    /\ UNCHANGED <<db, held>>

-----------------------------------------------------------------------------
(* setConnNum(num), setFactoryFn(fn), setThreadPool(threads)                *)

\* Bound: a call that would need more connection identities than Conns has
\* left is not made.  Each invalid handle in the queue reserves one.
Enough(n) ==
    Len(m_conns) < n =>
        (n - Len(m_conns)) + Cardinality({i \in DOMAIN m_conns : m_conns[i] = NoDb})
            =< Cardinality({c \in Conns : status[c] = "none"})

SetConnNum(t, n) ==
    /\ pc[t] = "client"
    /\ m_lock = NoThread
    /\ Enough(n)
    /\ m_lock' = t
    /\ num' = n
    /\ Goto(t, "resize")
    /\ UNCHANGED <<m_conns, m_threads, m_factory, op, db, held, status, tasks,
                   drops, silent>>

\* One turn of the growing loop.  Only idle handles count towards num, and
\* nobody is notified.
Grow(t) ==
    /\ pc[t] = "resize"
    /\ Len(m_conns) < num
    /\ m_factory # "invalid"
    /\ \E c \in Conns :
          /\ status[c] = "none"
          /\ status' = [status EXCEPT ![c] = "open"]
          /\ m_conns' = Append(m_conns, c)
    /\ silent' = (silent \/ Sleepers # {})
    /\ UNCHANGED <<m_lock, m_threads, m_factory, pc, op, db, held, num, tasks, drops>>

\* The factory's connection cannot be opened: an error signal and another
\* turn, with the lock still held.
GrowFails(t) ==
    /\ pc[t] = "resize"
    /\ Len(m_conns) < num
    /\ UNCHANGED vars

\* Mutants of Shrink: another connection than the dequeued one is closed, none
\* is closed.
ShrinkClosesOther(t) ==
    /\ pc[t] = "resize"
    /\ Len(m_conns) > num
    /\ m_conns' = Tail(m_conns)
    /\ status' = Removed(m_conns[Len(m_conns)])
    /\ UNCHANGED <<m_lock, m_threads, m_factory, pc, op, db, held, num, tasks,
                   drops, silent>>

ShrinkForgets(t) ==
    /\ pc[t] = "resize"
    /\ Len(m_conns) > num
    /\ m_conns' = Tail(m_conns)
    /\ UNCHANGED <<m_lock, m_threads, m_factory, pc, op, db, held, num, status, tasks,
                   drops, silent>>

Shrink(t) ==
    /\ pc[t] = "resize"
    /\ Len(m_conns) > num
    /\ m_conns' = Tail(m_conns)
    /\ status' = Removed(Head(m_conns))
    /\ UNCHANGED <<m_lock, m_threads, m_factory, pc, op, db, held, num, tasks,
                   drops, silent>>

Resized(t) ==
    /\ pc[t] = "resize"
    /\ Len(m_conns) = num
    /\ m_lock' = NoThread
    /\ num' = 0
    /\ Goto(t, "client")
    /\ UNCHANGED <<m_conns, m_threads, m_factory, op, db, held, status, tasks,
                   drops, silent>>

SetFactoryFn(t) ==
    /\ pc[t] = "client"
    /\ m_lock = NoThread
    /\ m_factory' \in Factories
    /\ UNCHANGED <<m_conns, m_lock, m_threads, pc, op, db, held, num, status, tasks,
                   drops, silent>>

SetThreadPool(t) ==
    /\ pc[t] = "client"
    /\ m_lock = NoThread
    /\ m_threads' \in BOOLEAN
    /\ UNCHANGED <<m_conns, m_lock, m_factory, pc, op, db, held, num, status, tasks,
                   drops, silent>>

Configure(t) == SetFactoryFn(t) \/ SetThreadPool(t)

-----------------------------------------------------------------------------
\* A connection is closed: by its server, or through any copy of its handle.
Drop(c) ==
    /\ drops < MaxDrops
    /\ status[c] = "open"
    /\ status' = [status EXCEPT ![c] = "closed"]
    /\ drops' = drops + 1
    /\ UNCHANGED <<m_conns, m_lock, m_threads, m_factory, pc, op, db, held, num,
                   tasks, silent>>

Next ==
    \/ \E t \in Threads :
          \/ \E kind \in {"acquire", "timed", "exec"} : Call(t, kind)
          \/ Check(t) \/ WaitFor(t) \/ Expire(t) \/ Spurious(t) \/ Expired(t)
          \/ Take(t) \/ ScanOpen(t)
          \/ \E opened \in BOOLEAN : ScanClosed(t, opened)
          \/ ExecCheck(t) \/ ExecGiveback(t)
          \/ \E c \in Conns : Giveback(t, c)
          \/ \E n \in Nums : SetConnNum(t, n)
          \/ Grow(t) \/ GrowFails(t) \/ Shrink(t) \/ Resized(t) \/ Configure(t)
    \/ \E c \in Conns : TaskGiveback(c) \/ Drop(c)

Spec == Init /\ [][Next]_vars

\* What thread t does inside a call whenever the lock allows it.
Step(t) ==
    \/ Check(t) \/ WaitFor(t) \/ Expired(t) \/ Take(t) \/ ScanOpen(t)
    \/ ExecCheck(t) \/ ExecGiveback(t) \/ Shrink(t) \/ Resized(t)

\* Fairness.  Threads are scheduled and the mutex starves nobody, the deadline
\* of wait_for is absolute (a spurious wake-up does not extend it), a pool
\* thread runs every task, and a factory that opens connections does not fail
\* for ever.
Fairness ==
    /\ \A t \in Threads :
          /\ SF_vars(Step(t))
          /\ SF_vars(Expire(t))
          /\ WF_vars(Grow(t) \/ ScanClosed(t, TRUE))
    /\ \A c \in Conns : SF_vars(TaskGiveback(c))

FairSpec == Spec /\ Fairness

-----------------------------------------------------------------------------
(* Properties                                                               *)

TypeOK ==
    /\ m_conns \in Seq(Conns \cup {NoDb})
    /\ m_lock \in Threads \cup {NoThread}
    /\ m_threads \in BOOLEAN
    /\ m_factory \in FactoryKinds
    /\ pc \in [Threads -> Labels]
    /\ op \in [Threads -> {"acquire", "timed", "exec"}]
    /\ db \in [Threads -> Conns \cup {NoDb}]
    /\ held \in [Threads -> SUBSET Conns]
    /\ num \in Nat
    /\ status \in [Conns -> {"none", "open", "closed"}]
    /\ tasks \in SUBSET Conns
    /\ drops \in 0 .. MaxDrops
    /\ silent \in BOOLEAN
    /\ \A t \in Threads :
          /\ db[t] # NoDb => pc[t] \in {"execcheck", "give"}
          /\ pc[t] = "give" => db[t] # NoDb

\* Two threads are never inside the critical sections that loop, and the scan
\* of acquire never runs on an empty queue (QQueue::dequeue would assert): the
\* test of line 114 and the one-for-one replacement of line 123 guarantee it.
ScanIsSafe ==
    /\ \A t \in Threads : pc[t] \in {"scan", "resize"} <=> m_lock = t
    /\ \A t \in Threads : pc[t] = "scan" => m_conns # <<>>

\* Every variable has its type, a handle is in exec's db exactly where exec works
\* on it, and the looping critical sections are exclusive and never scan an
\* empty queue.
TypeInv == TypeOK /\ ScanIsSafe

\* A connection has one owner: it is in the queue once, or in the hands of one
\* client, or in one exec, or in one task.  This is what lets exec run a query
\* on it without a lock (lines 80 and 90).
ExclusiveOwnership ==
    /\ Distinct(m_conns)
    /\ \A t \in Threads :
          /\ held[t] \cap (Idle \cup tasks) = {}
          /\ db[t] # NoDb => db[t] \notin Idle \cup tasks
          /\ \A u \in Threads :
                /\ t # u => held[t] \cap held[u] = {}
                /\ t # u /\ db[t] # NoDb => db[t] # db[u]
                /\ db[t] # NoDb => db[t] \notin held[u]
    /\ Idle \cap tasks = {}

\* Whoever owns a connection owns one that exists: setConnNum closes, and
\* acquire removes, only connections that are in nobody else's hands.
OwnersExist ==
    \A c \in Conns :
        status[c] = "none" =>
            /\ c \notin Idle \cup tasks
            /\ \A t \in Threads : c \notin held[t] /\ db[t] # c

\* No open connection is lost: on every path of exec and setConnNum an open
\* connection is in the queue, with a client, in an exec or in a task.
NoOpenConnLost ==
    \A c \in Conns :
        status[c] = "open" =>
            c \in Idle \cup tasks \/ \E t \in Threads : c \in held[t] \/ db[t] = c

\* A connection that exists has one owner, an owned connection exists, and an
\* open one is owned, whatever acquire, exec, the tasks and setConnNum do to it.
Ownership == ExclusiveOwnership /\ OwnersExist /\ NoOpenConnLost

\* No lost wake-up: while threads sleep in wait_for, every idle handle has a
\* thread on its way to take it, unless setConnNum added it (line 51 notifies
\* nobody).
NoLostWakeup ==
    ~ silent /\ Sleepers # {} => Len(m_conns) =< Cardinality(Contenders)

\* The number of handles in circulation.
Population ==
    Len(m_conns) + Cardinality(tasks) + Cardinality({t \in Threads : db[t] # NoDb})
      + Cardinality({h \in Threads \X Conns : h[2] \in held[h[1]]})

\* The pool neither leaks nor invents handles: their number changes only in
\* setConnNum, and when exec finds that the connection it just acquired has
\* been closed (lines 71 to 75), which loses one.
PopulationKept ==
    [][ \/ Population' = Population
        \/ \E t \in Threads : m_lock = t /\ pc[t] = "resize"
        \/ /\ Population' = Population - 1
           /\ \E t \in Threads : pc[t] = "execcheck" /\ ~ IsOpen(db[t]) /\ db'[t] # db[t] ]_vars

\* The owners of a connection are where its handles are.
Owner == [c \in Conns |->
            (IF c \in Idle THEN {"pool"} ELSE {}) \cup (IF c \in tasks THEN {"task"} ELSE {})
            \cup {t \in Threads : c \in held[t] \/ db[t] = c}]

Ledger == INSTANCE ConnLedger WITH owner <- Owner

\* The pool keeps the promise of ConnLedger: it lends only open connections, to
\* one thread at a time, lets threads and tasks return them in any state,
\* removes only what is idle, and loses only what exec found closed.
ImplementsLedger == Ledger!Spec

\* Every call returns, acquire(ms) too although it may find the pool empty
\* twice, and setConnNum although it opens connections under the lock.
CallsReturn == \A t \in Threads : (pc[t] # "client") ~> (pc[t] = "client")

\* A connection that exec hands to a task comes back to the queue, whether the
\* query succeeds or not.
TasksGiveBack == \A c \in Conns : (c \in tasks) ~> (c \in Idle)
=============================================================================
