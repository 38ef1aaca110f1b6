----------------------------- MODULE TcpClient -----------------------------
(***************************************************************************)
(* TcpClient and NetHandler (libqt/net/tcp/tcpclient.cpp, net/nethandler):  *)
(* the life of a connection.  dial() posts a task to a QThreadPool; the     *)
(* task builds a QEventLoop and a NetHandler, wires signals and runs the    *)
(* loop.  dial(ms) and close(ms) wait in a nested event loop of the calling *)
(* thread, with a timer.  The two threads meet in the signals finish (user  *)
(* to task), connected and disconnected (task to user), all queued across   *)
(* threads, and in m_state, written by the task and read by the user.       *)
(*                                                                          *)
(* One user thread makes the calls, as in examples/tcp.  A task and what it *)
(* owns are named by the number of the dial that posted it.  The variants   *)
(* of dial with a message factory differ only in which writes reach them.   *)
(***************************************************************************)
EXTENDS Naturals, FiniteSets

CONSTANTS
    MaxDials,    \* bound: number of dial calls
    PoolSize,    \* maxThreadCount of the thread pool
    Kinds        \* sessions dialled: "bytes" and / or "msg"

ASSUME TcpDials == MaxDials \in Nat
ASSUME TcpPool  == PoolSize \in Nat \ {0}
ASSUME TcpKinds == Kinds \subseteq {"bytes", "msg"}

Handlers == 1 .. MaxDials
States   == {"Unconnected", "Connecting", "Connected", "Closing"}

VARIABLES
    m_state,     \* TcpClient::m_state
    upc,         \* where the user thread is
    call,        \* the waiting call it is in, or was in last: "dial", "close"
    uquit,       \* a quit() is queued for the user's nested loop
    owed,        \* slots a finish() emission in progress has still to invoke
    dials,       \* number of dials so far
    kind,        \* kind of each session
    hpc,         \* where each task is
    sock,        \* state of each QAbstractSocket
    news,        \* a change of sock whose slots have still to run: "state", or
                 \* with connected() "dial", with disconnected() "close"; or "none"
    pending,     \* unsent bytes in the socket's write buffer
    evq,         \* queued slot calls in the task's thread: "loop", "h"
    told,        \* history: finish() reached this task's loop
    missed       \* history: the loop ended before h.quit() was queued

vars == <<m_state, upc, call, uquit, owed, dials, kind, hpc, sock, news, pending, evq, told, missed>>
user == <<upc, call, uquit, owed, dials, kind>>
task == <<sock, news, pending, missed>>

\* Tasks that occupy a thread of the pool.
Active == {h \in Handlers : hpc[h] \in {"looped", "built", "quittable", "running", "ending"}}

Init ==
    /\ m_state = "Unconnected"
    /\ upc = "idle" /\ call = "none" /\ uquit = FALSE
    /\ owed = [h \in Handlers |-> {}]
    /\ dials = 0
    /\ kind = [h \in Handlers |-> "bytes"]
    /\ hpc = [h \in Handlers |-> "none"]
    /\ sock = [h \in Handlers |-> "Unconnected"]
    /\ news = [h \in Handlers |-> "none"]
    /\ pending = [h \in Handlers |-> FALSE]
    /\ evq = [h \in Handlers |-> {}]
    /\ told = [h \in Handlers |-> FALSE]
    /\ missed = [h \in Handlers |-> FALSE]

-----------------------------------------------------------------------------
(* The user's calls                                                         *)

\* m_threads->start(task): the whole of dial(ip, port), the first line of
\* dial(ip, port, ms).
Post(k) ==
    /\ upc = "idle"
    /\ dials < MaxDials
    /\ dials' = dials + 1
    /\ kind' = [kind EXCEPT ![dials'] = k]
    /\ hpc' = [hpc EXCEPT ![dials'] = "queued"]
    /\ UNCHANGED <<m_state, uquit, owed, task, evq, told>>

Dial(k)     == Post(k) /\ UNCHANGED <<upc, call>>
DialWait(k) == Post(k) /\ upc' = "posted" /\ call' = "dial"

\* connected() is connected to the nested loop only after the task was posted,
\* disconnected() only after finish() was emitted.
Listen ==
    /\ upc = "posted"
    /\ upc' = "waiting"
    /\ uquit' = FALSE
    /\ UNCHANGED <<m_state, call, owed, dials, kind, hpc, task, evq, told>>

\* The signal's quit() is delivered; the timer is stopped with it.
Quit ==
    /\ upc = "waiting" /\ uquit
    /\ upc' = "idle"
    /\ uquit' = FALSE
    /\ UNCHANGED <<m_state, call, owed, dials, kind, hpc, task, evq, told>>

\* emit finish(): the slots connected at this moment will be invoked, quit()
\* of the loop before quit() of the handler.
EmitFinish ==
    /\ owed' = [h \in Handlers |-> CASE hpc[h] \in {"looped", "built"} -> {"loop"}
                                     [] hpc[h] \in {"quittable", "running", "ending"} -> {"loop", "h"}
                                     [] OTHER -> {}]
    /\ upc' = "emitting"

\* Mutant of Timeout: close(ms) has no timer.
TimeoutOfDialOnly ==
    /\ upc = "waiting" /\ call = "dial"
    /\ EmitFinish
    /\ uquit' = FALSE
    /\ UNCHANGED <<m_state, call, dials, kind, hpc, task, evq, told>>

\* The timer of dial(ms) emits finish(), the timer of close(ms) only quits.
Timeout ==
    /\ upc = "waiting"
    /\ IF call = "dial" THEN EmitFinish ELSE upc' = "idle" /\ UNCHANGED owed
    /\ uquit' = FALSE
    /\ UNCHANGED <<m_state, call, dials, kind, hpc, task, evq, told>>

Close ==
    /\ upc = "idle"
    /\ EmitFinish
    /\ call' = "close"
    /\ UNCHANGED <<m_state, uquit, dials, kind, hpc, task, evq, told>>

\* Mutant of PostQuit: the handler's quit() is connected before the loop's.
PostQuitHandlerFirst(h) ==
    /\ upc = "emitting"
    /\ owed[h] # {}
    /\ LET slot == IF "h" \in owed[h] THEN "h" ELSE "loop"
       IN  /\ owed' = [owed EXCEPT ![h] = @ \ {slot}]
           /\ IF hpc[h] = "done" THEN UNCHANGED <<evq, told>>
              ELSE /\ evq' = [evq EXCEPT ![h] = @ \cup {slot}]
                   /\ told' = [told EXCEPT ![h] = TRUE]
    /\ UNCHANGED <<m_state, upc, call, uquit, dials, kind, hpc, task>>

\* The emission queues one slot call; receivers that are gone are skipped.
PostQuit(h) ==
    /\ upc = "emitting"
    /\ owed[h] # {}
    /\ LET slot == IF "loop" \in owed[h] THEN "loop" ELSE "h"
       IN  /\ owed' = [owed EXCEPT ![h] = @ \ {slot}]
           /\ IF hpc[h] = "done" THEN UNCHANGED <<evq, told>>
              ELSE /\ evq' = [evq EXCEPT ![h] = @ \cup {slot}]
                   /\ told' = [told EXCEPT ![h] = TRUE]
    /\ UNCHANGED <<m_state, upc, call, uquit, dials, kind, hpc, task>>

\* The emission is over: dial(ms) returns, close(ms) goes on to wait.
Emitted ==
    /\ upc = "emitting"
    /\ \A h \in Handlers : owed[h] = {}
    /\ upc' = IF call = "dial" THEN "idle" ELSE "posted"
    /\ UNCHANGED <<m_state, call, uquit, owed, dials, kind, hpc, task, evq, told>>

\* write() and writeMsg() run NetHandler::consumeBytes in the user's thread,
\* for every session of their kind: buffered while connecting, and what flush()
\* does not send stays buffered.
Write(k) ==
    /\ upc = "idle"
    /\ LET heard == {h \in Handlers : hpc[h] \in {"running", "ending"} /\ kind[h] = k}
       IN  \E full \in SUBSET heard :
              pending' = [h \in Handlers |->
                  \/ pending[h]
                  \/ h \in full /\ sock[h] = "Connected"
                  \/ h \in heard /\ sock[h] = "Connecting"]
    /\ UNCHANGED <<m_state, user, hpc, sock, news, evq, told, missed>>

-----------------------------------------------------------------------------
(* The task                                                                 *)

Move(h, from, to) == hpc[h] = from /\ hpc' = [hpc EXCEPT ![h] = to]

\* A pool thread runs the task: the loop, and finish() to loop.quit().
Start(h) ==
    /\ Move(h, "queued", "looped")
    /\ Cardinality(Active) < PoolSize
    /\ UNCHANGED <<m_state, user, task, evq, told>>

\* NetHandler's constructor calls connectToHost.  Whatever state the socket
\* reaches before it returns, connected or failed included, is signalled now,
\* when TcpClient has connected no slot.
Build(h) ==
    /\ Move(h, "looped", "built")
    /\ \E s \in {"Connecting", "Connected", "Unconnected"} : sock' = [sock EXCEPT ![h] = s]
    /\ UNCHANGED <<m_state, user, news, pending, evq, told, missed>>

\* finish() to h.quit().
WireQuit(h) ==
    /\ Move(h, "built", "quittable")
    /\ UNCHANGED <<m_state, user, task, evq, told>>

\* The other connections, then loop.exec().
WireRest(h) ==
    /\ Move(h, "quittable", "running")
    /\ UNCHANGED <<m_state, user, task, evq, told>>

\* The socket changes its state and begins to emit; its slots run next.
Change(h, s, n) ==
    /\ sock' = [sock EXCEPT ![h] = s]
    /\ news' = [news EXCEPT ![h] = n]

\* The thread is inside an emission, or between the two state changes of a
\* disconnect: nothing else runs in it.
Busy(h) == news[h] # "none" \/ (sock[h] = "Closing" /\ ~ pending[h])

\* The event loop of a task that is not inside a slot.
Idle(h) == hpc[h] = "running" /\ ~ Busy(h)

\* Mutant of Signal: either signal ends either wait.
SignalAny(c) == uquit' = (uquit \/ upc = "waiting")

\* A signal for the user's nested loop: queued if it is being waited for.
Signal(c) == uquit' = (uquit \/ (upc = "waiting" /\ call = c))

\* The slots of a state change, in the task's thread: NetHandler and TcpClient
\* pass the state on to m_state and then connected() or disconnected(), if it is
\* one of them, to the user's loop.
PassOn(h) ==
    /\ news[h] # "none"
    /\ m_state' = sock[h]
    /\ Signal(news[h])
    /\ news' = [news EXCEPT ![h] = "none"]
    /\ UNCHANGED <<upc, call, owed, dials, kind, hpc, sock, pending, evq, told, missed>>

Connected(h) ==
    /\ Idle(h) /\ sock[h] = "Connecting"
    /\ Change(h, "Connected", "dial")
    /\ UNCHANGED <<m_state, user, hpc, pending, evq, told, missed>>

\* The connection is refused or times out; no slot is connected to the error.
Refused(h) ==
    /\ Idle(h) /\ sock[h] = "Connecting"
    /\ Change(h, "Unconnected", "state")
    /\ pending' = [pending EXCEPT ![h] = FALSE]
    /\ UNCHANGED <<m_state, user, hpc, evq, told, missed>>

\* Mutant of RemoteClosed: the state change is not passed on.
RemoteClosedUnseen(h) ==
    /\ Idle(h) /\ sock[h] = "Connected"
    /\ Change(h, "Unconnected", "none")
    /\ pending' = [pending EXCEPT ![h] = FALSE]
    /\ UNCHANGED <<m_state, user, hpc, evq, told, missed>>

\* The peer closed: the socket drops its buffer and disconnects.
RemoteClosed(h) ==
    /\ Idle(h) /\ sock[h] = "Connected"
    /\ Change(h, "Closing", "state")
    /\ pending' = [pending EXCEPT ![h] = FALSE]
    /\ UNCHANGED <<m_state, user, hpc, evq, told, missed>>

\* The second half of a disconnect with nothing left to send.
Disconnected(h) ==
    /\ news[h] = "none" /\ sock[h] = "Closing" /\ ~ pending[h]
    /\ hpc[h] \in {"running", "ending"}
    /\ Change(h, "Unconnected", "close")
    /\ UNCHANGED <<m_state, user, hpc, pending, evq, told, missed>>

Flushed(h) ==
    /\ Idle(h) /\ sock[h] = "Connected" /\ pending[h]
    /\ pending' = [pending EXCEPT ![h] = FALSE]
    /\ UNCHANGED <<m_state, user, hpc, sock, news, evq, told, missed>>

\* Mutant of HandleQuit: the loop ends only after the handler has been told.
HandleQuitOfHandler(h) ==
    /\ Idle(h) /\ {"loop", "h"} \subseteq evq[h]
    /\ IF sock[h] = "Connected" THEN Change(h, "Closing", "state") ELSE UNCHANGED <<sock, news>>
    /\ evq' = [evq EXCEPT ![h] = {}]
    /\ hpc' = [hpc EXCEPT ![h] = "ending"]
    /\ UNCHANGED <<m_state, user, pending, told, missed>>

\* The loop handles what is queued and ends.  NetHandler::quit(), if it is among
\* that, is disconnectFromHost(): a socket that is still connecting only notes
\* the wish, one with unsent bytes stays in Closing.
HandleQuit(h) ==
    /\ Idle(h) /\ "loop" \in evq[h]
    /\ IF "h" \in evq[h] /\ sock[h] = "Connected"
       THEN Change(h, "Closing", "state")
       ELSE UNCHANGED <<sock, news>>
    /\ missed' = [missed EXCEPT ![h] = "h" \notin evq[h]]
    /\ evq' = [evq EXCEPT ![h] = {}]
    /\ hpc' = [hpc EXCEPT ![h] = "ending"]
    /\ UNCHANGED <<m_state, user, pending, told>>

\* NetHandler's destructor gives a connected socket 100 ms for its buffer, in
\* which the peer may still be seen to close.
LastClosed(h) ==
    /\ hpc[h] = "ending" /\ ~ Busy(h) /\ sock[h] = "Connected" /\ pending[h]
    /\ Change(h, "Closing", "state")
    /\ pending' = [pending EXCEPT ![h] = FALSE]
    /\ UNCHANGED <<m_state, user, hpc, evq, told, missed>>

\* The handler and its socket are gone: what is queued for it is dropped, and no
\* state change is passed on any more.
End(h) ==
    /\ ~ Busy(h) /\ Move(h, "ending", "done")
    /\ evq' = [evq EXCEPT ![h] = {}]
    /\ sock' = [sock EXCEPT ![h] = "Unconnected"]
    /\ pending' = [pending EXCEPT ![h] = FALSE]
    /\ UNCHANGED <<m_state, user, news, told, missed>>

-----------------------------------------------------------------------------
Task(h) ==
    \/ Start(h) \/ Build(h) \/ WireQuit(h) \/ WireRest(h) \/ HandleQuit(h)
    \/ PassOn(h) \/ Disconnected(h) \/ End(h)
Net(h)  == Connected(h) \/ Refused(h) \/ RemoteClosed(h) \/ Flushed(h) \/ LastClosed(h)
Wait    == Listen \/ Quit \/ Timeout \/ Emitted \/ \E h \in Handlers : PostQuit(h)

Next ==
    \/ \E k \in Kinds : Dial(k) \/ DialWait(k) \/ Write(k)
    \/ Close
    \/ Wait
    \/ \E h \in Handlers : Task(h) \/ Net(h)

Spec == Init /\ [][Next]_vars

\* Fairness: both threads are scheduled and timers expire.  The network owes
\* nothing, and the user need not call.
FairSpec ==
    /\ Spec
    /\ WF_vars(Wait)
    /\ \A h \in Handlers : WF_vars(Task(h))

-----------------------------------------------------------------------------
(* Properties                                                               *)

\* A slot call is queued only for objects that exist: h.quit() never without
\* loop.quit() before it (a handler told to disconnect also ends its loop),
\* and only for a task that was told.
QuitsAreOrdered ==
    \A h \in Handlers :
        /\ "h" \in evq[h] => "loop" \in evq[h] \/ hpc[h] = "ending"
        /\ evq[h] # {} => h \in Active /\ told[h]

\* state() says Connected only on the word of a session that can still take it
\* back: its socket is connected, or its slots for what happened since are about
\* to run.  The one exception is a session whose loop ended before h.quit() was
\* queued: its socket dies connected and state() stays Connected.
ConnectedIsReal ==
    m_state = "Connected" =>
        \E h \in Handlers :
            \/ hpc[h] \in {"running", "ending"} /\ (sock[h] = "Connected" \/ news[h] # "none")
            \/ hpc[h] = "done" /\ missed[h]

\* With one session, a close(ms) that ends before its timer leaves the client
\* unconnected, and a dial(ms) that does was not told to finish.
SignalsTellTheTruth ==
    [][ Quit /\ dials = 1 =>
          IF call = "close" THEN m_state = "Unconnected" ELSE ~ told[1] ]_vars

\* dial(ms) and close(ms) return, although connected() and disconnected() can
\* come before anybody listens.
CallsReturn == (upc # "idle") ~> (upc = "idle")

\* A task that finish() reached ends and frees its thread of the pool, even one
\* that was reached while it was still wiring its signals.
ToldTasksEnd == \A h \in Handlers : told[h] ~> (hpc[h] = "done")

\* A session that serves the user: its loop runs and nobody told it to quit.
Usable(h) == hpc[h] = "running" /\ ~ told[h]

\* examples/tcp/main.cpp takes state() = ConnectedState after dial(ms) for
\* success and goes on to write: there is then a session that serves it.
DialSuccessIsUsable ==
    [][ upc # "idle" /\ upc' = "idle" /\ call = "dial" /\ m_state' = "Connected"
          => \E h \in Handlers : Usable(h)' ]_vars
=============================================================================
