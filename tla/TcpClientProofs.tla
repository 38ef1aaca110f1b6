--------------------------- MODULE TcpClientProofs ---------------------------
(***************************************************************************)
(* Safety of the life of a connection, for any number of dials and any size *)
(* of the thread pool.                                                      *)
(***************************************************************************)
EXTENDS TcpClient, TLAPS

\* A task that finish() can reach.
Working == {"looped", "built", "quittable", "running", "ending"}

TypeOK ==
    /\ m_state \in States
    /\ upc \in {"idle", "posted", "waiting", "emitting"}
    /\ call \in {"none", "dial", "close"}
    /\ call = "none" => upc = "idle"
    /\ uquit \in BOOLEAN
    /\ owed \in [Handlers -> SUBSET {"loop", "h"}]
    /\ dials \in 0 .. MaxDials
    /\ hpc \in [Handlers -> Working \cup {"none", "queued", "done"}]
    /\ sock \in [Handlers -> States]
    /\ news \in [Handlers -> {"none", "state", "dial", "close"}]
    /\ evq \in [Handlers -> SUBSET {"loop", "h"}]
    /\ told \in [Handlers -> BOOLEAN]
    /\ missed \in [Handlers -> BOOLEAN]
    /\ \A h \in Handlers : h > dials => hpc[h] = "none"

\* What an emission of finish() still owes, it owes to tasks that have a loop;
\* h.quit() alone is owed only where loop.quit() is queued, or was handled.
Owing ==
    \A h \in Handlers :
        /\ owed[h] # {} => hpc[h] \in Working \cup {"done"}
        /\ owed[h] = {"h"} => "loop" \in evq[h] \/ hpc[h] \in {"ending", "done"}
        /\ told[h] => hpc[h] \in Working \cup {"done"}

\* What the slots have still to pass on is a state the socket is still in, and a
\* session that ends connected was not told to disconnect.
Reporting ==
    \A h \in Handlers :
        /\ news[h] # "none" => hpc[h] \in {"running", "ending"}
        /\ news[h] = "dial" => sock[h] = "Connected"
        /\ news[h] = "close" => sock[h] = "Unconnected"
        /\ hpc[h] = "ending" /\ sock[h] = "Connected" => missed[h]

\* A quit() queued for close(ms) comes from a socket that is closed for good, and
\* a first dial(ms) that waits has told nobody to finish.
QuitIsDeserved ==
    dials = 1 /\ upc \in {"posted", "waiting"} =>
        /\ call = "dial" => ~ told[1]
        /\ call = "close" /\ upc = "waiting" /\ uquit =>
              /\ m_state = "Unconnected" /\ sock[1] = "Unconnected" /\ news[1] = "none"
              /\ hpc[1] \in {"running", "ending", "done"}

TcpInv ==
    TypeOK /\ Owing /\ Reporting /\ QuitIsDeserved /\ QuitsAreOrdered /\ ConnectedIsReal

-----------------------------------------------------------------------------

LEMMA TcpInit == Init => TcpInv
<1> SUFFICES ASSUME Init PROVE TcpInv
  OBVIOUS
<1>0. told \in [Handlers -> BOOLEAN] /\ missed \in [Handlers -> BOOLEAN] BY Zenon DEF Init
<1>1. TypeOK
  <2>1. dials \in 0 .. MaxDials /\ \A h \in Handlers : hpc[h] = "none" BY TcpDials DEF Init
  <2>2. /\ owed \in [Handlers -> SUBSET {"loop", "h"}] /\ evq \in [Handlers -> SUBSET {"loop", "h"}]
        /\ hpc \in [Handlers -> Working \cup {"none", "queued", "done"}]
    BY DEF Init
  <2>3. sock \in [Handlers -> States] /\ news \in [Handlers -> {"none", "state", "dial", "close"}]
    BY DEF Init, States
  <2>4. QED BY <1>0, <2>1, <2>2, <2>3 DEF Init, TypeOK, States
<1>2. Owing /\ Reporting /\ QuitIsDeserved /\ QuitsAreOrdered /\ ConnectedIsReal
  BY DEF Init, Owing, Reporting, QuitIsDeserved, QuitsAreOrdered, ConnectedIsReal, Handlers
<1>3. QED BY <1>1, <1>2 DEF TcpInv

\* emit finish() owes quit() of the loop wherever it owes anything.
LEMMA EmitOwes ==
    ASSUME TypeOK, EmitFinish
    PROVE  /\ owed' \in [Handlers -> SUBSET {"loop", "h"}]
           /\ \A h \in Handlers : owed'[h] # {} => hpc[h] \in Working /\ "loop" \in owed'[h]
           /\ upc' = "emitting"
<1>1. ASSUME NEW h \in Handlers
      PROVE  /\ owed'[h] \in SUBSET {"loop", "h"}
             /\ owed'[h] # {} => hpc[h] \in Working /\ "loop" \in owed'[h]
  BY <1>1 DEF EmitFinish, Working
<1>2. \E f : owed' = [h \in Handlers |-> f[h]]
  <2>1. owed' = [h \in Handlers |-> owed'[h]] BY DEF EmitFinish
  <2>2. QED BY <2>1
<1>3. QED BY <1>1, <1>2 DEF EmitFinish

\* Steps that leave the sessions alone, but for what is queued for them.
LEMMA SessionsStay ==
    ASSUME TcpInv, UNCHANGED <<m_state, hpc, sock, news, missed>>
    PROVE  Reporting' /\ ConnectedIsReal'
<1>1. Reporting' BY DEF TcpInv, Reporting
<1>2. ConnectedIsReal' BY DEF TcpInv, ConnectedIsReal
<1>3. QED BY <1>1, <1>2

\* A state change of a socket: its slots have still to run.
LEMMA ChangeKeeps ==
    ASSUME TcpInv, NEW h \in Handlers, NEW s \in States, NEW n \in {"state", "dial", "close"},
           Change(h, s, n), sock[h] # "Unconnected", news[h] = "none",
           hpc[h] \in {"running", "ending"},
           n = "dial" => s = "Connected", n = "close" => s = "Unconnected",
           hpc'[h] = "ending" => s # "Connected",
           \/ hpc' = hpc /\ missed' = missed /\ evq' = evq
           \/ /\ hpc' = [hpc EXCEPT ![h] = "ending"] /\ evq' = [evq EXCEPT ![h] = {}]
              /\ missed' \in [Handlers -> BOOLEAN] /\ hpc[h] = "running"
              /\ \A g \in Handlers : g # h => missed'[g] = missed[g],
           UNCHANGED <<m_state, upc, call, uquit, owed, dials, told>>
    PROVE  TcpInv'
<1> USE TcpDials DEF Handlers
<1>1. /\ sock' = [sock EXCEPT ![h] = s] /\ news' = [news EXCEPT ![h] = n]
      /\ hpc'[h] \in {"running", "ending"} /\ \A g \in Handlers : g # h => hpc'[g] = hpc[g]
  BY DEF Change, TcpInv, TypeOK
<1>2. TypeOK'
  <2>1. hpc' \in [Handlers -> Working \cup {"none", "queued", "done"}] BY DEF TcpInv, TypeOK, Working
  <2>2. sock' \in [Handlers -> States] /\ news' \in [Handlers -> {"none", "state", "dial", "close"}]
    BY <1>1 DEF TcpInv, TypeOK
  <2>3. evq' \in [Handlers -> SUBSET {"loop", "h"}] BY DEF TcpInv, TypeOK
  <2>4. missed' \in [Handlers -> BOOLEAN] BY DEF TcpInv, TypeOK
  <2>5. \A g \in Handlers : g > dials' => hpc'[g] = "none" BY <1>1 DEF TcpInv, TypeOK
  <2>6. QED BY <2>1, <2>2, <2>3, <2>4, <2>5 DEF TcpInv, TypeOK
<1>3. Owing' BY <1>1 DEF TcpInv, TypeOK, Owing, Working
<1>4. QuitsAreOrdered'
  <2>1. \A g \in Handlers : g \in Active <=> g \in Active' BY <1>1 DEF Active, TcpInv, TypeOK
  <2>2. QED BY <1>1, <2>1 DEF TcpInv, TypeOK, QuitsAreOrdered
<1>5. Reporting' BY <1>1 DEF TcpInv, TypeOK, Reporting
<1>6. ConnectedIsReal'
  <2>1. SUFFICES ASSUME m_state = "Connected" PROVE ConnectedIsReal'
    BY DEF ConnectedIsReal
  <2>2. PICK g \in Handlers :
            \/ hpc[g] \in {"running", "ending"} /\ (sock[g] = "Connected" \/ news[g] # "none")
            \/ hpc[g] = "done" /\ missed[g]
    BY <2>1 DEF TcpInv, ConnectedIsReal
  <2>3. CASE g = h BY <1>1, <2>3 DEF ConnectedIsReal, TcpInv, TypeOK
  <2>4. CASE g # h
    <3>1. /\ hpc'[g] = hpc[g] /\ sock'[g] = sock[g] /\ news'[g] = news[g] /\ missed'[g] = missed[g]
      BY <1>1, <2>4 DEF TcpInv, TypeOK
    <3>2. QED BY <2>2, <3>1 DEF ConnectedIsReal
  <2>5. QED BY <2>3, <2>4
<1>7. QuitIsDeserved'
  <2>1. h \in 1 .. dials BY DEF TcpInv, TypeOK
  <2>2. QED BY <1>1, <2>1 DEF TcpInv, TypeOK, QuitIsDeserved
<1>8. QED BY <1>2, <1>3, <1>4, <1>5, <1>6, <1>7 DEF TcpInv

LEMMA TcpNext == TcpInv /\ [Next]_vars => TcpInv'
<1> SUFFICES ASSUME TcpInv, [Next]_vars PROVE TcpInv'
  OBVIOUS
<1> USE TcpDials DEF Handlers
<1>1. ASSUME NEW k \in Kinds, Dial(k) \/ DialWait(k) PROVE TcpInv'
  <2>1. /\ upc = "idle" /\ dials < MaxDials /\ dials' = dials + 1
        /\ hpc' = [hpc EXCEPT ![dials + 1] = "queued"]
        /\ UNCHANGED <<m_state, uquit, owed, sock, news, missed, evq, told>>
        /\ \/ upc' = upc /\ call' = call
           \/ upc' = "posted" /\ call' = "dial"
    BY <1>1 DEF Dial, DialWait, Post, task
  <2>2. dials \in Nat /\ dials + 1 \in Handlers /\ hpc[dials + 1] = "none" /\ dials' \in 0 .. MaxDials
    BY <2>1 DEF TcpInv, TypeOK
  <2>3. TypeOK' BY <2>1, <2>2 DEF TcpInv, TypeOK
  <2>4. Owing' /\ QuitsAreOrdered'
    BY <2>1, <2>2 DEF TcpInv, TypeOK, Owing, QuitsAreOrdered, Active, Working
  <2>5. Reporting' BY <2>1, <2>2 DEF TcpInv, TypeOK, Reporting
  <2>6. ConnectedIsReal' BY <2>1, <2>2 DEF TcpInv, TypeOK, ConnectedIsReal
  <2>7. QuitIsDeserved' BY <2>1, <2>2 DEF TcpInv, TypeOK, Owing, QuitIsDeserved, Working
  <2>8. QED BY <2>3, <2>4, <2>5, <2>6, <2>7 DEF TcpInv
<1>2. ASSUME \/ \E k \in Kinds : Write(k)
             \/ Listen
             \/ Quit
             \/ Emitted
             \/ \E h \in Handlers : Flushed(h)
             \/ UNCHANGED vars
      PROVE  TcpInv'
  <2>1. UNCHANGED <<m_state, hpc, sock, news, missed, owed, dials, evq, told>>
    BY <1>2 DEF Write, Listen, Quit, Emitted, Flushed, vars, user, task
  <2>2. \/ UNCHANGED <<upc, call, uquit>>
        \/ Listen \/ Quit \/ Emitted
    BY <1>2 DEF Write, Flushed, vars, user
  <2>3. TypeOK' BY <2>1, <2>2 DEF Listen, Quit, Emitted, TcpInv, TypeOK
  <2>4. Owing' /\ QuitsAreOrdered' BY <2>1 DEF TcpInv, Owing, QuitsAreOrdered, Active
  <2>5. QuitIsDeserved' BY <2>1, <2>2 DEF Listen, Quit, Emitted, TcpInv, TypeOK, QuitIsDeserved
  <2>6. QED BY <2>1, <2>3, <2>4, <2>5, SessionsStay DEF TcpInv
<1>3. ASSUME \/ Timeout
             \/ Close
      PROVE  TcpInv'
  <2>1. UNCHANGED <<m_state, dials, hpc, sock, news, missed, evq, told>> /\ uquit' \in BOOLEAN
        /\ call' \in {"dial", "close"}
    BY <1>3 DEF Timeout, Close, TcpInv, TypeOK, task
  <2>2. \/ upc' = "idle" /\ owed' = owed
        \/ EmitFinish
    BY <1>3 DEF Timeout, Close
  <2>3. /\ owed' \in [Handlers -> SUBSET {"loop", "h"}] /\ upc' \in {"idle", "emitting"}
        /\ \/ owed' = owed
           \/ \A h \in Handlers : owed'[h] # {} => hpc[h] \in Working /\ "loop" \in owed'[h]
    BY <2>2, EmitOwes DEF TcpInv, TypeOK
  <2>4. TypeOK' BY <2>1, <2>3 DEF TcpInv, TypeOK
  <2>5. Owing' BY <2>1, <2>3 DEF TcpInv, Owing
  <2>6. QuitsAreOrdered' /\ QuitIsDeserved'
    BY <2>1, <2>3 DEF TcpInv, QuitsAreOrdered, Active, QuitIsDeserved
  <2>7. QED BY <2>1, <2>4, <2>5, <2>6, SessionsStay DEF TcpInv
<1>4. ASSUME NEW h \in Handlers, PostQuit(h) PROVE TcpInv'
  <2> DEFINE slot == IF "loop" \in owed[h] THEN "loop" ELSE "h"
  <2>1. /\ upc = "emitting" /\ owed[h] # {} /\ owed' = [owed EXCEPT ![h] = owed[h] \ {slot}]
        /\ \/ hpc[h] = "done" /\ evq' = evq /\ told' = told
           \/ /\ hpc[h] # "done"
              /\ evq' = [evq EXCEPT ![h] = evq[h] \cup {slot}]
              /\ told' = [told EXCEPT ![h] = TRUE]
        /\ UNCHANGED <<m_state, upc, call, uquit, dials, hpc, sock, news, missed>>
    BY <1>4 DEF PostQuit, task
  <2>2. slot \in {"loop", "h"} /\ slot \in owed[h] BY <2>1 DEF TcpInv, TypeOK
  <2>t. told' \in [Handlers -> BOOLEAN]
    <3>1. told \in [Handlers -> BOOLEAN] BY DEF TcpInv, TypeOK
    <3>2. told' = told \/ told' = [told EXCEPT ![h] = TRUE] BY <2>1
    <3>3. QED BY <3>1, <3>2, Zenon
  <2>3. TypeOK' BY <2>1, <2>2, <2>t DEF TcpInv, TypeOK
  <2>4. slot = "h" => owed[h] = {"h"} BY <2>1 DEF TcpInv, TypeOK
  <2>5. hpc[h] \in Working \cup {"done"} BY <2>1 DEF TcpInv, Owing
  <2>6. Owing' BY <2>1, <2>2, <2>4, <2>5 DEF TcpInv, TypeOK, Owing
  <2>7. QuitsAreOrdered'
    BY <2>1, <2>2, <2>4, <2>5 DEF TcpInv, TypeOK, Owing, QuitsAreOrdered, Active, Working
  <2>8. QuitIsDeserved' BY <2>1 DEF TcpInv, QuitIsDeserved
  <2>9. QED BY <2>1, <2>3, <2>6, <2>7, <2>8, SessionsStay DEF TcpInv
<1>5. ASSUME NEW h \in Handlers, Start(h) \/ Build(h) \/ WireQuit(h) \/ WireRest(h) PROVE TcpInv'
  <2>1. /\ UNCHANGED <<m_state, upc, call, uquit, owed, dials, evq, told, news, missed>>
        /\ hpc[h] \in {"queued", "looped", "built", "quittable"}
        /\ \E to \in {"looped", "built", "quittable", "running"} : hpc' = [hpc EXCEPT ![h] = to]
        /\ sock' = sock \/ \E s \in States : sock' = [sock EXCEPT ![h] = s]
    BY <1>5 DEF Start, Build, WireQuit, WireRest, Move, user, task, States
  <2>2. TypeOK' BY <2>1 DEF TcpInv, TypeOK, Working
  <2>3. Owing' /\ QuitsAreOrdered'
    BY <2>1 DEF TcpInv, TypeOK, Owing, QuitsAreOrdered, Active, Working
  <2>4. Reporting' BY <2>1 DEF TcpInv, TypeOK, Reporting
  <2>5. ConnectedIsReal' BY <2>1 DEF TcpInv, TypeOK, ConnectedIsReal
  <2>6. QuitIsDeserved' BY <2>1 DEF TcpInv, TypeOK, QuitIsDeserved
  <2>7. QED BY <2>2, <2>3, <2>4, <2>5, <2>6 DEF TcpInv
<1>6. ASSUME NEW h \in Handlers,
             Connected(h) \/ Refused(h) \/ RemoteClosed(h) \/ LastClosed(h) \/ Disconnected(h)
      PROVE  TcpInv'
  <2>1. PICK s \in States, n \in {"state", "dial", "close"} :
           /\ Change(h, s, n) /\ (n = "dial" => s = "Connected") /\ (n = "close" => s = "Unconnected")
           /\ hpc[h] = "ending" => s # "Connected"
    BY <1>6 DEF Connected, Refused, RemoteClosed, LastClosed, Disconnected, Idle, States
  <2>2. /\ UNCHANGED <<m_state, upc, call, uquit, owed, dials, told, hpc, missed, evq>>
        /\ sock[h] # "Unconnected" /\ news[h] = "none" /\ hpc[h] \in {"running", "ending"}
    BY <1>6 DEF Connected, Refused, RemoteClosed, LastClosed, Disconnected, Idle, Busy, user
  <2>3. QED BY <2>1, <2>2, ChangeKeeps
\* The slots run: a session that says Connected is connected, and disconnected()
\* reaches close(ms) with the last state.
<1>7. ASSUME NEW h \in Handlers, PassOn(h) PROVE TcpInv'
  <2>1. /\ news[h] # "none" /\ m_state' = sock[h] /\ news' = [news EXCEPT ![h] = "none"]
        /\ Signal(news[h]) /\ UNCHANGED <<upc, call, owed, dials, hpc, sock, evq, told, missed>>
    BY <1>7 DEF PassOn
  <2>2. uquit' \in BOOLEAN BY <2>1 DEF Signal, TcpInv, TypeOK
  <2>3. TypeOK' BY <2>1, <2>2 DEF TcpInv, TypeOK
  <2>4. Owing' /\ QuitsAreOrdered' BY <2>1 DEF TcpInv, Owing, QuitsAreOrdered, Active
  <2>5. Reporting' BY <2>1 DEF TcpInv, TypeOK, Reporting
  <2>6. hpc[h] \in {"running", "ending"} BY <2>1 DEF TcpInv, Reporting
  <2>7. ConnectedIsReal' BY <2>1, <2>6 DEF ConnectedIsReal
  <2>8. h \in 1 .. dials BY <2>6 DEF TcpInv, TypeOK
  <2>9. QuitIsDeserved'
    <3>1. SUFFICES ASSUME dials = 1, upc \in {"posted", "waiting"}
                   PROVE  /\ call = "dial" => ~ told[1]
                          /\ call = "close" /\ upc = "waiting" /\ uquit' =>
                                /\ sock[1] = "Unconnected" /\ hpc[1] \in {"running", "ending", "done"}
      BY <2>1, <2>8 DEF QuitIsDeserved, TcpInv, TypeOK
    <3>2. call = "dial" => ~ told[1] BY <3>1 DEF TcpInv, QuitIsDeserved
    <3>3. ASSUME call = "close", upc = "waiting", uquit'
          PROVE  sock[1] = "Unconnected"
      BY <2>1, <2>8, <3>1, <3>3 DEF Signal, TcpInv, TypeOK, QuitIsDeserved, Reporting
    <3>4. QED BY <2>6, <2>8, <3>1, <3>2, <3>3
  <2>10. QED BY <2>3, <2>4, <2>5, <2>7, <2>9 DEF TcpInv
<1>8. ASSUME NEW h \in Handlers, HandleQuit(h) PROVE TcpInv'
  <2>1. /\ hpc[h] = "running" /\ news[h] = "none" /\ hpc' = [hpc EXCEPT ![h] = "ending"]
        /\ evq' = [evq EXCEPT ![h] = {}] /\ missed' = [missed EXCEPT ![h] = "h" \notin evq[h]]
        /\ UNCHANGED <<m_state, upc, call, uquit, owed, dials, told>>
    BY <1>8 DEF HandleQuit, Idle, Busy, user
  <2>2. missed' \in [Handlers -> BOOLEAN]
    <3>1. missed \in [Handlers -> BOOLEAN] /\ ("h" \notin evq[h]) \in BOOLEAN BY DEF TcpInv, TypeOK
    <3>2. QED BY <2>1, <3>1, Zenon
  <2>3. CASE "h" \in evq[h] /\ sock[h] = "Connected"
    <3>1. Change(h, "Closing", "state") BY <1>8, <2>3 DEF HandleQuit
    <3>2. \A g \in Handlers : g # h => missed'[g] = missed[g] BY <2>1 DEF TcpInv, TypeOK
    <3>3. QED BY <2>1, <2>2, <2>3, <3>1, <3>2, ChangeKeeps DEF States
  <2>4. CASE ~ ("h" \in evq[h] /\ sock[h] = "Connected")
    <3>1. sock' = sock /\ news' = news BY <1>8, <2>4 DEF HandleQuit
    <3>2. TypeOK' BY <2>1, <2>2, <3>1 DEF TcpInv, TypeOK, Working
    <3>3. Owing' /\ QuitsAreOrdered'
      BY <2>1, <3>1 DEF TcpInv, TypeOK, Owing, QuitsAreOrdered, Active, Working
    <3>4. sock[h] = "Connected" => missed'[h] BY <2>1, <2>4 DEF TcpInv, TypeOK
    <3>5. Reporting' BY <2>1, <3>1, <3>4 DEF TcpInv, TypeOK, Reporting
    <3>6. ConnectedIsReal' BY <2>1, <3>1 DEF TcpInv, TypeOK, ConnectedIsReal
    <3>7. QuitIsDeserved' BY <2>1, <3>1 DEF TcpInv, TypeOK, QuitIsDeserved
    <3>8. QED BY <3>2, <3>3, <3>5, <3>6, <3>7 DEF TcpInv
  <2>5. QED BY <2>3, <2>4
<1>9. ASSUME NEW h \in Handlers, End(h) PROVE TcpInv'
  <2>1. /\ hpc[h] = "ending" /\ news[h] = "none" /\ hpc' = [hpc EXCEPT ![h] = "done"]
        /\ evq' = [evq EXCEPT ![h] = {}] /\ sock' = [sock EXCEPT ![h] = "Unconnected"]
        /\ UNCHANGED <<m_state, upc, call, uquit, owed, dials, told, news, missed>>
    BY <1>9 DEF End, Move, Busy, user
  <2>2. TypeOK' BY <2>1 DEF TcpInv, TypeOK, States
  <2>3. Owing' /\ QuitsAreOrdered'
    BY <2>1 DEF TcpInv, TypeOK, Owing, QuitsAreOrdered, Active, Working
  <2>4. Reporting' BY <2>1 DEF TcpInv, TypeOK, Reporting
  <2>5. ConnectedIsReal' BY <2>1 DEF TcpInv, TypeOK, Reporting, ConnectedIsReal
  <2>6. QuitIsDeserved' BY <2>1 DEF TcpInv, TypeOK, QuitIsDeserved
  <2>7. QED BY <2>2, <2>3, <2>4, <2>5, <2>6 DEF TcpInv
<1>10. QED
  BY <1>1, <1>2, <1>3, <1>4, <1>5, <1>6, <1>7, <1>8, <1>9 DEF Next, Wait, Task, Net

LEMMA TcpAlways == Spec => []TcpInv
<1>1. QED BY TcpInit, TcpNext, PTL DEF Spec

\* finish() queues quit() of the handler only behind quit() of its loop, and only
\* for tasks that are alive and were told, however the emission, the wiring of the
\* task and its event loop interleave, for any number of sessions.
THEOREM QuitsOrdered == Spec => []QuitsAreOrdered
<1>1. TcpInv => QuitsAreOrdered BY DEF TcpInv
<1>2. QED BY <1>1, TcpAlways, PTL

\* state() says Connected only while a session that said so is connected or has
\* its slots for a later change still to run, or after a loop that ended without
\* h.quit(), for any number of sessions, although all of them write m_state and
\* any of them may end at any time.
THEOREM ConnectedSafe == Spec => []ConnectedIsReal
<1>1. TcpInv => ConnectedIsReal BY DEF TcpInv
<1>2. QED BY <1>1, TcpAlways, PTL

\* With one session, a close(ms) that the disconnected signal ended leaves the
\* client unconnected, and a dial(ms) that the connected signal ended has told no
\* task to finish.
THEOREM SignalsAreTrue == Spec => SignalsTellTheTruth
<1>1. TcpInv /\ [Next]_vars =>
         [ Quit /\ dials = 1 =>
             IF call = "close" THEN m_state = "Unconnected" ELSE ~ told[1] ]_vars
  <2> SUFFICES ASSUME TcpInv, Quit, dials = 1
               PROVE  IF call = "close" THEN m_state = "Unconnected" ELSE ~ told[1]
    OBVIOUS
  <2>1. upc = "waiting" /\ uquit BY DEF Quit
  <2>2. call \in {"dial", "close"}
    BY <2>1 DEF TcpInv, TypeOK
  <2>3. QED BY <2>1, <2>2 DEF TcpInv, QuitIsDeserved
<1>2. QED BY <1>1, TcpAlways, PTL DEF Spec, SignalsTellTheTruth
=============================================================================
