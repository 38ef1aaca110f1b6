-------------------------- MODULE DBConnPoolProofs --------------------------
(***************************************************************************)
(* Safety of the connection pool, and that it implements ConnLedger, for    *)
(* any number of threads, connections, setConnNum arguments and closed      *)
(* connections.                                                             *)
(***************************************************************************)
EXTENDS DBConnPool, FiniteSetTheorems, TLAPS

Handles == Conns \cup {NoDb}

\* What giveback, acquire and setConnNum do to the queue when they append.
LEMMA AppendFacts ==
    ASSUME NEW s \in Seq(Handles), NEW c \in Handles
    PROVE  /\ Append(s, c) \in Seq(Handles)
           /\ Len(Append(s, c)) = Len(s) + 1
           /\ Append(s, c) # <<>>
           /\ Elems(Append(s, c)) = Elems(s) \cup {c}
           /\ Distinct(s) /\ (c = NoDb \/ c \notin Elems(s)) => Distinct(Append(s, c))
  BY DEF Elems, Distinct

\* What they do to it when they dequeue.
LEMMA TailFacts ==
    ASSUME NEW s \in Seq(Handles), s # <<>>
    PROVE  /\ Head(s) \in Handles
           /\ Tail(s) \in Seq(Handles)
           /\ Len(Tail(s)) = Len(s) - 1
           /\ Len(s) > 0
           /\ Elems(s) = Elems(Tail(s)) \cup {Head(s)}
           /\ Distinct(s) => Distinct(Tail(s))
           /\ Distinct(s) /\ Head(s) # NoDb => Head(s) \notin Elems(Tail(s))
<1>1. Len(s) \in Nat /\ Len(s) > 0 /\ DOMAIN s = 1 .. Len(s)
  OBVIOUS
<1>2. /\ Head(s) = s[1] /\ Head(s) \in Handles
      /\ Tail(s) \in Seq(Handles) /\ Len(Tail(s)) = Len(s) - 1
      /\ \A i \in 1 .. Len(s) - 1 : Tail(s)[i] = s[i + 1]
      /\ DOMAIN Tail(s) = 1 .. Len(s) - 1
  OBVIOUS
<1>3. Elems(s) = Elems(Tail(s)) \cup {Head(s)}
  <2>1. ASSUME NEW i \in 1 .. Len(s) PROVE s[i] \in Elems(Tail(s)) \cup {Head(s)}
    <3>1. CASE i = 1 BY <3>1, <1>2
    <3>2. CASE i # 1
      <4>1. i - 1 \in 1 .. Len(s) - 1 /\ Tail(s)[i - 1] = s[i] BY <3>2, <1>1, <1>2
      <4>2. QED BY <4>1, <1>2 DEF Elems
    <3>3. QED BY <3>1, <3>2
  <2>2. Elems(Tail(s)) \subseteq Elems(s) BY <1>1, <1>2 DEF Elems
  <2>3. Head(s) \in Elems(s) BY <1>1, <1>2 DEF Elems
  <2>4. QED BY <2>1, <2>2, <2>3, <1>1 DEF Elems
<1>4. Distinct(s) => Distinct(Tail(s))
  BY <1>1, <1>2 DEF Distinct
<1>5. Distinct(s) /\ Head(s) # NoDb => Head(s) \notin Elems(Tail(s))
  BY <1>1, <1>2 DEF Distinct, Elems
<1>6. QED BY <1>1, <1>2, <1>3, <1>4, <1>5

-----------------------------------------------------------------------------
(* Type correctness and mutual exclusion                                    *)

LEMMA TypeInit == Init => TypeInv
<1> SUFFICES ASSUME Init PROVE TypeInv
  OBVIOUS
<1>1. m_conns \in Seq(Conns \cup {NoDb}) /\ drops \in 0 .. MaxDrops /\ num \in Nat
  BY DropsAssumption DEF Init
<1>2. /\ pc \in [Threads -> Labels] /\ \A t \in Threads : pc[t] = "client"
      /\ db \in [Threads -> Conns \cup {NoDb}] /\ \A t \in Threads : db[t] = NoDb
      /\ op \in [Threads -> {"acquire", "timed", "exec"}]
      /\ held \in [Threads -> SUBSET Conns]
      /\ status \in [Conns -> {"none", "open", "closed"}]
  BY DEF Init, Labels
<1>3. m_factory \in FactoryKinds
  BY FactoriesAssumption DEF Init
<1>4. TypeOK
  BY <1>1, <1>2, <1>3 DEF Init, TypeOK
<1>5. ScanIsSafe
  BY <1>2, ThreadsAssumption DEF Init, ScanIsSafe
<1>6. QED BY <1>4, <1>5 DEF TypeInv

\* giveback in the hands of any of its callers.
LEMMA TypeEnqueue ==
    ASSUME TypeInv, NEW c \in Conns, NEW moved \in [Threads -> Labels],
           Enqueue(c, moved),
           db' \in [Threads -> Handles], held' \in [Threads -> SUBSET Conns],
           tasks' \in SUBSET Conns,
           \A t \in Threads :
              \/ moved[t] = pc[t] /\ db'[t] = db[t]
              \/ pc[t] = "give" /\ moved[t] = "client" /\ db'[t] = NoDb
    PROVE  TypeInv'
<1>1. /\ pc' \in [Threads -> Labels]
      /\ \A t \in Threads : \/ pc'[t] = moved[t]
                            \/ pc[t] = "sleep" /\ pc'[t] = "woken"
  BY DEF Enqueue, NotifyOne, Sleepers, Labels, TypeInv, TypeOK
<1>2. m_conns' \in Seq(Handles) /\ m_conns' # <<>>
  BY AppendFacts DEF Enqueue, TypeInv, TypeOK, Handles
<1>3. \A t \in Threads :
         /\ db'[t] # NoDb => pc'[t] \in {"execcheck", "give"}
         /\ pc'[t] = "give" => db'[t] # NoDb
  <2> SUFFICES ASSUME NEW t \in Threads
               PROVE  /\ db'[t] # NoDb => pc'[t] \in {"execcheck", "give"}
                      /\ pc'[t] = "give" => db'[t] # NoDb
    OBVIOUS
  <2>1. pc[t] = "sleep" => db[t] = NoDb BY DEF TypeInv, TypeOK
  <2>2. QED BY <1>1, <2>1 DEF TypeInv, TypeOK
<1>4. TypeOK'
  BY <1>1, <1>2, <1>3 DEF Enqueue, TypeInv, TypeOK, Handles
<1>5. ScanIsSafe'
  BY <1>1, <1>2 DEF Enqueue, TypeInv, TypeOK, ScanIsSafe, Labels
<1>6. QED BY <1>4, <1>5 DEF TypeInv

LEMMA TypeNext == TypeInv /\ [Next]_vars => TypeInv'
<1> SUFFICES ASSUME TypeInv, [Next]_vars PROVE TypeInv'
  OBVIOUS
<1> USE ThreadsAssumption, ConnsAssumption
<1>0. Handles = Conns \cup {NoDb} /\ m_conns \in Seq(Handles)
  BY DEF Handles, TypeInv, TypeOK
<1>1. ASSUME NEW t \in Threads, NEW kind \in {"acquire", "timed", "exec"}, Call(t, kind)
      PROVE  TypeInv'
  BY <1>1 DEF Call, Goto, TypeInv, TypeOK, ScanIsSafe, Labels
<1>2. ASSUME NEW t \in Threads, Check(t) PROVE TypeInv'
  <2>1. \E l \in {"waitlock", "takelock"} : pc' = [pc EXCEPT ![t] = l]
    BY <1>2 DEF Check, Goto
  <2>2. QED BY <1>2, <2>1 DEF Check, TypeInv, TypeOK, ScanIsSafe, Labels
<1>3. ASSUME NEW t \in Threads, WaitFor(t) PROVE TypeInv'
  BY <1>3 DEF WaitFor, Goto, TypeInv, TypeOK, ScanIsSafe, Labels
<1>4. ASSUME NEW t \in Threads, Expire(t) \/ Spurious(t) PROVE TypeInv'
  BY <1>4 DEF Expire, Spurious, LeaveSleep, Goto, TypeInv, TypeOK, ScanIsSafe, Labels
<1>5. ASSUME NEW t \in Threads, Expired(t) PROVE TypeInv'
  BY <1>5 DEF Expired, Goto, TypeInv, TypeOK, ScanIsSafe, Labels
<1>6. ASSUME NEW t \in Threads, Take(t) PROVE TypeInv'
  BY <1>6 DEF Take, Goto, TypeInv, TypeOK, ScanIsSafe, Labels
<1>7. ASSUME NEW t \in Threads, ScanOpen(t) PROVE TypeInv'
  <2>1. m_conns # <<>> BY <1>7 DEF ScanOpen, TypeInv, ScanIsSafe
  <2>2. /\ Head(m_conns) \in Conns
        /\ Tail(m_conns) \in Seq(Handles)
    BY <1>0, <1>7, <2>1, TailFacts DEF ScanOpen, IsOpen
  <2>3. TypeOK'
    BY <1>0, <1>7, <2>2 DEF ScanOpen, Goto, TypeInv, TypeOK, Labels, ScanIsSafe
  <2>4. ScanIsSafe'
    BY <1>7 DEF ScanOpen, Goto, TypeInv, TypeOK, ScanIsSafe, Labels
  <2>5. QED BY <2>3, <2>4 DEF TypeInv
<1>8. ASSUME NEW t \in Threads, NEW opened \in BOOLEAN, ScanClosed(t, opened)
      PROVE  TypeInv'
  <2>1. m_conns # <<>> BY <1>8 DEF ScanClosed, TypeInv, ScanIsSafe
  <2>2. Removed(Head(m_conns)) \in [Conns -> {"none", "open", "closed"}]
    BY <1>0, <2>1, TailFacts DEF Removed, TypeInv, TypeOK
  <2>3. /\ status' \in [Conns -> {"none", "open", "closed"}]
        /\ \E c \in Handles : m_conns' = Append(Tail(m_conns), c)
    BY <1>0, <1>8, <2>2 DEF ScanClosed
  <2>4. m_conns' \in Seq(Handles) /\ m_conns' # <<>>
    <3>1. PICK c \in Handles : m_conns' = Append(Tail(m_conns), c) BY <2>3
    <3>2. Tail(m_conns) \in Seq(Handles) BY <1>0, <2>1, TailFacts
    <3>3. QED BY <3>1, <3>2, AppendFacts
  <2>5. QED BY <1>0, <1>8, <2>3, <2>4 DEF ScanClosed, TypeInv, TypeOK, ScanIsSafe
<1>9. ASSUME NEW t \in Threads, ExecCheck(t) PROVE TypeInv'
  BY <1>9 DEF ExecCheck, Goto, IsOpen, TypeInv, TypeOK, ScanIsSafe, Labels
<1>10. ASSUME NEW t \in Threads, NEW c \in Conns, Giveback(t, c) PROVE TypeInv'
  <2>1. pc \in [Threads -> Labels] /\ Enqueue(c, pc)
    BY <1>10 DEF Giveback, TypeInv, TypeOK
  <2>3. db' = db /\ tasks' = tasks /\ held' \in [Threads -> SUBSET Conns]
    BY <1>10 DEF Giveback, TypeInv, TypeOK
  <2>4. QED BY <2>1, <2>3, TypeEnqueue DEF TypeInv, TypeOK, Handles
<1>11. ASSUME NEW t \in Threads, ExecGiveback(t) PROVE TypeInv'
  <2> DEFINE moved == [pc EXCEPT ![t] = "client"]
  <2>1. moved \in [Threads -> Labels] /\ Enqueue(db[t], moved) /\ db[t] \in Conns
    BY <1>11 DEF ExecGiveback, TypeInv, TypeOK, Labels
  <2>3. tasks' = tasks /\ held' = held /\ db' \in [Threads -> Handles]
    BY <1>11 DEF ExecGiveback, TypeInv, TypeOK, Handles
  <2>2. \A u \in Threads :
           \/ moved[u] = pc[u] /\ db'[u] = db[u]
           \/ pc[u] = "give" /\ moved[u] = "client" /\ db'[u] = NoDb
    BY <1>11 DEF ExecGiveback, TypeInv, TypeOK
  <2>4. QED BY <2>1, <2>2, <2>3, TypeEnqueue DEF TypeInv, TypeOK, Handles
<1>12. ASSUME NEW t \in Threads, NEW n \in Nums, SetConnNum(t, n) PROVE TypeInv'
  BY <1>12, NumsAssumption DEF SetConnNum, Goto, TypeInv, TypeOK, ScanIsSafe, Labels
<1>13. ASSUME NEW t \in Threads, Grow(t) PROVE TypeInv'
  <2>1. m_conns' \in Seq(Handles) /\ m_conns' # <<>>
    BY <1>0, <1>13, AppendFacts DEF Grow
  <2>2. QED BY <1>0, <1>13, <2>1 DEF Grow, TypeInv, TypeOK, ScanIsSafe
<1>14. ASSUME NEW t \in Threads, GrowFails(t) PROVE TypeInv'
  BY <1>14 DEF GrowFails, vars, TypeInv, TypeOK, ScanIsSafe
<1>15. ASSUME NEW t \in Threads, Shrink(t) PROVE TypeInv'
  <2>1. m_conns # <<>> BY <1>0, <1>15 DEF Shrink, TypeInv, TypeOK
  <2>2. Head(m_conns) \in Handles /\ Tail(m_conns) \in Seq(Handles)
    BY <1>0, <2>1, TailFacts
  <2>3. status' \in [Conns -> {"none", "open", "closed"}]
    BY <1>15, <2>2 DEF Shrink, Removed, TypeInv, TypeOK
  <2>4. QED BY <1>0, <1>15, <2>2, <2>3 DEF Shrink, TypeInv, TypeOK, ScanIsSafe
<1>16. ASSUME NEW t \in Threads, Resized(t) PROVE TypeInv'
  BY <1>16 DEF Resized, Goto, TypeInv, TypeOK, ScanIsSafe, Labels
<1>17. ASSUME NEW t \in Threads, Configure(t) PROVE TypeInv'
  BY <1>17, FactoriesAssumption DEF Configure, SetFactoryFn, SetThreadPool, TypeInv, TypeOK, ScanIsSafe
<1>18. ASSUME NEW c \in Conns, TaskGiveback(c) PROVE TypeInv'
  <2>1. pc \in [Threads -> Labels] /\ Enqueue(c, pc)
    BY <1>18 DEF TaskGiveback, TypeInv, TypeOK
  <2>3. db' = db /\ held' = held /\ tasks' \in SUBSET Conns
    BY <1>18 DEF TaskGiveback, TypeInv, TypeOK
  <2>4. QED BY <2>1, <2>3, TypeEnqueue DEF TypeInv, TypeOK, Handles
<1>19. ASSUME NEW c \in Conns, Drop(c) PROVE TypeInv'
  BY <1>19, DropsAssumption DEF Drop, TypeInv, TypeOK, ScanIsSafe
<1>20. CASE UNCHANGED vars
  BY <1>20 DEF vars, TypeInv, TypeOK, ScanIsSafe
<1>21. QED
  BY <1>1, <1>2, <1>3, <1>4, <1>5, <1>6, <1>7, <1>8, <1>9, <1>10, <1>11, <1>12,
     <1>13, <1>14, <1>15, <1>16, <1>17, <1>18, <1>19, <1>20 DEF Next

\* The variables of the pool keep their types, exec gives back only a handle
\* it has, and the two loops under the lock exclude each other and never
\* dequeue from an empty queue.
THEOREM TypeCorrect == Spec => []TypeInv
<1>1. Init => TypeInv BY TypeInit
<1>2. TypeInv /\ [Next]_vars => TypeInv' BY TypeNext
<1>3. QED BY <1>1, <1>2, PTL DEF Spec

-----------------------------------------------------------------------------
(* Ownership                                                                *)

\* The steps that move no handle and open or close no connection.
LEMMA OwnFrame ==
    ASSUME Ownership, UNCHANGED <<m_conns, db, held, status, tasks>>
    PROVE  Ownership'
  BY DEF Ownership, ExclusiveOwnership, OwnersExist, NoOpenConnLost, Idle, Elems, Distinct

LEMMA OwnInit == Init => Ownership
<1> SUFFICES ASSUME Init PROVE Ownership
  OBVIOUS
<1>1. Idle = {} /\ Distinct(m_conns) BY DEF Init, Idle, Elems, Distinct
<1>2. \A t \in Threads : held[t] = {} /\ db[t] = NoDb BY DEF Init
<1>3. ExclusiveOwnership BY <1>1, <1>2 DEF Init, ExclusiveOwnership
<1>4. OwnersExist BY <1>1, <1>2, ConnsAssumption DEF Init, OwnersExist
<1>5. NoOpenConnLost BY DEF Init, NoOpenConnLost
<1>6. QED BY <1>3, <1>4, <1>5 DEF Ownership

LEMMA OwnNext == TypeInv /\ Ownership /\ [Next]_vars => Ownership'
<1> SUFFICES ASSUME TypeInv, Ownership, [Next]_vars PROVE Ownership'
  OBVIOUS
<1> USE ThreadsAssumption, ConnsAssumption
<1>0. Handles = Conns \cup {NoDb} /\ m_conns \in Seq(Handles)
  BY DEF Handles, TypeInv, TypeOK
<1>t. /\ db \in [Threads -> Conns \cup {NoDb}]
      /\ held \in [Threads -> SUBSET Conns]
      /\ status \in [Conns -> {"none", "open", "closed"}]
      /\ tasks \in SUBSET Conns
  BY DEF TypeInv, TypeOK
<1>1. ASSUME NEW t \in Threads,
             \/ \E kind \in {"acquire", "timed", "exec"} : Call(t, kind)
             \/ Check(t) \/ WaitFor(t) \/ Expire(t) \/ Spurious(t) \/ Expired(t)
             \/ Take(t) \/ \E n \in Nums : SetConnNum(t, n)
             \/ GrowFails(t) \/ Resized(t) \/ Configure(t)
      PROVE  Ownership'
  <2>1. UNCHANGED <<m_conns, db, held, status, tasks>>
    BY <1>1 DEF Call, Check, WaitFor, Expire, Spurious, LeaveSleep, Expired, Take,
                SetConnNum, GrowFails, Resized, Configure, SetFactoryFn,
                SetThreadPool, vars
  <2>2. QED BY <2>1, OwnFrame
<1>2. ASSUME NEW t \in Threads, ScanOpen(t) PROVE Ownership'
  <2> DEFINE c == Head(m_conns)
  <2>1. m_conns # <<>> BY <1>2 DEF ScanOpen, TypeInv, ScanIsSafe
  <2>2. c \in Conns /\ c \in Idle BY <1>0, <1>2, <2>1, TailFacts DEF ScanOpen, IsOpen, Idle
  <2>3. Idle' = Idle \ {c} /\ Distinct(m_conns')
    BY <1>0, <1>2, <2>1, <2>2, TailFacts DEF ScanOpen, Idle, Ownership, ExclusiveOwnership
  <2>4. db[t] = NoDb BY <1>2 DEF ScanOpen, TypeInv, TypeOK
  <2>5. status' = status /\ tasks' = tasks BY <1>2 DEF ScanOpen
  <2>6. \/ /\ db' = [db EXCEPT ![t] = c] /\ held' = held
        \/ /\ held' = [held EXCEPT ![t] = held[t] \cup {c}] /\ db' = db
    BY <1>2 DEF ScanOpen
  <2>7. ExclusiveOwnership'
    BY <1>t, <2>2, <2>3, <2>4, <2>5, <2>6 DEF Ownership, ExclusiveOwnership
  <2>8. OwnersExist'
    BY <1>t, <2>2, <2>3, <2>4, <2>5, <2>6 DEF Ownership, OwnersExist
  <2>9. NoOpenConnLost'
    BY <1>t, <2>2, <2>3, <2>4, <2>5, <2>6 DEF Ownership, NoOpenConnLost
  <2>10. QED BY <2>7, <2>8, <2>9 DEF Ownership
<1>3. ASSUME NEW t \in Threads, NEW opened \in BOOLEAN, ScanClosed(t, opened)
      PROVE  Ownership'
  <2> DEFINE old == Head(m_conns)
             removed == Removed(old)
  <2>1. m_conns # <<>> BY <1>3 DEF ScanClosed, TypeInv, ScanIsSafe
  <2>2. /\ old \in Handles /\ old \in Idle /\ ~ IsOpen(old)
        /\ Tail(m_conns) \in Seq(Handles) /\ Distinct(Tail(m_conns))
        /\ Idle = Elems(Tail(m_conns)) \cup {old}
        /\ old # NoDb => old \notin Elems(Tail(m_conns))
    BY <1>0, <1>3, <2>1, TailFacts
       DEF ScanClosed, Idle, Ownership, ExclusiveOwnership
  <2>3. /\ removed \in [Conns -> {"none", "open", "closed"}]
        /\ \A d \in Conns : removed[d] = IF d = old THEN "none" ELSE status[d]
    BY <1>t, <2>2 DEF Removed
  <2>4. PICK c \in Handles :
           /\ m_conns' = Append(Tail(m_conns), c)
           /\ c # NoDb => removed[c] = "none"
           /\ status' \in [Conns -> {"none", "open", "closed"}]
           /\ \A d \in Conns : d # c => status'[d] = removed[d]
           /\ c # NoDb => status'[c] # "none"
    <3>1. CASE m_factory = "invalid"
      BY <1>0, <1>3, <2>3, <3>1 DEF ScanClosed
    <3>2. CASE m_factory # "invalid"
      <4>1. PICK c \in Conns : /\ removed[c] = "none"
                               /\ m_conns' = Append(Tail(m_conns), c)
                               /\ status' = [removed EXCEPT ![c] =
                                               IF opened THEN "open" ELSE "closed"]
        BY <1>3, <3>2 DEF ScanClosed
      <4>2. QED BY <1>0, <2>3, <4>1
    <3>3. QED BY <3>1, <3>2
  <2>5. c = NoDb \/ c \notin Elems(Tail(m_conns))
    BY <1>0, <2>2, <2>3, <2>4 DEF Ownership, OwnersExist
  <2>6. Idle' = Elems(Tail(m_conns)) \cup {c} /\ Distinct(m_conns')
    BY <2>2, <2>4, <2>5, AppendFacts DEF Idle
  <2>7. UNCHANGED <<db, held, tasks>> BY <1>3 DEF ScanClosed
  <2>8. c # NoDb => c \notin tasks /\ \A u \in Threads : c \notin held[u] /\ db[u] # c
    BY <1>0, <2>2, <2>3, <2>4 DEF Ownership, OwnersExist, ExclusiveOwnership
  <2>9. NoDb \notin tasks /\ \A u \in Threads : NoDb \notin held[u]
    BY <1>t
  <2>10. ExclusiveOwnership'
    BY <2>2, <2>6, <2>7, <2>8, <2>9 DEF Ownership, ExclusiveOwnership
  <2>11. OwnersExist'
    <3> SUFFICES ASSUME NEW d \in Conns, status'[d] = "none"
                 PROVE  d \notin Idle' \cup tasks' /\ \A u \in Threads : d \notin held'[u] /\ db'[u] # d
      BY DEF OwnersExist
    <3>1. d # c /\ removed[d] = "none" BY <1>0, <2>4
    <3>2. d \notin Elems(Tail(m_conns)) \cup tasks /\ \A u \in Threads : d \notin held[u] /\ db[u] # d
      <4>1. CASE d = old BY <4>1, <2>2 DEF Ownership, ExclusiveOwnership
      <4>2. CASE d # old
        <5>1. status[d] = "none" BY <4>2, <3>1, <2>3
        <5>2. QED BY <5>1, <2>2 DEF Ownership, OwnersExist
      <4>3. QED BY <4>1, <4>2
    <3>3. QED BY <3>1, <3>2, <2>6, <2>7
  <2>12. NoOpenConnLost'
    <3> SUFFICES ASSUME NEW d \in Conns, status'[d] = "open"
                 PROVE  d \in Idle' \cup tasks' \/ \E u \in Threads : d \in held'[u] \/ db'[u] = d
      BY DEF NoOpenConnLost
    <3>1. CASE d = c BY <3>1, <2>6
    <3>2. CASE d # c
      <4>1. status[d] = "open" /\ d # old BY <3>2, <2>3, <2>4
      <4>2. d \in Idle \cup tasks \/ \E u \in Threads : d \in held[u] \/ db[u] = d
        BY <4>1 DEF Ownership, NoOpenConnLost
      <4>3. QED BY <4>1, <4>2, <2>2, <2>6, <2>7
    <3>3. QED BY <3>1, <3>2
  <2>13. QED BY <2>10, <2>11, <2>12 DEF Ownership
<1>4. ASSUME NEW t \in Threads, ExecCheck(t) PROVE Ownership'
  <2>1. m_conns' = m_conns /\ Idle' = Idle /\ held' = held /\ status' = status
    BY <1>4 DEF ExecCheck, Idle
  <2>2. \/ ~ IsOpen(db[t]) /\ db' = [db EXCEPT ![t] = NoDb] /\ tasks' = tasks
        \/ db' = db /\ tasks' = tasks
        \/ IsOpen(db[t]) /\ db' = [db EXCEPT ![t] = NoDb] /\ tasks' = tasks \cup {db[t]}
    BY <1>4 DEF ExecCheck
  <2>3. ExclusiveOwnership'
    BY <1>t, <2>1, <2>2 DEF Ownership, ExclusiveOwnership, IsOpen
  <2>4. OwnersExist'
    BY <1>t, <2>1, <2>2 DEF Ownership, OwnersExist, IsOpen
  <2>5. NoOpenConnLost'
    BY <1>t, <2>1, <2>2 DEF Ownership, NoOpenConnLost, IsOpen
  <2>6. QED BY <2>3, <2>4, <2>5 DEF Ownership
<1>5. ASSUME NEW t \in Threads, NEW c \in Conns, Giveback(t, c) PROVE Ownership'
  <2>1. /\ c \in held[t] /\ held' = [held EXCEPT ![t] = held[t] \ {c}]
        /\ m_conns' = Append(m_conns, c) /\ status' = status /\ db' = db /\ tasks' = tasks
    BY <1>5 DEF Giveback, Enqueue
  <2>2. c \notin Idle BY <2>1 DEF Ownership, ExclusiveOwnership
  <2>3. Idle' = Idle \cup {c} /\ Distinct(m_conns')
    BY <1>0, <2>1, <2>2, AppendFacts DEF Idle, Ownership, ExclusiveOwnership
  <2>4. ExclusiveOwnership'
    BY <1>t, <2>1, <2>3 DEF Ownership, ExclusiveOwnership
  <2>5. OwnersExist' BY <1>t, <2>1, <2>3 DEF Ownership, OwnersExist
  <2>6. NoOpenConnLost' BY <1>t, <2>1, <2>3 DEF Ownership, NoOpenConnLost
  <2>7. QED BY <2>4, <2>5, <2>6 DEF Ownership
<1>6. ASSUME NEW t \in Threads, ExecGiveback(t) PROVE Ownership'
  <2> DEFINE c == db[t]
  <2>1. /\ db' = [db EXCEPT ![t] = NoDb] /\ c # NoDb /\ c \in Conns
        /\ m_conns' = Append(m_conns, c) /\ status' = status /\ held' = held /\ tasks' = tasks
    BY <1>6, <1>t DEF ExecGiveback, Enqueue, TypeInv, TypeOK
  <2>2. c \notin Idle BY <2>1 DEF Ownership, ExclusiveOwnership
  <2>3. Idle' = Idle \cup {c} /\ Distinct(m_conns')
    BY <1>0, <2>1, <2>2, AppendFacts DEF Idle, Ownership, ExclusiveOwnership
  <2>4. ExclusiveOwnership'
    BY <1>t, <2>1, <2>3 DEF Ownership, ExclusiveOwnership
  <2>5. OwnersExist' BY <1>t, <2>1, <2>3 DEF Ownership, OwnersExist
  <2>6. NoOpenConnLost' BY <1>t, <2>1, <2>3 DEF Ownership, NoOpenConnLost
  <2>7. QED BY <2>4, <2>5, <2>6 DEF Ownership
<1>7. ASSUME NEW t \in Threads, Grow(t) PROVE Ownership'
  <2>1. PICK c \in Conns : /\ status[c] = "none"
                           /\ status' = [status EXCEPT ![c] = "open"]
                           /\ m_conns' = Append(m_conns, c)
    BY <1>7 DEF Grow
  <2>2. UNCHANGED <<db, held, tasks>> BY <1>7 DEF Grow
  <2>3. c \notin Idle BY <2>1 DEF Ownership, OwnersExist
  <2>4. Idle' = Idle \cup {c} /\ Distinct(m_conns')
    BY <1>0, <2>1, <2>3, AppendFacts DEF Idle, Ownership, ExclusiveOwnership
  <2>5. ExclusiveOwnership'
    BY <1>t, <2>1, <2>2, <2>4 DEF Ownership, ExclusiveOwnership, OwnersExist
  <2>6. OwnersExist' BY <1>t, <2>1, <2>2, <2>4 DEF Ownership, OwnersExist
  <2>7. NoOpenConnLost' BY <1>t, <2>1, <2>2, <2>4 DEF Ownership, NoOpenConnLost
  <2>8. QED BY <2>5, <2>6, <2>7 DEF Ownership
<1>8. ASSUME NEW t \in Threads, Shrink(t) PROVE Ownership'
  <2> DEFINE c == Head(m_conns)
  <2>1. m_conns # <<>> BY <1>0, <1>8 DEF Shrink, TypeInv, TypeOK
  <2>2. /\ c \in Handles /\ c \in Idle /\ Distinct(Tail(m_conns))
        /\ Idle = Elems(Tail(m_conns)) \cup {c} /\ Idle' = Elems(Tail(m_conns))
        /\ c # NoDb => c \notin Idle'
        /\ Distinct(m_conns')
    BY <1>0, <1>8, <2>1, TailFacts DEF Shrink, Idle, Ownership, ExclusiveOwnership
  <2>3. UNCHANGED <<db, held, tasks>> BY <1>8 DEF Shrink
  <2>4. \A d \in Conns : status'[d] = IF d = c THEN "none" ELSE status[d]
    BY <1>8, <1>t, <2>2 DEF Shrink, Removed
  <2>5. ExclusiveOwnership'
    BY <2>2, <2>3 DEF Ownership, ExclusiveOwnership
  <2>6. OwnersExist'
    BY <2>2, <2>3, <2>4 DEF Ownership, OwnersExist, ExclusiveOwnership
  <2>7. NoOpenConnLost'
    BY <2>2, <2>3, <2>4 DEF Ownership, NoOpenConnLost
  <2>8. QED BY <2>5, <2>6, <2>7 DEF Ownership
<1>9. ASSUME NEW c \in Conns, TaskGiveback(c) PROVE Ownership'
  <2>1. /\ c \in tasks /\ tasks' = tasks \ {c}
        /\ m_conns' = Append(m_conns, c) /\ status' = status /\ db' = db /\ held' = held
    BY <1>9 DEF TaskGiveback, Enqueue
  <2>2. c \notin Idle BY <2>1 DEF Ownership, ExclusiveOwnership
  <2>3. Idle' = Idle \cup {c} /\ Distinct(m_conns')
    BY <1>0, <2>1, <2>2, AppendFacts DEF Idle, Ownership, ExclusiveOwnership
  <2>4. ExclusiveOwnership'
    BY <1>t, <2>1, <2>3 DEF Ownership, ExclusiveOwnership
  <2>5. OwnersExist' BY <1>t, <2>1, <2>3 DEF Ownership, OwnersExist
  <2>6. NoOpenConnLost' BY <1>t, <2>1, <2>3 DEF Ownership, NoOpenConnLost
  <2>7. QED BY <2>4, <2>5, <2>6 DEF Ownership
<1>10. ASSUME NEW c \in Conns, Drop(c) PROVE Ownership'
  <2>1. UNCHANGED <<m_conns, db, held, tasks>> /\ Idle' = Idle
    BY <1>10 DEF Drop, Idle
  <2>2. \A d \in Conns :
           /\ status'[d] = "none" => status[d] = "none"
           /\ status'[d] = "open" => status[d] = "open"
    BY <1>10, <1>t DEF Drop
  <2>3. ExclusiveOwnership' BY <2>1 DEF Ownership, ExclusiveOwnership
  <2>4. db' = db /\ held' = held /\ tasks' = tasks BY <2>1
  <2>5. OwnersExist'
    <3>1. ASSUME NEW d \in Conns, status'[d] = "none"
          PROVE  d \notin Idle \cup tasks /\ \A t \in Threads : d \notin held[t] /\ db[t] # d
      <4>1. status[d] = "none" BY <2>2, <3>1
      <4>2. QED BY <4>1 DEF Ownership, OwnersExist
    <3>2. QED BY <2>1, <2>4, <3>1 DEF OwnersExist
  <2>6. NoOpenConnLost'
    <3>1. ASSUME NEW d \in Conns, status'[d] = "open"
          PROVE  d \in Idle \cup tasks \/ \E t \in Threads : d \in held[t] \/ db[t] = d
      <4>1. status[d] = "open" BY <2>2, <3>1
      <4>2. QED BY <4>1 DEF Ownership, NoOpenConnLost
    <3>2. QED BY <2>1, <2>4, <3>1 DEF NoOpenConnLost
  <2>7. QED BY <2>3, <2>5, <2>6 DEF Ownership
<1>11. CASE UNCHANGED vars
  BY <1>11, OwnFrame DEF vars
<1>12. QED
  BY <1>1, <1>2, <1>3, <1>4, <1>5, <1>6, <1>7, <1>8, <1>9, <1>10, <1>11 DEF Next

\* Every connection of the pool has exactly one owner, owners hold connections
\* that exist, and no open connection is lost by acquire, exec, giveback or
\* setConnNum.
THEOREM OwnershipSafe == Spec => []Ownership
<1>1. Init => TypeInv /\ Ownership BY TypeInit, OwnInit
<1>2. TypeInv /\ Ownership /\ [Next]_vars => (TypeInv /\ Ownership)' BY TypeNext, OwnNext
<1>3. QED BY <1>1, <1>2, PTL DEF Spec

-----------------------------------------------------------------------------
(* Wake-ups                                                                 *)

\* Counting threads.
LEMMA CountThreads ==
    ASSUME NEW S \in SUBSET Threads
    PROVE  /\ Cardinality(S) \in Nat
           /\ \A t \in Threads \ S : Cardinality(S \cup {t}) = Cardinality(S) + 1
           /\ \A t \in S : Cardinality(S \ {t}) = Cardinality(S) - 1
           /\ \A R \in SUBSET S : Cardinality(R) =< Cardinality(S)
<1>1. IsFiniteSet(S) BY ThreadsAssumption, FS_Subset
<1>2. Cardinality(S) \in Nat BY <1>1, FS_CardinalityType
<1>3. \A t \in Threads \ S : Cardinality(S \cup {t}) = Cardinality(S) + 1
  BY <1>1, FS_AddElement
<1>4. \A t \in S : Cardinality(S \ {t}) = Cardinality(S) - 1
  BY <1>1, FS_RemoveElement
<1>5. \A R \in SUBSET S : Cardinality(R) =< Cardinality(S)
  BY <1>1, FS_Subset
<1>6. QED BY <1>2, <1>3, <1>4, <1>5

\* A step that adds no handle, puts nobody to sleep and withdraws no contender.
LEMMA WakeFrame ==
    ASSUME TypeInv, TypeInv', NoLostWakeup, Len(m_conns') =< Len(m_conns), silent' = silent,
           \A t \in Threads : /\ pc'[t] = "sleep" => pc[t] = "sleep"
                              /\ pc[t] \in {"woken", "expired", "takelock", "scan"}
                                    => pc'[t] \in {"woken", "expired", "takelock", "scan"}
    PROVE  NoLostWakeup'
<1>1. Sleepers' \subseteq Sleepers BY DEF Sleepers
<1>2. Contenders \subseteq Contenders' /\ Contenders' \in SUBSET Threads BY DEF Contenders
<1>3. /\ Cardinality(Contenders) \in Nat /\ Cardinality(Contenders') \in Nat
      /\ Cardinality(Contenders) =< Cardinality(Contenders')
  BY <1>2, CountThreads
<1>4. Len(m_conns) \in Nat /\ Len(m_conns') \in Nat BY DEF TypeInv, TypeOK
<1>5. QED BY <1>1, <1>3, <1>4 DEF NoLostWakeup

\* A step that leaves the queue empty.
LEMMA WakeEmpty ==
    ASSUME m_conns' = <<>> PROVE NoLostWakeup'
<1>1. Contenders' \in SUBSET Threads BY DEF Contenders
<1>2. Cardinality(Contenders') \in Nat BY <1>1, CountThreads
<1>3. QED BY <1>2 DEF NoLostWakeup

\* giveback adds one handle and turns one sleeper into a contender.
LEMMA WakeEnqueue ==
    ASSUME TypeInv, NoLostWakeup, NEW c \in Handles, NEW moved \in [Threads -> Labels],
           Enqueue(c, moved),
           \A t \in Threads : moved[t] = pc[t] \/ (pc[t] = "give" /\ moved[t] = "client")
    PROVE  NoLostWakeup'
<1>1. silent' = silent /\ Len(m_conns') = Len(m_conns) + 1 /\ Len(m_conns) \in Nat
  BY AppendFacts DEF Enqueue, TypeInv, TypeOK, Handles
<1>2. Contenders \in SUBSET Threads BY DEF Contenders
<1>3. CASE Sleepers = {}
  <2>1. Sleepers' = {} BY <1>3 DEF Enqueue, NotifyOne, Sleepers
  <2>2. QED BY <2>1 DEF NoLostWakeup
<1>4. CASE Sleepers # {}
  <2>1. PICK s \in Sleepers : pc' = [moved EXCEPT ![s] = "woken"]
    BY <1>4 DEF Enqueue, NotifyOne
  <2>2. s \in Threads \ Contenders BY DEF Sleepers, Contenders
  <2>3. Contenders' = Contenders \cup {s} BY <2>1, <2>2 DEF Contenders
  <2>4. Cardinality(Contenders') = Cardinality(Contenders) + 1 /\ Cardinality(Contenders) \in Nat
    BY <1>2, <2>2, <2>3, CountThreads
  <2>5. QED BY <1>1, <1>4, <2>4 DEF NoLostWakeup
<1>5. QED BY <1>3, <1>4

LEMMA WakeNext == TypeInv /\ TypeInv' /\ NoLostWakeup /\ [Next]_vars => NoLostWakeup'
<1> SUFFICES ASSUME TypeInv, TypeInv', NoLostWakeup, [Next]_vars PROVE NoLostWakeup'
  OBVIOUS
<1>0. Handles = Conns \cup {NoDb} /\ m_conns \in Seq(Handles) /\ Len(m_conns) \in Nat
  BY DEF Handles, TypeInv, TypeOK
<1>t. pc \in [Threads -> Labels] BY DEF TypeInv, TypeOK
<1>1. ASSUME NEW t \in Threads, NEW kind \in {"acquire", "timed", "exec"}, Call(t, kind)
      PROVE  NoLostWakeup'
  BY <1>0, <1>t, <1>1, WakeFrame DEF Call, Goto
<1>2. ASSUME NEW t \in Threads, Check(t) PROVE NoLostWakeup'
  <2>1. \E l \in {"waitlock", "takelock"} : pc' = [pc EXCEPT ![t] = l]
    BY <1>2 DEF Check, Goto
  <2>2. QED BY <1>0, <1>t, <1>2, <2>1, WakeFrame DEF Check
<1>3. ASSUME NEW t \in Threads, WaitFor(t) PROVE NoLostWakeup'
  <2>1. CASE m_conns = <<>> BY <1>3, <2>1, WakeEmpty DEF WaitFor
  <2>2. CASE m_conns # <<>>
    BY <1>0, <1>t, <1>3, <2>2, WakeFrame DEF WaitFor, Goto
  <2>3. QED BY <2>1, <2>2
<1>4. ASSUME NEW t \in Threads, Expire(t) \/ Spurious(t) PROVE NoLostWakeup'
  BY <1>0, <1>t, <1>4, WakeFrame DEF Expire, Spurious, LeaveSleep, Goto
<1>5. ASSUME NEW t \in Threads, Expired(t) PROVE NoLostWakeup'
  <2>1. CASE m_conns = <<>> BY <1>5, <2>1, WakeEmpty DEF Expired
  <2>2. CASE m_conns # <<>>
    BY <1>0, <1>t, <1>5, <2>2, WakeFrame DEF Expired, Goto
  <2>3. QED BY <2>1, <2>2
<1>6. ASSUME NEW t \in Threads, Take(t) PROVE NoLostWakeup'
  <2>1. CASE m_conns = <<>> BY <1>6, <2>1, WakeEmpty DEF Take
  <2>2. CASE m_conns # <<>>
    BY <1>0, <1>t, <1>6, <2>2, WakeFrame DEF Take, Goto
  <2>3. QED BY <2>1, <2>2
<1>7. ASSUME NEW t \in Threads, ScanOpen(t) PROVE NoLostWakeup'
  <2>1. m_conns # <<>> BY <1>7 DEF ScanOpen, TypeInv, ScanIsSafe
  <2>2. Len(m_conns') = Len(m_conns) - 1 /\ silent' = silent
    BY <1>0, <1>7, <2>1, TailFacts DEF ScanOpen
  <2>3. \E l \in {"execcheck", "client"} : pc' = [pc EXCEPT ![t] = l]
    BY <1>7 DEF ScanOpen, Goto
  <2>4. t \in Contenders /\ Contenders \in SUBSET Threads
    BY <1>7 DEF ScanOpen, Contenders
  <2>5. Contenders' = Contenders \ {t} BY <1>t, <2>3 DEF Contenders
  <2>6. Sleepers' \subseteq Sleepers BY <1>t, <2>3 DEF Sleepers
  <2>7. Cardinality(Contenders') = Cardinality(Contenders) - 1 /\ Cardinality(Contenders) \in Nat
    BY <2>4, <2>5, CountThreads
  <2>8. QED BY <1>0, <2>2, <2>6, <2>7 DEF NoLostWakeup
<1>8. ASSUME NEW t \in Threads, NEW opened \in BOOLEAN, ScanClosed(t, opened)
      PROVE  NoLostWakeup'
  <2>1. m_conns # <<>> BY <1>8 DEF ScanClosed, TypeInv, ScanIsSafe
  <2>2. \E c \in Handles : m_conns' = Append(Tail(m_conns), c)
    BY <1>0, <1>8 DEF ScanClosed
  <2>3. Len(m_conns') = Len(m_conns)
    <3>1. PICK c \in Handles : m_conns' = Append(Tail(m_conns), c) BY <2>2
    <3>2. Tail(m_conns) \in Seq(Handles) /\ Len(Tail(m_conns)) = Len(m_conns) - 1
      BY <1>0, <2>1, TailFacts
    <3>3. Len(m_conns) \in Nat BY <1>0
    <3>4. QED BY <3>1, <3>2, <3>3, AppendFacts
  <2>4. QED BY <1>0, <1>8, <2>3, WakeFrame DEF ScanClosed
<1>9. ASSUME NEW t \in Threads, ExecCheck(t) PROVE NoLostWakeup'
  <2>1. \E l \in {"client", "give"} : pc' = [pc EXCEPT ![t] = l]
    BY <1>9 DEF ExecCheck, Goto
  <2>2. pc[t] = "execcheck" /\ m_conns' = m_conns /\ silent' = silent
    BY <1>9 DEF ExecCheck
  <2>3. QED BY <1>0, <1>t, <2>1, <2>2, WakeFrame
<1>10. ASSUME NEW t \in Threads, NEW c \in Conns, Giveback(t, c) PROVE NoLostWakeup'
  BY <1>0, <1>t, <1>10, WakeEnqueue DEF Giveback
<1>11. ASSUME NEW t \in Threads, ExecGiveback(t) PROVE NoLostWakeup'
  <2> DEFINE moved == [pc EXCEPT ![t] = "client"]
  <2>1. /\ moved \in [Threads -> Labels] /\ db[t] \in Handles /\ Enqueue(db[t], moved)
        /\ \A u \in Threads : moved[u] = pc[u] \/ (pc[u] = "give" /\ moved[u] = "client")
    BY <1>0, <1>t, <1>11 DEF ExecGiveback, TypeInv, TypeOK, Labels
  <2> HIDE DEF moved
  <2>2. QED BY <2>1, WakeEnqueue
<1>12. ASSUME NEW t \in Threads, NEW n \in Nums, SetConnNum(t, n) PROVE NoLostWakeup'
  BY <1>0, <1>t, <1>12, WakeFrame DEF SetConnNum, Goto
<1>13. ASSUME NEW t \in Threads, Grow(t) PROVE NoLostWakeup'
  <2>1. Sleepers' = Sleepers BY <1>13 DEF Grow, Sleepers
  <2>2. silent' \/ Sleepers = {} BY <1>13 DEF Grow
  <2>3. QED BY <2>1, <2>2 DEF NoLostWakeup
<1>14. ASSUME NEW t \in Threads, GrowFails(t) PROVE NoLostWakeup'
  BY <1>0, <1>14, WakeFrame DEF GrowFails, vars
<1>15. ASSUME NEW t \in Threads, Shrink(t) PROVE NoLostWakeup'
  <2>1. m_conns # <<>> BY <1>0, <1>15 DEF Shrink, TypeInv, TypeOK
  <2>2. Len(m_conns') =< Len(m_conns) BY <1>0, <1>15, <2>1, TailFacts DEF Shrink
  <2>3. QED BY <1>15, <2>2, WakeFrame DEF Shrink
<1>16. ASSUME NEW t \in Threads, Resized(t) PROVE NoLostWakeup'
  BY <1>0, <1>t, <1>16, WakeFrame DEF Resized, Goto
<1>17. ASSUME NEW t \in Threads, Configure(t) PROVE NoLostWakeup'
  BY <1>0, <1>17, WakeFrame DEF Configure, SetFactoryFn, SetThreadPool
<1>18. ASSUME NEW c \in Conns, TaskGiveback(c) PROVE NoLostWakeup'
  BY <1>0, <1>t, <1>18, WakeEnqueue DEF TaskGiveback
<1>19. ASSUME NEW c \in Conns, Drop(c) PROVE NoLostWakeup'
  BY <1>0, <1>19, WakeFrame DEF Drop
<1>20. CASE UNCHANGED vars
  BY <1>0, <1>20, WakeFrame DEF vars
<1>21. QED
  BY <1>1, <1>2, <1>3, <1>4, <1>5, <1>6, <1>7, <1>8, <1>9, <1>10, <1>11, <1>12,
     <1>13, <1>14, <1>15, <1>16, <1>17, <1>18, <1>19, <1>20 DEF Next

\* giveback never leaves a handle in the queue beside a sleeping acquire(ms)
\* with nobody on the way to take it; only setConnNum can.
THEOREM WakeupSafe == Spec => []NoLostWakeup
<1>1. Init => TypeInv BY TypeInit
<1>2. Init => NoLostWakeup BY DEF Init, NoLostWakeup, Sleepers
<1>3. TypeInv /\ [Next]_vars => TypeInv' BY TypeNext
<1>4. TypeInv /\ TypeInv' /\ NoLostWakeup /\ [Next]_vars => NoLostWakeup' BY WakeNext
<1>5. QED BY <1>1, <1>2, <1>3, <1>4, PTL DEF Spec
-----------------------------------------------------------------------------
(* The refinement                                                           *)

\* Who owns a connection, read off the place where its handle is.
LEMMA OwnerIs ==
    TypeInv /\ Ownership =>
        \A c \in Conns :
            /\ c \in Idle => Owner[c] = {"pool"}
            /\ c \in tasks => Owner[c] = {"task"}
            /\ \A t \in Threads : c \in held[t] \/ db[t] = c => Owner[c] = {t}
            /\ c \notin Idle \cup tasks /\ (\A t \in Threads : c \notin held[t] /\ db[t] # c)
                  => Owner[c] = {}
<1> SUFFICES ASSUME TypeInv, Ownership, NEW c \in Conns
             PROVE  /\ c \in Idle => Owner[c] = {"pool"}
                    /\ c \in tasks => Owner[c] = {"task"}
                    /\ \A t \in Threads : c \in held[t] \/ db[t] = c => Owner[c] = {t}
                    /\ c \notin Idle \cup tasks /\ (\A t \in Threads : c \notin held[t] /\ db[t] # c)
                          => Owner[c] = {}
  OBVIOUS
<1>0. c # NoDb BY ConnsAssumption
<1> DEFINE Users == {t \in Threads : c \in held[t] \/ db[t] = c}
<1>1. Owner[c] = (IF c \in Idle THEN {"pool"} ELSE {}) \cup (IF c \in tasks THEN {"task"} ELSE {})
                 \cup Users
  BY DEF Owner
<1>2. c \in Idle => c \notin tasks /\ Users = {}
  BY <1>0 DEF Ownership, ExclusiveOwnership
<1>3. c \in tasks => c \notin Idle /\ Users = {}
  BY <1>0 DEF Ownership, ExclusiveOwnership
<1>4. ASSUME NEW t \in Threads, c \in held[t] \/ db[t] = c
      PROVE  c \notin Idle \cup tasks /\ Users = {t}
  BY <1>0, <1>4 DEF Ownership, ExclusiveOwnership
<1>5. (\A t \in Threads : c \notin held[t] /\ db[t] # c) => Users = {}
  OBVIOUS
<1> HIDE DEF Users
<1>6. QED BY <1>1, <1>2, <1>3, <1>4, <1>5

\* A step that moves the handles of connection c only.
LEMMA OwnerMoves ==
    ASSUME NEW c \in Conns, NEW X, Owner'[c] = X,
           \A d \in Conns \ {c} :
              /\ d \in Idle' <=> d \in Idle
              /\ d \in tasks' <=> d \in tasks
              /\ \A t \in Threads : (d \in held'[t] \/ db'[t] = d) <=> (d \in held[t] \/ db[t] = d)
    PROVE  Owner' = [Owner EXCEPT ![c] = X]
<1>1. ASSUME NEW d \in Conns \ {c} PROVE Owner'[d] = Owner[d]
  BY <1>1 DEF Owner
<1>2. /\ Owner' = [d \in Conns |-> Owner'[d]] /\ Owner = [d \in Conns |-> Owner[d]]
  BY DEF Owner
<1> HIDE DEF Owner
<1>3. QED BY <1>1, <1>2

\* A step that moves no handle of a connection.
LEMMA OwnerStays ==
    ASSUME \A d \in Conns :
              /\ d \in Idle' <=> d \in Idle
              /\ d \in tasks' <=> d \in tasks
              /\ \A t \in Threads : (d \in held'[t] \/ db'[t] = d) <=> (d \in held[t] \/ db[t] = d)
    PROVE  Owner' = Owner
  BY DEF Owner

LEMMA LedgerInit == Init => Ledger!Init
<1> SUFFICES ASSUME Init PROVE Ledger!Init
  OBVIOUS
<1>1. \A c \in Conns : Owner[c] = {}
  BY ConnsAssumption DEF Init, Owner, Idle, Elems
<1>2. Owner = [c \in Conns |-> {}] BY <1>1 DEF Owner
<1>3. QED BY <1>2 DEF Init, Ledger!Init

\* Every step of the pool is a step of the ledger, or moves nothing.
LEMMA LedgerNext ==
    TypeInv /\ Ownership /\ TypeInv' /\ Ownership' /\ [Next]_vars
        => [Ledger!Next]_(Ledger!ledger)
<1> SUFFICES ASSUME TypeInv, Ownership, TypeInv', Ownership', [Next]_vars
             PROVE  Ledger!Next \/ (Owner' = Owner /\ status' = status)
  BY DEF Ledger!ledger
<1> USE ConnsAssumption, OwnersAssumption
<1> DEFINE Stutter == Owner' = Owner /\ status' = status
<1>0. Handles = Conns \cup {NoDb} /\ m_conns \in Seq(Handles)
  BY DEF Handles, TypeInv, TypeOK
<1>t. /\ db \in [Threads -> Conns \cup {NoDb}]
      /\ held \in [Threads -> SUBSET Conns]
      /\ status \in [Conns -> {"none", "open", "closed"}]
      /\ tasks \in SUBSET Conns
  BY DEF TypeInv, TypeOK
<1>o. \A c \in Conns :
         /\ c \in Idle => Owner[c] = {"pool"}
         /\ c \in tasks => Owner[c] = {"task"}
         /\ \A t \in Threads : c \in held[t] \/ db[t] = c => Owner[c] = {t}
  BY OwnerIs
<1>p. (\A c \in Conns :
         /\ c \in Idle => Owner[c] = {"pool"}
         /\ c \in tasks => Owner[c] = {"task"}
         /\ \A t \in Threads : c \in held[t] \/ db[t] = c => Owner[c] = {t}
         /\ c \notin Idle \cup tasks /\ (\A t \in Threads : c \notin held[t] /\ db[t] # c)
               => Owner[c] = {})'
  BY OwnerIs, PTL
<1>1. ASSUME NEW t \in Threads,
             \/ \E kind \in {"acquire", "timed", "exec"} : Call(t, kind)
             \/ Check(t) \/ WaitFor(t) \/ Expire(t) \/ Spurious(t) \/ Expired(t)
             \/ Take(t) \/ \E n \in Nums : SetConnNum(t, n)
             \/ GrowFails(t) \/ Resized(t) \/ Configure(t)
      PROVE  Stutter
  <2>1. UNCHANGED <<m_conns, db, held, status, tasks>>
    BY <1>1 DEF Call, Check, WaitFor, Expire, Spurious, LeaveSleep, Expired, Take,
                SetConnNum, GrowFails, Resized, Configure, SetFactoryFn,
                SetThreadPool, vars
  <2>2. QED BY <2>1 DEF Owner, Idle
<1>2. ASSUME NEW t \in Threads, ScanOpen(t) PROVE \E c \in Conns : Ledger!Lend(c, t)
  <2> DEFINE c == Head(m_conns)
  <2>1. m_conns # <<>> BY <1>2 DEF ScanOpen, TypeInv, ScanIsSafe
  <2>2. c \in Conns /\ c \in Idle /\ status[c] = "open"
    BY <1>0, <1>2, <2>1, TailFacts DEF ScanOpen, IsOpen, Idle
  <2>3. Idle' = Idle \ {c}
    BY <1>0, <1>2, <2>1, <2>2, TailFacts DEF ScanOpen, Idle, Ownership, ExclusiveOwnership
  <2>4. db[t] = NoDb BY <1>2 DEF ScanOpen, TypeInv, TypeOK
  <2>5. status' = status /\ tasks' = tasks BY <1>2 DEF ScanOpen
  <2>6. \/ /\ db' = [db EXCEPT ![t] = c] /\ held' = held
        \/ /\ held' = [held EXCEPT ![t] = held[t] \cup {c}] /\ db' = db
    BY <1>2 DEF ScanOpen
  <2>7. c \in held'[t] \/ db'[t] = c BY <1>t, <2>6
  <2>8. Owner'[c] = {t} BY <1>p, <2>2, <2>7
  <2>9. Owner' = [Owner EXCEPT ![c] = {t}]
    <3>1. \A d \in Conns \ {c}, u \in Threads :
             (d \in held'[u] \/ db'[u] = d) <=> (d \in held[u] \/ db[u] = d)
      BY <1>t, <2>4, <2>6
    <3>2. QED BY <2>2, <2>3, <2>5, <2>8, <3>1, OwnerMoves
  <2>10. Ledger!Lend(c, t)
    BY <1>o, <2>2, <2>5, <2>9 DEF Ledger!Lend, Ledger!Passes
  <2>11. QED BY <2>2, <2>10
<1>3. ASSUME NEW t \in Threads, NEW opened \in BOOLEAN, ScanClosed(t, opened)
      PROVE  Ledger!Next \/ Stutter
  <2> DEFINE old == Head(m_conns)
             removed == Removed(old)
  <2>1. m_conns # <<>> BY <1>3 DEF ScanClosed, TypeInv, ScanIsSafe
  <2>2. /\ old \in Handles /\ old \in Idle /\ ~ IsOpen(old)
        /\ Tail(m_conns) \in Seq(Handles)
        /\ Idle = Elems(Tail(m_conns)) \cup {old}
        /\ old # NoDb => old \notin Elems(Tail(m_conns))
    BY <1>0, <1>3, <2>1, TailFacts
       DEF ScanClosed, Idle, Ownership, ExclusiveOwnership
  <2>3. /\ removed \in [Conns -> {"none", "open", "closed"}]
        /\ old = NoDb => removed = status
        /\ old # NoDb => removed = [status EXCEPT ![old] = "none"]
    BY <1>t, <2>2 DEF Removed
  <2>4. old # NoDb => old \in Conns /\ status[old] = "closed" /\ Owner[old] = {"pool"}
    BY <1>0, <1>t, <1>o, <2>2 DEF IsOpen, Ownership, OwnersExist
  <2>5. UNCHANGED <<db, held, tasks>> BY <1>3 DEF ScanClosed
  <2>6. CASE m_factory = "invalid"
    <3>1. m_conns' = Append(Tail(m_conns), NoDb) /\ status' = removed
      BY <1>3, <2>6 DEF ScanClosed
    <3>2. Idle' = Elems(Tail(m_conns)) \cup {NoDb}
      BY <1>0, <2>2, <3>1, AppendFacts DEF Idle
    <3>3. CASE old = NoDb
      <4>1. \A d \in Conns : d \in Idle' <=> d \in Idle BY <2>2, <3>2, <3>3
      <4>2. Owner' = Owner BY <2>5, <4>1, OwnerStays
      <4>3. QED BY <2>3, <3>1, <3>3, <4>2
    <3>4. CASE old # NoDb
      <4>1. old \notin Idle' /\ \A d \in Conns \ {old} : d \in Idle' <=> d \in Idle
        BY <2>2, <2>4, <3>2, <3>4
      <4>2. old \notin tasks /\ \A u \in Threads : old \notin held[u] /\ db[u] # old
        BY <2>2, <3>4 DEF Ownership, ExclusiveOwnership
      <4>3. Owner'[old] = {} BY <1>p, <2>4, <2>5, <3>4, <4>1, <4>2
      <4>4. Owner' = [Owner EXCEPT ![old] = {}]
        BY <2>4, <2>5, <3>4, <4>1, <4>3, OwnerMoves
      <4>5. Ledger!Remove(old)
        BY <2>3, <2>4, <3>1, <3>4, <4>4 DEF Ledger!Remove
      <4>6. QED BY <2>4, <3>4, <4>5 DEF Ledger!Next
    <3>5. QED BY <3>3, <3>4
  <2>7. CASE m_factory # "invalid"
    <3> DEFINE s == IF opened THEN "open" ELSE "closed"
    <3>1. PICK c \in Conns : /\ removed[c] = "none"
                             /\ m_conns' = Append(Tail(m_conns), c)
                             /\ status' = [removed EXCEPT ![c] = s]
      BY <1>3, <2>7 DEF ScanClosed
    <3>2. Idle' = Elems(Tail(m_conns)) \cup {c}
      BY <1>0, <2>2, <3>1, AppendFacts DEF Idle
    <3>3. Owner'[c] = {"pool"} BY <1>p, <3>2
    <3>4. s \in {"open", "closed"} OBVIOUS
    <3> HIDE DEF s
    <3>5. CASE old = NoDb
      <4>1. \A d \in Conns \ {c} : d \in Idle' <=> d \in Idle BY <2>2, <3>2, <3>5
      <4>2. Owner' = [Owner EXCEPT ![c] = {"pool"}]
        BY <2>5, <3>3, <4>1, OwnerMoves
      <4>3. Ledger!Create(c, s)
        BY <2>3, <3>1, <3>5, <4>2 DEF Ledger!Create
      <4>4. QED BY <3>4, <4>3 DEF Ledger!Next
    <3>6. CASE old # NoDb
      <4>1. \A d \in Conns \ {c, old} : Owner'[d] = Owner[d]
        <5>1. \A d \in Conns \ {c, old} : d \in Idle' <=> d \in Idle BY <2>2, <3>2
        <5>2. QED BY <2>5, <5>1 DEF Owner
      <4>2. c # old => Owner'[old] = {}
        <5>1. c # old => old \notin Idle' BY <2>2, <3>2, <3>6
        <5>2. old \notin tasks /\ \A u \in Threads : old \notin held[u] /\ db[u] # old
          BY <2>2, <3>6 DEF Ownership, ExclusiveOwnership
        <5>3. QED BY <1>p, <2>4, <2>5, <3>6, <5>1, <5>2
      <4>3. Owner' = [Owner EXCEPT ![old] = {}, ![c] = {"pool"}]
        <5>1. Owner' = [d \in Conns |-> Owner'[d]] /\ Owner = [d \in Conns |-> Owner[d]]
          BY DEF Owner
        <5>2. QED BY <2>4, <3>3, <3>6, <4>1, <4>2, <5>1
      <4>4. c = old \/ status[c] = "none" BY <1>t, <2>3, <2>4, <3>1, <3>6
      <4>5. status' = [status EXCEPT ![old] = "none", ![c] = s] BY <2>3, <3>1, <3>6
      <4>6. Ledger!Replace(old, c, s)
        BY <2>4, <3>6, <4>3, <4>4, <4>5 DEF Ledger!Replace
      <4>7. QED BY <2>4, <3>4, <3>6, <4>6 DEF Ledger!Next
    <3>7. QED BY <3>5, <3>6
  <2>8. QED BY <2>6, <2>7
<1>4. ASSUME NEW t \in Threads, ExecCheck(t) PROVE Ledger!Next \/ Stutter
  <2>1. Idle' = Idle /\ held' = held /\ status' = status BY <1>4 DEF ExecCheck, Idle
  <2>2. CASE db[t] = NoDb
    <3>1. \A d \in Conns : \A u \in Threads : db'[u] = d <=> db[u] = d
      BY <1>4, <1>t, <2>2 DEF ExecCheck, IsOpen
    <3>2. tasks' = tasks BY <1>4, <2>2 DEF ExecCheck, IsOpen
    <3>3. Owner' = Owner BY <2>1, <3>1, <3>2, OwnerStays
    <3>4. QED BY <2>1, <3>3
  <2>3. CASE db[t] # NoDb
    <3> DEFINE c == db[t]
    <3>1. c \in Conns /\ Owner[c] = {t} BY <1>t, <1>o, <2>3
    <3>2. c \notin Idle \cup tasks /\ \A u \in Threads : c \notin held[u] /\ (u # t => db[u] # c)
      BY <2>3 DEF Ownership, ExclusiveOwnership
    <3>3. status[c] \in {"open", "closed"}
      BY <1>t, <3>1 DEF Ownership, OwnersExist
    <3>4. CASE ~ IsOpen(c)
      <4>1. tasks' = tasks /\ db' = [db EXCEPT ![t] = NoDb] BY <1>4, <3>4 DEF ExecCheck
      <4>2. Owner'[c] = {} BY <1>p, <1>t, <2>1, <3>1, <3>2, <4>1
      <4>3. \A d \in Conns \ {c}, u \in Threads : db'[u] = d <=> db[u] = d BY <1>t, <4>1
      <4>4. Owner' = [Owner EXCEPT ![c] = {}] BY <2>1, <3>1, <4>1, <4>2, <4>3, OwnerMoves
      <4>5. Ledger!LeaveBehind(c, t)
        BY <2>1, <2>3, <3>1, <3>3, <3>4, <4>4 DEF IsOpen, Ledger!LeaveBehind, Ledger!Passes
      <4>6. QED BY <3>1, <4>5 DEF Ledger!Next
    <3>5. CASE IsOpen(c) /\ ~ m_threads
      <4>1. tasks' = tasks /\ db' = db BY <1>4, <3>5 DEF ExecCheck
      <4>2. Owner' = Owner BY <2>1, <4>1, OwnerStays
      <4>3. QED BY <2>1, <4>2
    <3>6. CASE IsOpen(c) /\ m_threads
      <4>1. tasks' = tasks \cup {c} /\ db' = [db EXCEPT ![t] = NoDb] BY <1>4, <3>6 DEF ExecCheck
      <4>2. Owner'[c] = {"task"} BY <1>p, <3>1, <4>1
      <4>3. \A d \in Conns \ {c}, u \in Threads : db'[u] = d <=> db[u] = d BY <1>t, <4>1
      <4>4. Owner' = [Owner EXCEPT ![c] = {"task"}] BY <2>1, <3>1, <4>1, <4>2, <4>3, OwnerMoves
      <4>5. Ledger!HandOver(c, t)
        BY <2>1, <3>1, <3>6, <4>4 DEF IsOpen, Ledger!HandOver, Ledger!Passes
      <4>6. QED BY <3>1, <4>5 DEF Ledger!Next
    <3>7. QED BY <3>4, <3>5, <3>6
  <2>4. QED BY <2>2, <2>3
\* giveback by owner o of connection c.
<1>5. ASSUME NEW c \in Conns, NEW o \in Threads \cup {"task"}, Owner[c] = {o},
             m_conns' = Append(m_conns, c), status' = status,
             \A d \in Conns \ {c} :
                /\ d \in tasks' <=> d \in tasks
                /\ \A u \in Threads : (d \in held'[u] \/ db'[u] = d) <=> (d \in held[u] \/ db[u] = d)
      PROVE  Ledger!Next
  <2>1. Idle' = Idle \cup {c} BY <1>0, <1>5, AppendFacts DEF Idle
  <2>2. Owner'[c] = {"pool"} BY <1>p, <2>1
  <2>3. Owner' = [Owner EXCEPT ![c] = {"pool"}] BY <1>5, <2>1, <2>2, OwnerMoves
  <2>4. o # "pool" BY <1>5
  <2>5. Ledger!TakeBack(c, o) BY <1>5, <2>3, <2>4 DEF Ledger!TakeBack, Ledger!Passes
  <2>6. QED BY <1>5, <2>5 DEF Ledger!Next, Ledger!Owners
<1>6. ASSUME NEW t \in Threads, NEW c \in Conns, Giveback(t, c) PROVE Ledger!Next
  <2>1. /\ c \in held[t] /\ held' = [held EXCEPT ![t] = held[t] \ {c}]
        /\ m_conns' = Append(m_conns, c) /\ status' = status /\ db' = db /\ tasks' = tasks
    BY <1>6 DEF Giveback, Enqueue
  <2>2. Owner[c] = {t} BY <1>o, <2>1
  <2>3. \A d \in Conns \ {c}, u \in Threads : d \in held'[u] <=> d \in held[u] BY <1>t, <2>1
  <2>4. QED BY <1>5, <2>1, <2>2, <2>3
<1>7. ASSUME NEW t \in Threads, ExecGiveback(t) PROVE Ledger!Next
  <2> DEFINE c == db[t]
  <2>1. /\ db' = [db EXCEPT ![t] = NoDb] /\ c \in Conns
        /\ m_conns' = Append(m_conns, c) /\ status' = status /\ held' = held /\ tasks' = tasks
    BY <1>7, <1>t DEF ExecGiveback, Enqueue, TypeInv, TypeOK
  <2>2. Owner[c] = {t} BY <1>o, <2>1
  <2>3. \A d \in Conns \ {c}, u \in Threads : db'[u] = d <=> db[u] = d BY <1>t, <2>1
  <2>4. QED BY <1>5, <2>1, <2>2, <2>3
<1>8. ASSUME NEW c \in Conns, TaskGiveback(c) PROVE Ledger!Next
  <2>1. /\ c \in tasks /\ tasks' = tasks \ {c}
        /\ m_conns' = Append(m_conns, c) /\ status' = status /\ db' = db /\ held' = held
    BY <1>8 DEF TaskGiveback, Enqueue
  <2>2. Owner[c] = {"task"} BY <1>o, <2>1
  <2>3. QED BY <1>5, <2>1, <2>2
<1>9. ASSUME NEW t \in Threads, Grow(t) PROVE Ledger!Next
  <2>1. PICK c \in Conns : /\ status[c] = "none"
                           /\ status' = [status EXCEPT ![c] = "open"]
                           /\ m_conns' = Append(m_conns, c)
    BY <1>9 DEF Grow
  <2>2. UNCHANGED <<db, held, tasks>> BY <1>9 DEF Grow
  <2>3. Idle' = Idle \cup {c} BY <1>0, <2>1, AppendFacts DEF Idle
  <2>4. Owner'[c] = {"pool"} BY <1>p, <2>3
  <2>5. Owner' = [Owner EXCEPT ![c] = {"pool"}] BY <2>2, <2>3, <2>4, OwnerMoves
  <2>6. Ledger!Create(c, "open") BY <2>1, <2>5 DEF Ledger!Create
  <2>7. QED BY <2>6 DEF Ledger!Next
<1>10. ASSUME NEW t \in Threads, Shrink(t) PROVE Ledger!Next \/ Stutter
  <2> DEFINE c == Head(m_conns)
  <2>1. m_conns # <<>> BY <1>0, <1>10 DEF Shrink, TypeInv, TypeOK
  <2>2. /\ c \in Handles /\ c \in Idle
        /\ Idle = Elems(Tail(m_conns)) \cup {c} /\ Idle' = Elems(Tail(m_conns))
        /\ c # NoDb => c \notin Idle'
    BY <1>0, <1>10, <2>1, TailFacts DEF Shrink, Idle, Ownership, ExclusiveOwnership
  <2>3. UNCHANGED <<db, held, tasks>> /\ status' = Removed(c) BY <1>10 DEF Shrink
  <2>4. CASE c = NoDb
    <3>1. \A d \in Conns : d \in Idle' <=> d \in Idle BY <2>2, <2>4
    <3>2. Owner' = Owner BY <2>3, <3>1, OwnerStays
    <3>3. QED BY <2>3, <2>4, <3>2 DEF Removed
  <2>5. CASE c # NoDb
    <3>1. c \in Conns /\ Owner[c] = {"pool"} BY <1>0, <1>o, <2>2, <2>5
    <3>2. c \notin tasks /\ \A u \in Threads : c \notin held[u] /\ db[u] # c
      BY <2>2, <2>5 DEF Ownership, ExclusiveOwnership
    <3>3. Owner'[c] = {} BY <1>p, <2>2, <2>3, <2>5, <3>1, <3>2
    <3>4. Owner' = [Owner EXCEPT ![c] = {}] BY <2>2, <2>3, <3>1, <3>3, OwnerMoves
    <3>5. Ledger!Remove(c) BY <2>3, <2>5, <3>1, <3>4 DEF Removed, Ledger!Remove
    <3>6. QED BY <3>1, <3>5 DEF Ledger!Next
  <2>6. QED BY <2>4, <2>5
<1>11. ASSUME NEW c \in Conns, Drop(c) PROVE Ledger!Next
  <2>1. Owner' = Owner BY <1>11 DEF Drop, Owner, Idle
  <2>2. Ledger!Close(c) BY <1>11, <2>1 DEF Drop, Ledger!Close
  <2>3. QED BY <2>2 DEF Ledger!Next
<1>12. CASE UNCHANGED vars
  BY <1>12 DEF vars, Owner, Idle
<1>13. QED
  <2>1. ASSUME NEW c \in Conns, NEW t \in Threads, Ledger!Lend(c, t) PROVE Ledger!Next
    BY <2>1 DEF Ledger!Next
  <2>2. QED
    BY <1>1, <1>2, <1>3, <1>4, <1>6, <1>7, <1>8, <1>9, <1>10, <1>11, <1>12, <2>1 DEF Next

\* DBConnPool implements ConnLedger for any threads and connections: acquire lends
\* only open connections, to one thread at a time; exec passes them to tasks only
\* while they are open; giveback takes them back in any state; setConnNum and the
\* scan of acquire remove only idle ones; and only one that exec found closed is
\* left behind.
THEOREM LedgerImplemented == Spec => ImplementsLedger
<1>1. Init => TypeInv /\ Ownership /\ Ledger!Init BY TypeInit, OwnInit, LedgerInit
<1>2. TypeInv /\ Ownership /\ [Next]_vars => (TypeInv /\ Ownership)' BY TypeNext, OwnNext
<1>3. QED BY <1>1, <1>2, LedgerNext, PTL DEF Spec, ImplementsLedger, Ledger!Spec

-----------------------------------------------------------------------------
(* The population                                                           *)

Busy == {t \in Threads : db[t] # NoDb}
Lent == {h \in Threads \X Conns : h[2] \in held[h[1]]}

\* Counting elements of a finite set.
LEMMA Counting ==
    ASSUME NEW S, IsFiniteSet(S)
    PROVE  /\ Cardinality(S) \in Nat
           /\ \A x : x \notin S => Cardinality(S \cup {x}) = Cardinality(S) + 1
           /\ \A x \in S : Cardinality(S \ {x}) = Cardinality(S) - 1
  BY FS_CardinalityType, FS_AddElement, FS_RemoveElement

\* All four parts of the population are finite.
LEMMA PopulationCounts ==
    TypeInv =>
        /\ IsFiniteSet(tasks) /\ IsFiniteSet(Busy) /\ IsFiniteSet(Lent)
        /\ Cardinality(tasks) \in Nat /\ Cardinality(Busy) \in Nat
        /\ Cardinality(Lent) \in Nat /\ Len(m_conns) \in Nat
        /\ Population = Len(m_conns) + Cardinality(tasks) + Cardinality(Busy) + Cardinality(Lent)
<1> SUFFICES ASSUME TypeInv
             PROVE  /\ IsFiniteSet(tasks) /\ IsFiniteSet(Busy) /\ IsFiniteSet(Lent)
                    /\ Cardinality(tasks) \in Nat /\ Cardinality(Busy) \in Nat
                    /\ Cardinality(Lent) \in Nat /\ Len(m_conns) \in Nat
                    /\ Population = Len(m_conns) + Cardinality(tasks) + Cardinality(Busy)
                                     + Cardinality(Lent)
  OBVIOUS
<1>1. IsFiniteSet(Threads \X Conns) BY ThreadsAssumption, ConnsAssumption, FS_Product
<1>2. tasks \in SUBSET Conns /\ Busy \in SUBSET Threads /\ Lent \in SUBSET (Threads \X Conns)
  BY DEF TypeInv, TypeOK, Busy, Lent
<1>3. IsFiniteSet(tasks) /\ IsFiniteSet(Busy) /\ IsFiniteSet(Lent)
  BY <1>1, <1>2, ThreadsAssumption, ConnsAssumption, FS_Subset
<1>4. Len(m_conns) \in Nat BY DEF TypeInv, TypeOK
<1>5. QED BY <1>3, <1>4, Counting DEF Population, Busy, Lent

\* A client gets one handle, and gives one back.
LEMMA LentChanges ==
    ASSUME TypeInv, NEW t \in Threads, NEW c \in Conns
    PROVE  /\ c \notin held[t] /\ held' = [held EXCEPT ![t] = held[t] \cup {c}]
                 => Lent' = Lent \cup {<<t, c>>} /\ <<t, c>> \notin Lent
           /\ c \in held[t] /\ held' = [held EXCEPT ![t] = held[t] \ {c}]
                 => Lent' = Lent \ {<<t, c>>} /\ <<t, c>> \in Lent
<1>t. held \in [Threads -> SUBSET Conns] BY DEF TypeInv, TypeOK
<1>1. ASSUME held' = [held EXCEPT ![t] = held[t] \cup {c}]
      PROVE  Lent' = Lent \cup {<<t, c>>}
  BY <1>t, <1>1 DEF Lent
<1>2. ASSUME held' = [held EXCEPT ![t] = held[t] \ {c}]
      PROVE  Lent' = Lent \ {<<t, c>>}
  BY <1>t, <1>2 DEF Lent
<1>3. <<t, c>> \in Lent <=> c \in held[t] BY DEF Lent
<1>4. QED BY <1>1, <1>2, <1>3

\* An exec gets a handle, and gives it up.
LEMMA BusyChanges ==
    ASSUME TypeInv, NEW t \in Threads, NEW c \in Conns
    PROVE  /\ db[t] = NoDb /\ db' = [db EXCEPT ![t] = c]
                 => Busy' = Busy \cup {t} /\ t \notin Busy
           /\ db[t] = c /\ db' = [db EXCEPT ![t] = NoDb]
                 => Busy' = Busy \ {t} /\ t \in Busy
  BY ConnsAssumption DEF Busy, TypeInv, TypeOK

LEMMA PopulationStep ==
    TypeInv /\ Ownership /\ TypeInv' /\ [Next]_vars =>
        \/ UNCHANGED vars
        \/ Population' = Population
        \/ \E t \in Threads : m_lock = t /\ pc[t] = "resize"
        \/ /\ Population' = Population - 1
           /\ \E t \in Threads : pc[t] = "execcheck" /\ ~ IsOpen(db[t]) /\ db'[t] # db[t]
<1> DEFINE Goal == \/ UNCHANGED vars
                   \/ Population' = Population
                   \/ \E t \in Threads : m_lock = t /\ pc[t] = "resize"
                   \/ /\ Population' = Population - 1
                      /\ \E t \in Threads : pc[t] = "execcheck" /\ ~ IsOpen(db[t]) /\ db'[t] # db[t]
<1> SUFFICES ASSUME TypeInv, Ownership, TypeInv', [Next]_vars PROVE Goal
  OBVIOUS
<1> USE ConnsAssumption
<1>0. Handles = Conns \cup {NoDb} /\ m_conns \in Seq(Handles)
  BY DEF Handles, TypeInv, TypeOK
<1>t. /\ db \in [Threads -> Conns \cup {NoDb}]
      /\ held \in [Threads -> SUBSET Conns]
      /\ tasks \in SUBSET Conns
  BY DEF TypeInv, TypeOK
<1>c. /\ IsFiniteSet(tasks) /\ IsFiniteSet(Busy) /\ IsFiniteSet(Lent)
      /\ Cardinality(tasks) \in Nat /\ Cardinality(Busy) \in Nat
      /\ Cardinality(Lent) \in Nat /\ Len(m_conns) \in Nat
      /\ Population = Len(m_conns) + Cardinality(tasks) + Cardinality(Busy) + Cardinality(Lent)
  BY PopulationCounts
<1>p. Population' = Len(m_conns') + Cardinality(tasks') + Cardinality(Busy') + Cardinality(Lent')
  <2>1. (TypeInv => Population = Len(m_conns) + Cardinality(tasks) + Cardinality(Busy)
                                 + Cardinality(Lent))'
    BY PopulationCounts, PTL
  <2>2. QED BY <2>1
\* A step that leaves every handle in the hands that have it.
<1>1. ASSUME Len(m_conns') = Len(m_conns), UNCHANGED <<db, held, tasks>> PROVE Goal
  <2>1. Busy' = Busy /\ Lent' = Lent BY <1>1 DEF Busy, Lent
  <2>2. QED BY <1>1, <1>c, <1>p, <2>1
<1>2. ASSUME NEW t \in Threads,
             \/ \E kind \in {"acquire", "timed", "exec"} : Call(t, kind)
             \/ Check(t) \/ WaitFor(t) \/ Expire(t) \/ Spurious(t) \/ Expired(t)
             \/ Take(t) \/ \E n \in Nums : SetConnNum(t, n)
             \/ GrowFails(t) \/ Resized(t) \/ Configure(t)
      PROVE  Goal
  <2>1. UNCHANGED <<m_conns, db, held, tasks>>
    BY <1>2 DEF Call, Check, WaitFor, Expire, Spurious, LeaveSleep, Expired, Take,
                SetConnNum, GrowFails, Resized, Configure, SetFactoryFn,
                SetThreadPool, vars
  <2>2. QED BY <2>1, <1>1
<1>3. ASSUME NEW t \in Threads, ScanOpen(t) PROVE Goal
  <2> DEFINE c == Head(m_conns)
  <2>1. m_conns # <<>> BY <1>3 DEF ScanOpen, TypeInv, ScanIsSafe
  <2>2. c \in Conns /\ c \in Idle /\ Len(m_conns') = Len(m_conns) - 1
    BY <1>0, <1>3, <2>1, TailFacts DEF ScanOpen, IsOpen, Idle
  <2>3. db[t] = NoDb /\ tasks' = tasks BY <1>3 DEF ScanOpen, TypeInv, TypeOK
  <2>4. c \notin held[t] BY <2>2 DEF Ownership, ExclusiveOwnership
  <2>5. CASE db' = [db EXCEPT ![t] = c] /\ held' = held
    <3>1. Cardinality(Busy') = Cardinality(Busy) + 1
      BY <1>c, <2>2, <2>3, <2>5, BusyChanges, Counting
    <3>2. Lent' = Lent BY <2>5 DEF Lent
    <3>3. QED BY <1>c, <1>p, <2>2, <2>3, <3>1, <3>2
  <2>6. CASE held' = [held EXCEPT ![t] = held[t] \cup {c}] /\ db' = db
    <3>1. Cardinality(Lent') = Cardinality(Lent) + 1
      BY <1>c, <2>2, <2>4, <2>6, LentChanges, Counting
    <3>2. Busy' = Busy BY <2>6 DEF Busy
    <3>3. QED BY <1>c, <1>p, <2>2, <2>3, <3>1, <3>2
  <2>7. QED BY <1>3, <2>5, <2>6 DEF ScanOpen
<1>4. ASSUME NEW t \in Threads, NEW opened \in BOOLEAN, ScanClosed(t, opened) PROVE Goal
  <2>1. m_conns # <<>> BY <1>4 DEF ScanClosed, TypeInv, ScanIsSafe
  <2>2. \E c \in Handles : m_conns' = Append(Tail(m_conns), c) BY <1>0, <1>4 DEF ScanClosed
  <2>3. Len(m_conns') = Len(m_conns)
    BY <1>0, <1>c, <2>1, <2>2, TailFacts, AppendFacts
  <2>4. QED BY <1>4, <1>1, <2>3 DEF ScanClosed
<1>5. ASSUME NEW t \in Threads, ExecCheck(t) PROVE Goal
  <2>1. m_conns' = m_conns /\ Lent' = Lent BY <1>5 DEF ExecCheck, Lent
  <2>2. CASE db[t] = NoDb
    <3>1. db' = db /\ tasks' = tasks BY <1>5, <1>t, <2>2 DEF ExecCheck, IsOpen
    <3>2. QED BY <1>5, <1>1, <3>1 DEF ExecCheck
  <2>3. CASE db[t] # NoDb
    <3>1. db[t] \in Conns /\ db[t] \notin tasks
      BY <1>t, <2>3 DEF Ownership, ExclusiveOwnership
    <3>2. db' = [db EXCEPT ![t] = NoDb] => Cardinality(Busy') = Cardinality(Busy) - 1
      BY <1>c, <3>1, BusyChanges, Counting
    <3>3. CASE ~ IsOpen(db[t])
      <4>1. /\ tasks' = tasks /\ db' = [db EXCEPT ![t] = NoDb]
            /\ pc[t] = "execcheck" /\ db'[t] # db[t]
        BY <1>5, <1>t, <2>3, <3>3 DEF ExecCheck
      <4>2. Population' = Population - 1 BY <1>c, <1>p, <2>1, <3>2, <4>1
      <4>3. QED BY <3>3, <4>1, <4>2
    <3>4. CASE IsOpen(db[t]) /\ ~ m_threads
      BY <1>1, <1>5, <3>4 DEF ExecCheck
    <3>5. CASE IsOpen(db[t]) /\ m_threads
      <4>1. tasks' = tasks \cup {db[t]} /\ db' = [db EXCEPT ![t] = NoDb]
        BY <1>5, <3>5 DEF ExecCheck
      <4>2. Cardinality(tasks') = Cardinality(tasks) + 1 BY <1>c, <3>1, <4>1, Counting
      <4>3. QED BY <1>c, <1>p, <2>1, <3>2, <4>1, <4>2
    <3>6. QED BY <3>3, <3>4, <3>5
  <2>4. QED BY <2>2, <2>3
<1>6. ASSUME NEW t \in Threads, NEW c \in Conns, Giveback(t, c) PROVE Goal
  <2>1. /\ c \in held[t] /\ held' = [held EXCEPT ![t] = held[t] \ {c}]
        /\ m_conns' = Append(m_conns, c) /\ db' = db /\ tasks' = tasks
    BY <1>6 DEF Giveback, Enqueue
  <2>2. Len(m_conns') = Len(m_conns) + 1 BY <1>0, <2>1, AppendFacts
  <2>3. Cardinality(Lent') = Cardinality(Lent) - 1 BY <1>c, <2>1, LentChanges, Counting
  <2>4. Busy' = Busy BY <2>1 DEF Busy
  <2>5. QED BY <1>c, <1>p, <2>1, <2>2, <2>3, <2>4
<1>7. ASSUME NEW t \in Threads, ExecGiveback(t) PROVE Goal
  <2> DEFINE c == db[t]
  <2>1. /\ db' = [db EXCEPT ![t] = NoDb] /\ c \in Conns
        /\ m_conns' = Append(m_conns, c) /\ held' = held /\ tasks' = tasks
    BY <1>7, <1>t DEF ExecGiveback, Enqueue, TypeInv, TypeOK
  <2>2. Len(m_conns') = Len(m_conns) + 1 BY <1>0, <2>1, AppendFacts
  <2>3. Cardinality(Busy') = Cardinality(Busy) - 1 BY <1>c, <2>1, BusyChanges, Counting
  <2>4. Lent' = Lent BY <2>1 DEF Lent
  <2>5. QED BY <1>c, <1>p, <2>1, <2>2, <2>3, <2>4
<1>8. ASSUME NEW c \in Conns, TaskGiveback(c) PROVE Goal
  <2>1. /\ c \in tasks /\ tasks' = tasks \ {c}
        /\ m_conns' = Append(m_conns, c) /\ db' = db /\ held' = held
    BY <1>8 DEF TaskGiveback, Enqueue
  <2>2. Len(m_conns') = Len(m_conns) + 1 BY <1>0, <2>1, AppendFacts
  <2>3. Cardinality(tasks') = Cardinality(tasks) - 1 BY <1>c, <2>1, Counting
  <2>4. Busy' = Busy /\ Lent' = Lent BY <2>1 DEF Busy, Lent
  <2>5. QED BY <1>c, <1>p, <2>2, <2>3, <2>4
<1>9. ASSUME NEW t \in Threads, Grow(t) \/ Shrink(t) PROVE Goal
  <2>1. pc[t] = "resize" BY <1>9 DEF Grow, Shrink
  <2>2. m_lock = t BY <2>1 DEF TypeInv, ScanIsSafe
  <2>3. QED BY <2>1, <2>2
<1>10. ASSUME NEW c \in Conns, Drop(c) PROVE Goal
  BY <1>1, <1>10 DEF Drop
<1>11. CASE UNCHANGED vars
  BY <1>11
<1>12. QED
  BY <1>2, <1>3, <1>4, <1>5, <1>6, <1>7, <1>8, <1>9, <1>10, <1>11 DEF Next

\* The number of handles in circulation changes only inside setConnNum, and by one
\* when exec drops the connection it just acquired because it has been closed:
\* neither acquire, giveback, the tasks nor a failed factory leak or invent one.
THEOREM PopulationIsKept == Spec => PopulationKept
<1>1. Init => TypeInv /\ Ownership BY TypeInit, OwnInit
<1>2. TypeInv /\ Ownership /\ [Next]_vars => (TypeInv /\ Ownership)' BY TypeNext, OwnNext
<1>3. TypeInv /\ Ownership /\ TypeInv' /\ [Next]_vars =>
         [ \/ Population' = Population
           \/ \E t \in Threads : m_lock = t /\ pc[t] = "resize"
           \/ /\ Population' = Population - 1
              /\ \E t \in Threads : pc[t] = "execcheck" /\ ~ IsOpen(db[t]) /\ db'[t] # db[t] ]_vars
  BY PopulationStep
<1>4. QED BY <1>1, <1>2, <1>3, PTL DEF Spec, PopulationKept
=============================================================================
