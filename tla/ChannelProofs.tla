--------------------------- MODULE ChannelProofs ---------------------------
(***************************************************************************)
(* What Channel guarantees as long as no two container operations overlap,  *)
(* for any number of threads and calls, and where its empty dequeue comes   *)
(* from.                                                                    *)
(***************************************************************************)
EXTENDS Channel, FiniteSetTheorems, SequenceTheorems, TLAPS

\* Without a race at most one thread is inside the container, and the
\* container is still what that thread read.
Alone ==
    ~ raced => /\ \A t, u \in Inside : t = u
               /\ \A t \in Inside : snap[t] = m_data

ChanInv == TypeOK /\ Alone /\ TokensMatchItems /\ Fifo

\* Counting threads.
LEMMA CountThreads ==
    ASSUME NEW S \in SUBSET Threads
    PROVE  /\ Cardinality(S) \in Nat
           /\ \A t \in Threads \ S : Cardinality(S \cup {t}) = Cardinality(S) + 1
           /\ \A t \in S : Cardinality(S \ {t}) = Cardinality(S) - 1
           /\ \A t \in S : Cardinality(S) > 0
<1>1. IsFiniteSet(S) BY ChannelThreads, FS_Subset
<1>2. Cardinality(S) \in Nat BY <1>1, FS_CardinalityType
<1>3. \A t \in Threads \ S : Cardinality(S \cup {t}) = Cardinality(S) + 1
  BY <1>1, FS_AddElement
<1>4. \A t \in S : Cardinality(S \ {t}) = Cardinality(S) - 1
  BY <1>1, FS_RemoveElement
<1>5. \A t \in S : Cardinality(S) > 0
  BY <1>1, <1>2, FS_EmptySet
<1>6. QED BY <1>2, <1>3, <1>4, <1>5

LEMMA ChanInit == Init => ChanInv
<1> SUFFICES ASSUME Init PROVE ChanInv
  OBVIOUS
<1>1. m_sem = 0 /\ m_data = <<>> /\ put = <<>> /\ got = <<>>
  BY ChannelCapa DEF Init
<1>2. \A t \in Threads : pc[t] = "idle" /\ op[t] = "none"
  BY DEF Init
<1>3. Putting = {} /\ Taking = {} /\ Inside = {}
  BY <1>2 DEF Putting, Taking, Inside
<1>4. TypeOK
  <2>1. /\ pc \in [Threads -> Labels] /\ op \in [Threads -> Ops]
        /\ item \in [Threads -> Nat] /\ snap \in [Threads -> Seq(Nat)]
    BY DEF Init, Labels, Ops
  <2>2. calls \in 0 .. MaxItems BY ChannelItems DEF Init
  <2>3. m_sem \in Nat /\ m_data \in Seq(Nat) /\ put \in Seq(Nat) /\ got \in Seq(Nat)
    BY <1>1
  <2>4. raced \in BOOLEAN /\ fault \in BOOLEAN BY DEF Init
  <2>5. \A t \in Threads :
           /\ (pc[t] = "idle") <=> (op[t] = "none")
           /\ (pc[t] \in {"released", "enq"}) <=> (op[t] = "enqueue")
    BY <1>2
  <2>6. QED BY <2>1, <2>2, <2>3, <2>4, <2>5 DEF TypeOK
<1>5. Alone BY <1>3 DEF Alone
<1>6. TokensMatchItems BY <1>1, <1>3, FS_EmptySet DEF TokensMatchItems
<1>7. Fifo BY <1>1 DEF Fifo
<1>8. QED BY <1>4, <1>5, <1>6, <1>7 DEF ChanInv

\* A thread that is alone in the container removes the head.
LEMMA TakeHead ==
    ASSUME NEW s \in Seq(Nat), NEW g \in Seq(Nat), s # <<>>
    PROVE  /\ Head(s) \in Nat /\ Tail(s) \in Seq(Nat) /\ Len(Tail(s)) = Len(s) - 1
           /\ g \o s = Append(g, Head(s)) \o Tail(s)
  OBVIOUS

\* A thread that is alone in the container adds at the tail.
LEMMA AddTail ==
    ASSUME NEW s \in Seq(Nat), NEW g \in Seq(Nat), NEW x \in Nat
    PROVE  /\ Append(s, x) \in Seq(Nat) /\ Len(Append(s, x)) = Len(s) + 1
           /\ Append(g \o s, x) = g \o Append(s, x)
<1>1. Append(s, x) \in Seq(Nat) /\ Len(Append(s, x)) = Len(s) + 1
  OBVIOUS
<1>2. /\ Append(g \o s, x) \in Seq(Nat) /\ g \o Append(s, x) \in Seq(Nat)
      /\ Len(Append(g \o s, x)) = Len(g) + Len(s) + 1
      /\ Len(g \o Append(s, x)) = Len(g) + Len(s) + 1
  OBVIOUS
<1>3. ASSUME NEW i \in 1 .. Len(g) + Len(s) + 1
      PROVE  Append(g \o s, x)[i] = (g \o Append(s, x))[i]
  <2>1. CASE i =< Len(g) BY <2>1
  <2>2. CASE i > Len(g) /\ i =< Len(g) + Len(s) BY <2>2
  <2>3. CASE i = Len(g) + Len(s) + 1 BY <2>3
  <2>4. QED BY <2>1, <2>2, <2>3
<1>4. Append(g \o s, x) = g \o Append(s, x)
  BY <1>2, <1>3, SeqEqual
<1>5. QED BY <1>1, <1>4

LEMMA ChanNext == ChanInv /\ [Next]_vars => ChanInv'
<1> SUFFICES ASSUME ChanInv, [Next]_vars PROVE ChanInv'
  OBVIOUS
<1> USE DEF ChanInv
<1>0. /\ Putting \in SUBSET Threads /\ Taking \in SUBSET Threads
      /\ Cardinality(Putting) \in Nat /\ Cardinality(Taking) \in Nat
  <2>1. Putting \in SUBSET Threads /\ Taking \in SUBSET Threads BY DEF Putting, Taking
  <2>2. QED BY <2>1, CountThreads
<1>t. /\ m_sem \in Nat /\ Len(m_data) \in Nat /\ m_data \in Seq(Nat)
      /\ pc \in [Threads -> Labels]
  BY DEF TypeOK
<1>1. ASSUME NEW t \in Threads, Enqueue(t) PROVE ChanInv'
  <2>1. TypeOK'
    BY <1>1, ChannelItems DEF Enqueue, Goto, TypeOK, Labels, Ops
  <2>2. Putting' = Putting \cup {t} /\ t \notin Putting /\ Taking' = Taking /\ Inside' = Inside
    BY <1>1, <1>t DEF Enqueue, Goto, Putting, Taking, Inside
  <2>3. Alone' BY <1>1, <2>2 DEF Enqueue, Alone, Inside
  <2>4. Cardinality(Putting') = Cardinality(Putting) + 1 BY <1>0, <2>2, CountThreads
  <2>5. TokensMatchItems'
    <3>1. m_sem' = m_sem + 1 /\ m_data' = m_data /\ raced' = raced /\ fault' = fault
      BY <1>1 DEF Enqueue
    <3>2. CASE raced \/ fault BY <3>1, <3>2 DEF TokensMatchItems
    <3>3. CASE ~ raced /\ ~ fault
      <4>1. m_sem + Cardinality(Taking) = Len(m_data) + Cardinality(Putting)
        BY <3>3 DEF TokensMatchItems
      <4>2. m_sem' + Cardinality(Taking') = Len(m_data') + Cardinality(Putting')
        BY <1>0, <1>t, <2>2, <2>4, <3>1, <4>1
      <4>3. QED BY <4>2 DEF TokensMatchItems
    <3>4. QED BY <3>2, <3>3
  <2>6. Fifo' BY <1>1 DEF Enqueue, Fifo
  <2>7. QED BY <2>1, <2>3, <2>5, <2>6
<1>2. ASSUME NEW t \in Threads, EnqueueBegin(t) PROVE ChanInv'
  <2>1. TypeOK' BY <1>2 DEF EnqueueBegin, Enter, Goto, TypeOK, Labels, Ops
  <2>2. Putting' = Putting /\ Taking' = Taking /\ Inside' = Inside \cup {t}
    BY <1>2, <1>t DEF EnqueueBegin, Enter, Goto, Putting, Taking, Inside
  <2>3. Alone' BY <1>2, <2>2 DEF EnqueueBegin, Enter, Alone, TypeOK
  <2>4. TokensMatchItems'
    BY <1>2, <2>2 DEF EnqueueBegin, Enter, TokensMatchItems
  <2>5. Fifo' BY <1>2 DEF EnqueueBegin, Enter, Fifo
  <2>6. QED BY <2>1, <2>3, <2>4, <2>5
<1>3. ASSUME NEW t \in Threads, EnqueueEnd(t) PROVE ChanInv'
  <2>0. /\ snap[t] \in Seq(Nat) /\ item[t] \in Nat /\ pc[t] = "enq" /\ t \in Inside
        /\ pc' = [pc EXCEPT ![t] = "idle"] /\ raced' = raced
    BY <1>3 DEF EnqueueEnd, Leave, Goto, TypeOK, Inside
  <2>1. TypeOK' BY <1>3, <2>0 DEF EnqueueEnd, Leave, TypeOK, Labels, Ops
  <2>2. /\ Putting' = Putting \ {t} /\ t \in Putting /\ Taking' = Taking
        /\ Inside' = Inside \ {t}
    BY <1>t, <2>0 DEF Putting, Taking, Inside
  <2>3. Alone' BY <2>0, <2>2 DEF Alone
  <2>4. Cardinality(Putting') = Cardinality(Putting) - 1 BY <1>0, <2>2, CountThreads
  <2>5. ~ raced => snap[t] = m_data BY <2>0 DEF Alone
  <2>6. ~ raced => Len(m_data') = Len(m_data) + 1
    BY <1>3, <2>0, <2>5, AddTail DEF EnqueueEnd, TypeOK
  <2>7. TokensMatchItems'
    BY <1>0, <1>t, <1>3, <2>2, <2>4, <2>6 DEF EnqueueEnd, TokensMatchItems
  <2>8. Fifo'
    <3>1. CASE raced BY <2>0, <3>1 DEF Fifo
    <3>2. CASE ~ raced
      <4>1. put = got \o m_data /\ m_data' = Append(m_data, item[t])
            /\ put' = Append(put, item[t]) /\ got' = got
        BY <1>3, <2>5, <3>2 DEF EnqueueEnd, Fifo
      <4>2. QED BY <1>t, <2>0, <4>1, AddTail DEF Fifo, TypeOK
    <3>3. QED BY <3>1, <3>2
  <2>9. QED BY <2>1, <2>3, <2>7, <2>8
<1>4. ASSUME NEW t \in Threads, NEW kind \in Ops \ {"none", "enqueue"}, Ask(t, kind)
      PROVE  ChanInv'
  <2>1. TypeOK' BY <1>4 DEF Ask, Goto, TypeOK, Labels, Ops
  <2>2. Putting' = Putting /\ Taking' = Taking /\ Inside' = Inside
    BY <1>4, <1>t DEF Ask, Goto, Putting, Taking, Inside
  <2>3. QED BY <1>4, <2>1, <2>2 DEF Ask, Alone, TokensMatchItems, Fifo
<1>5. ASSUME NEW t \in Threads, Acquire(t) PROVE ChanInv'
  <2>1. TypeOK' BY <1>5 DEF Acquire, Goto, TypeOK, Labels, Ops
  <2>2. Putting' = Putting /\ Taking' = Taking \cup {t} /\ t \notin Taking /\ Inside' = Inside
    BY <1>5, <1>t DEF Acquire, Goto, Putting, Taking, Inside
  <2>3. Cardinality(Taking') = Cardinality(Taking) + 1 BY <1>0, <2>2, CountThreads
  <2>4. TokensMatchItems'
    BY <1>0, <1>t, <1>5, <2>2, <2>3 DEF Acquire, TokensMatchItems
  <2>5. QED BY <1>5, <2>1, <2>2, <2>4 DEF Acquire, Alone, Fifo
<1>6. ASSUME NEW t \in Threads, GiveUp(t) PROVE ChanInv'
  <2>0. pc[t] = "acquire" /\ pc' = [pc EXCEPT ![t] = "idle"] /\ op' = [op EXCEPT ![t] = "none"]
    BY <1>6 DEF GiveUp, Leave, Goto
  <2>1. TypeOK' BY <1>6, <2>0 DEF GiveUp, Leave, TypeOK, Labels, Ops
  <2>2. Putting' = Putting /\ Taking' = Taking /\ Inside' = Inside /\ t \notin Inside
    BY <2>0, <1>t DEF Putting, Taking, Inside
  <2>3. \A u \in Inside : snap'[u] = snap[u]
    BY <1>6, <2>2 DEF GiveUp, Leave, TypeOK, Inside
  <2>4. QED BY <1>6, <2>1, <2>2, <2>3 DEF GiveUp, Alone, TokensMatchItems, Fifo
<1>7. ASSUME NEW t \in Threads, DequeueBegin(t) PROVE ChanInv'
  <2>1. TypeOK' BY <1>7 DEF DequeueBegin, Enter, Goto, TypeOK, Labels, Ops
  <2>2. Putting' = Putting /\ Taking' = Taking /\ Inside' = Inside \cup {t}
    BY <1>7, <1>t DEF DequeueBegin, Enter, Goto, Putting, Taking, Inside
  <2>3. Alone' BY <1>7, <2>2 DEF DequeueBegin, Enter, Alone, TypeOK
  <2>4. TokensMatchItems'
    BY <1>7, <2>2 DEF DequeueBegin, Enter, TokensMatchItems
  <2>5. Fifo' BY <1>7 DEF DequeueBegin, Enter, Fifo
  <2>6. QED BY <2>1, <2>3, <2>4, <2>5
<1>8. ASSUME NEW t \in Threads, DequeueEnd(t) PROVE ChanInv'
  <2>0. /\ snap[t] \in Seq(Nat) /\ pc[t] = "deq" /\ t \in Inside
        /\ \E l \in {"acquire", "idle"} : pc' = [pc EXCEPT ![t] = l]
        /\ raced' = raced /\ m_sem' = m_sem /\ put' = put
    BY <1>8 DEF DequeueEnd, Leave, Goto, TypeOK, Inside
  <2>1. TypeOK'
    <3>1. m_data' \in Seq(Nat) /\ got' \in Seq(Nat) /\ fault' \in BOOLEAN
      <4>1. CASE snap[t] = <<>> BY <1>8, <4>1 DEF DequeueEnd, TypeOK
      <4>2. CASE snap[t] # <<>>
        <5>1. Tail(snap[t]) \in Seq(Nat) /\ Head(snap[t]) \in Nat
          BY <2>0, <4>2
        <5>2. m_data' = Tail(snap[t]) /\ got' = Append(got, Head(snap[t])) /\ fault' = fault
          BY <1>8, <4>2 DEF DequeueEnd
        <5>3. m_data' \in Seq(Nat) /\ got' \in Seq(Nat) BY <5>1, <5>2 DEF TypeOK
        <5>4. fault' \in BOOLEAN BY <5>2 DEF TypeOK
        <5>5. QED BY <5>3, <5>4
      <4>3. QED BY <4>1, <4>2
    <3>2. QED BY <1>8, <2>0, <3>1 DEF DequeueEnd, Leave, Goto, TypeOK, Labels, Ops
  <2>2. /\ Putting' = Putting /\ Taking' = Taking \ {t} /\ t \in Taking
        /\ Inside' = Inside \ {t}
    BY <1>t, <2>0 DEF Putting, Taking, Inside
  <2>3. Alone' BY <2>0, <2>2 DEF Alone
  <2>4. Cardinality(Taking') = Cardinality(Taking) - 1 BY <1>0, <2>2, CountThreads
  <2>5. ~ raced => snap[t] = m_data BY <2>0 DEF Alone
  <2>6. CASE snap[t] = <<>>
    <3>1. fault' /\ m_data' = m_data /\ got' = got BY <1>8, <2>6 DEF DequeueEnd
    <3>2. TokensMatchItems' BY <3>1 DEF TokensMatchItems
    <3>3. Fifo' BY <2>0, <3>1 DEF Fifo
    <3>4. QED BY <2>1, <2>3, <3>2, <3>3
  <2>7. CASE snap[t] # <<>>
    <3>1. /\ m_data' = Tail(snap[t]) /\ got' = Append(got, Head(snap[t])) /\ fault' = fault
      BY <1>8, <2>7 DEF DequeueEnd
    <3>2. ~ raced => Len(m_data') = Len(m_data) - 1
      BY <2>0, <2>5, <2>7, <3>1, TakeHead
    <3>3. TokensMatchItems'
      <4>1. CASE raced \/ fault BY <2>0, <3>1, <4>1 DEF TokensMatchItems
      <4>2. CASE ~ raced /\ ~ fault
        <5>1. m_sem + Cardinality(Taking) = Len(m_data) + Cardinality(Putting)
          BY <4>2 DEF TokensMatchItems
        <5>2. m_sem' + Cardinality(Taking') = Len(m_data') + Cardinality(Putting')
          BY <1>0, <1>t, <2>0, <2>2, <2>4, <3>2, <4>2, <5>1
        <5>3. QED BY <5>2 DEF TokensMatchItems
      <4>3. QED BY <4>1, <4>2
    <3>4. Fifo'
      <4>1. CASE raced BY <2>0, <4>1 DEF Fifo
      <4>2. CASE ~ raced
        <5>1. got \o m_data = Append(got, Head(m_data)) \o Tail(m_data)
          BY <1>t, <2>5, <2>7, <4>2, TakeHead DEF TypeOK
        <5>2. QED BY <2>0, <2>5, <3>1, <4>2, <5>1 DEF Fifo
      <4>3. QED BY <4>1, <4>2
    <3>5. QED BY <2>1, <2>3, <3>3, <3>4
  <2>8. QED BY <2>6, <2>7
<1>9. CASE UNCHANGED vars
  BY <1>9 DEF vars, TypeOK, Alone, TokensMatchItems, Fifo, Putting, Taking, Inside
<1>10. QED
  BY <1>1, <1>2, <1>3, <1>4, <1>5, <1>6, <1>7, <1>8, <1>9 DEF Next, Step

\* As long as no two container operations overlap, tokens match elements and
\* elements come out once and in the order in which they went in.
THEOREM ChannelSafe == Spec => [](TypeOK /\ Balanced)
<1>1. Init => ChanInv BY ChanInit
<1>2. ChanInv /\ [Next]_vars => ChanInv' BY ChanNext
<1>3. ChanInv => TypeOK /\ Balanced BY DEF ChanInv, Balanced
<1>4. QED BY <1>1, <1>2, <1>3, PTL DEF Spec

LEMMA WindowStep ==
    ChanInv /\ [Next]_vars => (fault' /\ ~ fault => raced \/ Putting # {})
<1> SUFFICES ASSUME ChanInv, [Next]_vars, fault', ~ fault, ~ raced PROVE Putting # {}
  OBVIOUS
<1> USE DEF ChanInv
<1>1. PICK t \in Threads : DequeueEnd(t) /\ snap[t] = <<>>
  BY DEF Next, Step, vars, Enqueue, EnqueueBegin, EnqueueEnd, Ask, Acquire, GiveUp,
         DequeueBegin, DequeueEnd
<1>2. t \in Inside /\ t \in Taking BY <1>1 DEF DequeueEnd, Inside, Taking
<1>3. m_data = <<>> BY <1>1, <1>2 DEF Alone
<1>4. Taking \in SUBSET Threads /\ Putting \in SUBSET Threads BY DEF Taking, Putting
<1>5. Cardinality(Taking) \in Nat /\ Cardinality(Taking) > 0 /\ Cardinality(Putting) \in Nat
  BY <1>2, <1>4, CountThreads
<1>6. m_sem \in Nat /\ m_sem + Cardinality(Taking) = 0 + Cardinality(Putting)
  <2>1. m_sem + Cardinality(Taking) = Len(m_data) + Cardinality(Putting)
    BY DEF TokensMatchItems
  <2>2. Len(m_data) = 0 BY <1>3
  <2>3. QED BY <2>1, <2>2 DEF TypeOK
<1>7. Cardinality(Putting) # 0 BY <1>5, <1>6
<1>8. QED BY <1>7, FS_EmptySet

\* A dequeue that meets an empty container without a race does so while an
\* enqueue is between its two lines: the order of those lines is the cause.
THEOREM WindowIsTheCause == Spec => EmptyOnlyInWindow
<1>1. Init => ChanInv BY ChanInit
<1>2. ChanInv /\ [Next]_vars => ChanInv' BY ChanNext
<1>3. ChanInv /\ [Next]_vars => [fault' /\ ~ fault => raced \/ Putting # {}]_vars
  BY WindowStep
<1>4. QED BY <1>1, <1>2, <1>3, PTL DEF Spec, EmptyOnlyInWindow
=============================================================================
