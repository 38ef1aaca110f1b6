------------------------------ MODULE GuiProofs ------------------------------
(***************************************************************************)
(* Safety of the objects that live in an event loop, for any bounds.        *)
(***************************************************************************)
EXTENDS MCGui, FiniteSetTheorems, SequenceTheorems, TLAPS

-----------------------------------------------------------------------------
(* Sequences of tasks                                                       *)

Distinct(s) == \A i, j \in DOMAIN s : s[i] = s[j] => i = j

\* x is before y unless x is excused.
InTurn(s, N) == \A i, j \in DOMAIN s : i < j => s[i] < s[j] \/ s[i] \in N
Before(A, B, N) == \A x \in A, y \in B : x < y \/ x \in N

\* t is s with e behind it.
Appended(s, e, t, N) ==
    /\ t \in Seq(Tasks) /\ Len(t) = Len(s) + 1
    /\ Elems(t) = Elems(s) \cup {e}
    /\ \A i \in DOMAIN t : (i \in DOMAIN s /\ t[i] = s[i]) \/ (i = Len(s) + 1 /\ t[i] = e)
    /\ Distinct(s) /\ e \notin Elems(s) => Distinct(t)
    /\ InTurn(s, N) /\ Before(Elems(s), {e}, N) => InTurn(t, N)

\* a and b are the first n elements of s and the others.
Split(s, n, a, b, N) ==
    /\ a \in Seq(Tasks) /\ Len(a) = n /\ b \in Seq(Tasks) /\ Len(b) = Len(s) - n
    /\ \A i \in DOMAIN a : i \in DOMAIN s /\ a[i] = s[i]
    /\ \A i \in DOMAIN b : b[i] = s[n + i]
    /\ Elems(s) = Elems(a) \cup Elems(b)
    /\ Distinct(s) => Distinct(a) /\ Distinct(b) /\ Elems(a) \cap Elems(b) = {}
    /\ InTurn(s, N) => InTurn(a, N) /\ InTurn(b, N) /\ Before(Elems(a), Elems(b), N)

LEMMA AppendOne ==
    ASSUME NEW s \in Seq(Tasks), NEW e \in Tasks, NEW N
    PROVE  Appended(s, e, Append(s, e), N)
<1>1. /\ Append(s, e) \in Seq(Tasks) /\ Len(Append(s, e)) = Len(s) + 1 /\ Len(s) \in Nat
      /\ DOMAIN s = 1 .. Len(s) /\ DOMAIN Append(s, e) = 1 .. Len(s) + 1
      /\ \A i \in 1 .. Len(s) : Append(s, e)[i] = s[i]
      /\ Append(s, e)[Len(s) + 1] = e
  OBVIOUS
<1>2. Elems(Append(s, e)) = Elems(s) \cup {e} BY <1>1 DEF Elems
<1>3. \A i \in DOMAIN s : s[i] \in Elems(s) BY DEF Elems
<1>4. ASSUME Distinct(s), e \notin Elems(s) PROVE Distinct(Append(s, e))
  BY <1>1, <1>3, <1>4 DEF Distinct
<1>5. ASSUME InTurn(s, N), Before(Elems(s), {e}, N) PROVE InTurn(Append(s, e), N)
  BY <1>1, <1>3, <1>5 DEF InTurn, Before
<1>6. QED BY <1>1, <1>2, <1>4, <1>5 DEF Appended

LEMMA SplitAt ==
    ASSUME NEW s \in Seq(Tasks), NEW n \in 0 .. Len(s), NEW N
    PROVE  Split(s, n, SubSeq(s, 1, n), SubSeq(s, n + 1, Len(s)), N)
<1> DEFINE a == SubSeq(s, 1, n)
           b == SubSeq(s, n + 1, Len(s))
<1>0. Len(s) \in Nat /\ DOMAIN s = 1 .. Len(s) /\ \A i \in 1 .. Len(s) : s[i] \in Tasks OBVIOUS
<1>1. /\ a \in Seq(Tasks) /\ Len(a) = n /\ \A i \in 1 .. n : a[i] = s[i]
  <2>1. \A i \in 1 .. n : s[i] \in Tasks BY <1>0
  <2>2. 1 \in Int /\ n \in Int BY <1>0
  <2>3. /\ a \in Seq(Tasks) /\ Len(a) = (IF 1 <= n THEN n - 1 + 1 ELSE 0)
        /\ \A i \in 1 .. n - 1 + 1 : a[i] = s[1 + i - 1]
    BY <2>1, <2>2, SubSeqProperties
  <2>4. QED BY <1>0, <2>3
<1>2. /\ b \in Seq(Tasks) /\ Len(b) = Len(s) - n /\ \A i \in 1 .. Len(s) - n : b[i] = s[n + i]
  <2>1. \A i \in n + 1 .. Len(s) : s[i] \in Tasks BY <1>0
  <2>2. n + 1 \in Int /\ Len(s) \in Int BY <1>0
  <2>3. /\ b \in Seq(Tasks) /\ Len(b) = (IF n + 1 <= Len(s) THEN Len(s) - (n + 1) + 1 ELSE 0)
        /\ \A i \in 1 .. Len(s) - (n + 1) + 1 : b[i] = s[(n + 1) + i - 1]
    BY <2>1, <2>2, SubSeqProperties
  <2> HIDE DEF b
  <2>4. /\ Len(s) - (n + 1) + 1 = Len(s) - n /\ n =< Len(s) /\ n \in Nat
        /\ \A i \in 1 .. Len(s) - n : (n + 1) + i - 1 = n + i
    BY <1>0
  <2>5. Len(b) = Len(s) - n
    <3>1. Len(b) = (IF n + 1 <= Len(s) THEN Len(s) - (n + 1) + 1 ELSE 0) BY <2>3
    <3>2. CASE n + 1 <= Len(s) BY <2>4, <3>1, <3>2
    <3>3. CASE ~ (n + 1 <= Len(s))
      <4>0. Len(s) \in Nat /\ n \in Nat /\ n =< Len(s) BY <1>0, <2>4
      <4>1. Len(s) - n = 0 BY <3>3, <4>0
      <4>2. QED BY <3>1, <3>3, <4>1
    <3>4. QED BY <3>2, <3>3
  <2>6. ASSUME NEW i \in 1 .. Len(s) - n PROVE b[i] = s[n + i] BY <2>3, <2>4
  <2>7. QED BY <2>3, <2>5, <2>6
<1> HIDE DEF a, b
<1>3. DOMAIN a = 1 .. n /\ DOMAIN b = 1 .. Len(s) - n BY <1>0, <1>1, <1>2
<1>4. Elems(s) = Elems(a) \cup Elems(b)
  <2>1. ASSUME NEW i \in DOMAIN s PROVE s[i] \in Elems(a) \cup Elems(b)
    <3>1. CASE i =< n BY <1>0, <1>1, <1>3, <3>1 DEF Elems
    <3>2. CASE i > n
      <4>1. i - n \in 1 .. Len(s) - n /\ b[i - n] = s[i] BY <1>0, <1>2, <3>2
      <4>2. QED BY <1>3, <4>1 DEF Elems
    <3>3. QED BY <1>0, <3>1, <3>2
  <2>2. \A i \in DOMAIN a : a[i] \in Elems(s) BY <1>0, <1>1, <1>3 DEF Elems
  <2>3. \A i \in DOMAIN b : b[i] \in Elems(s)
    <3>1. SUFFICES ASSUME NEW i \in DOMAIN b PROVE b[i] \in Elems(s) OBVIOUS
    <3>2. n + i \in DOMAIN s /\ b[i] = s[n + i] BY <1>0, <1>2, <1>3
    <3>3. QED BY <3>2 DEF Elems
  <2>4. QED BY <2>1, <2>2, <2>3 DEF Elems
<1>5. /\ \A i \in DOMAIN a : i \in DOMAIN s /\ a[i] = s[i]
      /\ \A i \in DOMAIN b : n + i \in DOMAIN s /\ b[i] = s[n + i] /\ i \in Nat
      /\ \A i \in DOMAIN a, j \in DOMAIN b : i < n + j /\ i \in Nat
  BY <1>0, <1>1, <1>2, <1>3
<1>6. ASSUME Distinct(s) PROVE Distinct(a) /\ Distinct(b) /\ Elems(a) \cap Elems(b) = {}
  <2>1. Distinct(a) BY <1>5, <1>6 DEF Distinct
  <2>2. Distinct(b) BY <1>0, <1>5, <1>6 DEF Distinct
  <2>3. ASSUME NEW i \in DOMAIN a, NEW j \in DOMAIN b PROVE a[i] # b[j]
    BY <1>0, <1>5, <1>6 DEF Distinct
  <2>4. QED BY <2>1, <2>2, <2>3 DEF Elems
<1>7. ASSUME InTurn(s, N) PROVE InTurn(a, N) /\ InTurn(b, N) /\ Before(Elems(a), Elems(b), N)
  <2>1. InTurn(a, N) BY <1>5, <1>7 DEF InTurn
  <2>2. InTurn(b, N)
    <3>1. SUFFICES ASSUME NEW i \in DOMAIN b, NEW j \in DOMAIN b, i < j
                   PROVE  b[i] < b[j] \/ b[i] \in N
      BY DEF InTurn
    <3>2. n + i \in DOMAIN s /\ n + j \in DOMAIN s /\ n + i < n + j
          /\ b[i] = s[n + i] /\ b[j] = s[n + j]
      BY <1>0, <1>5, <3>1
    <3>3. QED BY <1>7, <3>2 DEF InTurn
  <2>3. ASSUME NEW i \in DOMAIN a, NEW j \in DOMAIN b PROVE a[i] < b[j] \/ a[i] \in N
    <3>1. i \in DOMAIN s /\ n + j \in DOMAIN s /\ i < n + j /\ a[i] = s[i] /\ b[j] = s[n + j]
      BY <1>5
    <3>2. QED BY <1>7, <3>1 DEF InTurn
  <2>4. Before(Elems(a), Elems(b), N) BY <2>3 DEF Before, Elems
  <2>5. QED BY <2>1, <2>2, <2>4
<1>8. Split(s, n, a, b, N) BY <1>1, <1>2, <1>4, <1>5, <1>6, <1>7 DEF Split
<1>9. QED BY <1>8 DEF a, b

\* As many elements as places.
LEMMA CountDistinct ==
    ASSUME NEW S, NEW s \in Seq(S), Distinct(s)
    PROVE  IsFiniteSet(Elems(s)) /\ Cardinality(Elems(s)) = Len(s)
<1>1. Len(s) \in Nat /\ DOMAIN s = 1 .. Len(s) /\ s \in [1 .. Len(s) -> Elems(s)] BY DEF Elems
<1>2. s \in Bijection(1 .. Len(s), Elems(s))
  BY <1>1 DEF Bijection, Injection, Surjection, IsInjective, Distinct, Elems
<1>3. ExistsBijection(1 .. Len(s), Elems(s)) BY <1>2 DEF ExistsBijection
<1>4. IsFiniteSet(1 .. Len(s)) /\ Cardinality(1 .. Len(s)) = Len(s) BY <1>1, FS_Interval
<1>5. QED BY <1>3, <1>4, FS_Bijection

-----------------------------------------------------------------------------
(* TimedQueue                                                               *)

QueueType ==
    /\ m_queue \in Seq(Tasks) /\ pending \in Seq(Tasks) /\ ran \in Seq(Tasks)
    /\ lost \in SUBSET Tasks /\ nested \in SUBSET Tasks
    /\ calls \in 0 .. MaxTasks

\* Every submitted task is in one place.
OnePlaceEach ==
    /\ Distinct(ran) /\ Distinct(m_queue) /\ Distinct(pending)
    /\ Elems(ran) \cap lost = {}
    /\ Elems(ran) \cap Elems(m_queue) = {}
    /\ Elems(ran) \cap Elems(pending) = {}
    /\ lost \cap Elems(m_queue) = {}
    /\ lost \cap Elems(pending) = {}
    /\ Elems(m_queue) \cap Elems(pending) = {}
    /\ Elems(ran) \cup lost \cup Elems(m_queue) \cup Elems(pending) = 1 .. calls

\* Tasks are in turn everywhere, and all but the outermost suspended enqueue() were
\* called from a slot.
AllInTurn ==
    /\ InTurn(ran, nested) /\ InTurn(m_queue, nested)
    /\ Before(Elems(ran), Elems(m_queue), nested)
    /\ Before(lost, Elems(m_queue), nested)
    /\ Before(Elems(ran) \cup lost \cup Elems(m_queue), Elems(pending), nested)
    /\ \A i \in DOMAIN pending : i # 1 => pending[i] \in nested

QueueInv == QueueType /\ QueueBounded /\ OnePlaceEach /\ AllInTurn

LEMMA QueueStarts == Init => QueueInv
<1> SUFFICES ASSUME Init PROVE QueueInv
  OBVIOUS
<1> USE QueueTasks, QueueSizeAssumption, QueueNesting DEF Tasks
<1>1. /\ m_queue = <<>> /\ pending = <<>> /\ ran = <<>> /\ lost = {} /\ nested = {} /\ calls = 0
  BY DEF Init
<1>2. Elems(<<>>) = {} /\ DOMAIN <<>> = {} BY DEF Elems
<1>3. QueueType /\ QueueBounded BY <1>1 DEF QueueType, QueueBounded
<1>4. 1 .. calls = {} BY <1>1
<1>5. OnePlaceEach BY <1>1, <1>2, <1>4 DEF OnePlaceEach, Distinct
<1>6. AllInTurn BY <1>1, <1>2 DEF AllInTurn, InTurn, Before
<1>7. QED BY <1>3, <1>5, <1>6 DEF QueueInv

\* enqueue()'s task is later than any before it.
LEMMA NewTask ==
    ASSUME QueueInv, Enqueue
    PROVE  /\ calls' = calls + 1 /\ calls' \in Tasks /\ calls' \in 0 .. MaxTasks /\ calls \in Nat
           /\ calls' \notin Elems(ran) \cup lost \cup Elems(m_queue) \cup Elems(pending)
           /\ 1 .. calls' = (1 .. calls) \cup {calls'}
           /\ Before(Elems(ran) \cup lost \cup Elems(m_queue) \cup Elems(pending), {calls'}, nested')
           /\ nested \subseteq nested' /\ nested' \in SUBSET Tasks
           /\ pending # <<>> => calls' \in nested'
<1> USE QueueTasks DEF Tasks
<1>1. /\ calls' = calls + 1 /\ calls' \in Tasks /\ calls' \in 0 .. MaxTasks /\ calls \in Nat
      /\ nested \in SUBSET Tasks
  BY DEF Enqueue, QueueInv, QueueType
<1>2. 1 .. calls' = (1 .. calls) \cup {calls'} /\ \A x \in 1 .. calls : x < calls' BY <1>1
<1>3. Elems(ran) \cup lost \cup Elems(m_queue) \cup Elems(pending) = 1 .. calls
  BY DEF QueueInv, OnePlaceEach
<1>4. calls' \notin 1 .. calls BY <1>1
<1>5. Before(1 .. calls, {calls'}, nested') BY <1>2 DEF Before
<1>6. nested' = IF pending = <<>> THEN nested ELSE nested \cup {calls'} BY DEF Enqueue
<1>7. QED BY <1>1, <1>2, <1>3, <1>4, <1>5, <1>6

\* What is excused stays excused.
LEMMA InTurnGrows ==
    ASSUME NEW s, NEW N, NEW M, N \subseteq M, InTurn(s, N) PROVE InTurn(s, M)
  BY DEF InTurn

LEMMA EnqueueStep == ASSUME QueueInv, Enqueue PROVE QueueInv'
<1>n. /\ calls' = calls + 1 /\ calls' \in Tasks /\ calls' \in 0 .. MaxTasks /\ calls \in Nat
      /\ calls' \notin Elems(ran) \cup lost \cup Elems(m_queue) \cup Elems(pending)
      /\ 1 .. calls' = (1 .. calls) \cup {calls'}
      /\ Before(Elems(ran) \cup lost \cup Elems(m_queue) \cup Elems(pending), {calls'}, nested')
      /\ nested \subseteq nested' /\ nested' \in SUBSET Tasks
      /\ pending # <<>> => calls' \in nested'
  BY NewTask
<1>t. /\ m_queue \in Seq(Tasks) /\ pending \in Seq(Tasks) /\ ran \in Seq(Tasks)
      /\ lost \in SUBSET Tasks
      /\ Len(m_queue) \in Nat /\ Len(pending) \in Nat
  BY DEF QueueInv, QueueType
<1>o. /\ Overflow \in 0 .. Len(m_queue)
      /\ Len(m_queue) - Overflow < MaxQueueSize
      /\ Overflow = 0 => Len(m_queue) < MaxQueueSize
  BY <1>t, QueueSizeAssumption DEF Overflow
<1>r. ran' = ran /\ Len(pending) =< MaxNesting BY DEF Enqueue
<1> DEFINE kept == SubSeq(m_queue, Overflow + 1, Len(m_queue))
           gone == SubSeq(m_queue, 1, Overflow)
<1>a. AllInTurn /\ OnePlaceEach BY DEF QueueInv
<1>s. /\ gone \in Seq(Tasks) /\ kept \in Seq(Tasks) /\ Len(kept) = Len(m_queue) - Overflow
      /\ Elems(m_queue) = Elems(gone) \cup Elems(kept)
      /\ Distinct(gone) /\ Distinct(kept) /\ Elems(gone) \cap Elems(kept) = {}
      /\ InTurn(kept, nested) /\ Before(Elems(gone), Elems(kept), nested)
  <2>1. Split(m_queue, Overflow, gone, kept, nested) BY <1>t, <1>o, SplitAt
  <2>2. Distinct(m_queue) /\ InTurn(m_queue, nested) BY <1>a DEF OnePlaceEach, AllInTurn
  <2> HIDE DEF gone, kept
  <2>3. QED BY <2>1, <2>2 DEF Split
<1>k. InTurn(ran, nested') /\ InTurn(m_queue, nested') /\ InTurn(kept, nested')
  BY <1>n, <1>a, <1>s, InTurnGrows DEF AllInTurn
<1>1. CASE Overflow = 0
  <2>1. m_queue' = Append(m_queue, calls') /\ pending' = pending /\ lost' = lost
    <3>1. SubSeq(m_queue, 1, Len(m_queue)) = m_queue BY <1>t, SubSeqFull
    <3>2. Overflow + 1 = 1 BY <1>1
    <3>3. QED BY <1>1, <3>1, <3>2 DEF Enqueue
  <2>b. Before(Elems(m_queue), {calls'}, nested') BY <1>n DEF Before
  <2>2. /\ m_queue' \in Seq(Tasks) /\ Len(m_queue') = Len(m_queue) + 1
        /\ Elems(m_queue') = Elems(m_queue) \cup {calls'}
        /\ Distinct(m_queue') /\ InTurn(m_queue', nested')
    <3>1. Appended(m_queue, calls', m_queue', nested') BY <1>t, <1>n, <2>1, AppendOne
    <3>2. Distinct(m_queue) BY <1>a DEF OnePlaceEach
    <3>3. QED BY <1>n, <1>k, <2>b, <3>1, <3>2 DEF Appended
  <2>3. QueueType' BY <1>t, <1>n, <1>r, <2>1, <2>2 DEF QueueType
  <2>4. QueueBounded'
    <3>1. Len(m_queue) < MaxQueueSize BY <1>o, <1>1
    <3>2. Len(m_queue) + 1 + Len(pending) =< MaxQueueSize + MaxNesting
      BY <1>t, <1>r, <3>1, QueueSizeAssumption, QueueNesting
    <3>3. QED BY <2>1, <2>2, <3>2 DEF QueueBounded
  <2>5. OnePlaceEach' BY <1>n, <1>r, <1>a, <2>1, <2>2 DEF OnePlaceEach
  <2>6. AllInTurn'
    <3>1. Before(Elems(ran), Elems(m_queue'), nested') /\ Before(lost, Elems(m_queue'), nested')
      BY <1>n, <1>a, <2>2 DEF AllInTurn, Before
    <3>2. Elems(pending) # {} => calls' \in nested' BY <1>n DEF Elems
    <3>3. Before(Elems(ran) \cup lost \cup Elems(m_queue'), Elems(pending), nested')
      BY <1>n, <1>a, <2>2, <3>2 DEF AllInTurn, Before
    <3>4. \A i \in DOMAIN pending : i # 1 => pending[i] \in nested' BY <1>n, <1>a DEF AllInTurn
    <3>5. QED BY <1>k, <1>r, <2>1, <2>2, <3>1, <3>3, <3>4 DEF AllInTurn
  <2>7. QED BY <2>3, <2>4, <2>5, <2>6 DEF QueueInv
<1>2. CASE Overflow # 0
  <2>1. m_queue' = kept /\ lost' = lost \cup Elems(gone) /\ pending' = Append(pending, calls')
    BY <1>2 DEF Enqueue
  <2> HIDE DEF kept, gone
  <2>2. /\ pending' \in Seq(Tasks) /\ Len(pending') = Len(pending) + 1
        /\ Elems(pending') = Elems(pending) \cup {calls'} /\ Distinct(pending')
    <3>1. Appended(pending, calls', pending', nested') BY <1>t, <1>n, <2>1, AppendOne
    <3>2. Distinct(pending) BY <1>a DEF OnePlaceEach
    <3>3. QED BY <1>n, <3>1, <3>2 DEF Appended
  <2>g. \A x \in Elems(gone) : x \in Tasks BY <1>s DEF Elems
  <2>3. QueueType'
    <3>1. lost' \in SUBSET Tasks BY <1>t, <2>1, <2>g
    <3>2. QED BY <1>t, <1>n, <1>r, <1>s, <2>1, <2>2, <3>1 DEF QueueType
  <2>4. QueueBounded'
    <3>1. Len(kept) < MaxQueueSize /\ Len(kept) \in Nat BY <1>o, <1>s
    <3>2. Len(kept) + (Len(pending) + 1) =< MaxQueueSize + MaxNesting
      BY <1>t, <1>r, <3>1, QueueSizeAssumption, QueueNesting
    <3>3. QED BY <2>1, <2>2, <3>2 DEF QueueBounded
  <2>5. OnePlaceEach' BY <1>n, <1>r, <1>s, <1>a, <2>1, <2>2 DEF OnePlaceEach
  <2>6. AllInTurn'
    <3>1. Before(Elems(ran), Elems(kept), nested') BY <1>n, <1>a, <1>s DEF AllInTurn, Before
    <3>2. Before(lost \cup Elems(gone), Elems(kept), nested')
      BY <1>n, <1>a, <1>s DEF AllInTurn, Before
    <3>3. Before(Elems(ran) \cup (lost \cup Elems(gone)) \cup Elems(kept), Elems(pending'), nested')
      BY <1>n, <1>a, <1>s, <2>2 DEF AllInTurn, Before
    <3>4. \A i \in DOMAIN pending' : i # 1 => pending'[i] \in nested'
      <4>1. SUFFICES ASSUME NEW i \in DOMAIN pending', i # 1 PROVE pending'[i] \in nested'
        OBVIOUS
      <4>2. CASE i = Len(pending) + 1
        <5>1. pending'[i] = calls' BY <1>t, <2>1, <4>2
        <5>2. pending # <<>> BY <4>1, <4>2
        <5>3. QED BY <1>n, <5>1, <5>2
      <4>3. CASE i # Len(pending) + 1
        <5>1. i \in DOMAIN pending /\ pending'[i] = pending[i] BY <1>t, <1>n, <2>1, <2>2, <4>3
        <5>2. QED BY <1>n, <1>a, <4>1, <5>1 DEF AllInTurn
      <4>4. QED BY <4>2, <4>3
    <3>5. QED BY <1>k, <1>r, <2>1, <3>1, <3>2, <3>3, <3>4 DEF AllInTurn
  <2>7. QED BY <2>3, <2>4, <2>5, <2>6 DEF QueueInv
<1>3. QED BY <1>1, <1>2

\* The innermost suspended enqueue() goes on.
LEMMA EnqueueEndsStep == ASSUME QueueInv, EnqueueEnds PROVE QueueInv'
<1>t. /\ m_queue \in Seq(Tasks) /\ pending \in Seq(Tasks) /\ pending # <<>>
      /\ Len(m_queue) \in Nat /\ Len(pending) \in Nat /\ Len(pending) > 0
      /\ DOMAIN pending = 1 .. Len(pending)
  BY DEF QueueInv, QueueType, EnqueueEnds
<1>a. AllInTurn /\ OnePlaceEach BY DEF QueueInv
<1>u. UNCHANGED <<calls, ran, lost, nested>> BY DEF EnqueueEnds
<1> DEFINE n == Len(pending)
           rest == SubSeq(pending, 1, n - 1)
           e == pending[n]
           last == SubSeq(pending, (n - 1) + 1, n)
<1>e. e \in Tasks /\ n \in DOMAIN pending /\ e \in Elems(pending) BY <1>t DEF Elems
<1>s. /\ rest \in Seq(Tasks) /\ Len(rest) = n - 1 /\ Elems(pending) = Elems(rest) \cup Elems(last)
      /\ last \in Seq(Tasks) /\ Len(last) = 1
      /\ Distinct(rest) /\ Elems(rest) \cap Elems(last) = {}
      /\ \A i \in DOMAIN rest : i \in DOMAIN pending /\ rest[i] = pending[i]
  <2>1. n - 1 \in 0 .. Len(pending) BY <1>t
  <2>2. Len(pending) - (n - 1) = 1 BY <1>t
  <2>3. Split(pending, n - 1, rest, last, nested) BY <1>t, <2>1, SplitAt
  <2>4. Distinct(pending) BY <1>a DEF OnePlaceEach
  <2> HIDE DEF rest, last
  <2>5. QED BY <2>2, <2>3, <2>4 DEF Split
<1>l. Elems(last) = {e}
  <2>1. \A i \in (n - 1) + 1 .. n : pending[i] \in Tasks BY <1>t
  <2>2. (n - 1) + 1 \in Int /\ n \in Int BY <1>t
  <2>3. \A i \in 1 .. n - ((n - 1) + 1) + 1 : last[i] = pending[((n - 1) + 1) + i - 1]
    BY <2>1, <2>2, SubSeqProperties
  <2>4. n - ((n - 1) + 1) + 1 = 1 /\ ((n - 1) + 1) + 1 - 1 = n BY <1>t
  <2> HIDE DEF last
  <2>5. last[1] = e BY <2>3, <2>4
  <2>6. DOMAIN last = {1} BY <1>s
  <2>7. QED BY <2>5, <2>6 DEF Elems
<1>q. m_queue' = Append(m_queue, e) /\ pending' = rest BY DEF EnqueueEnds
<1> HIDE DEF rest, last, e
<1>b. Before(Elems(m_queue), {e}, nested) BY <1>a, <1>e DEF AllInTurn, Before
<1>1. /\ m_queue' \in Seq(Tasks) /\ Len(m_queue') = Len(m_queue) + 1
      /\ Elems(m_queue') = Elems(m_queue) \cup {e}
      /\ Distinct(m_queue') /\ InTurn(m_queue', nested)
  <2>1. e \notin Elems(m_queue) BY <1>a, <1>e DEF OnePlaceEach
  <2>2. InTurn(m_queue, nested) /\ Distinct(m_queue) BY <1>a DEF AllInTurn, OnePlaceEach
  <2>3. Appended(m_queue, e, m_queue', nested) BY <1>t, <1>e, <1>q, AppendOne
  <2>4. QED BY <1>b, <2>1, <2>2, <2>3 DEF Appended
<1>2. QueueType' BY <1>s, <1>u, <1>q, <1>1 DEF QueueInv, QueueType
<1>3. QueueBounded'
  BY <1>t, <1>s, <1>q, <1>1, QueueSizeAssumption, QueueNesting DEF QueueInv, QueueBounded
<1>4. OnePlaceEach' BY <1>s, <1>l, <1>u, <1>a, <1>q, <1>1 DEF OnePlaceEach
<1>5. AllInTurn'
  <2>1. Before(Elems(ran), Elems(m_queue'), nested) /\ Before(lost, Elems(m_queue'), nested)
    BY <1>a, <1>e, <1>1 DEF AllInTurn, Before
  <2>2. Elems(rest) # {} => e \in nested
    <3>1. ASSUME Elems(rest) # {} PROVE n # 1 BY <1>s, <1>t, <3>1 DEF Elems
    <3>2. QED BY <1>a, <1>e, <3>1 DEF AllInTurn, e
  <2>3. Before(Elems(ran) \cup lost \cup Elems(m_queue'), Elems(rest), nested)
    BY <1>a, <1>s, <1>1, <2>2 DEF AllInTurn, Before
  <2>4. \A i \in DOMAIN rest : i # 1 => rest[i] \in nested BY <1>a, <1>s DEF AllInTurn
  <2>5. InTurn(ran, nested) BY <1>a DEF AllInTurn
  <2>6. QED BY <1>u, <1>q, <1>1, <2>1, <2>3, <2>4, <2>5 DEF AllInTurn
<1>6. QED BY <1>2, <1>3, <1>4, <1>5 DEF QueueInv

LEMMA ClearStep == ASSUME QueueInv, Clear PROVE QueueInv'
<1>1. /\ m_queue' = <<>> /\ lost' = lost \cup Elems(m_queue)
      /\ UNCHANGED <<pending, calls, ran, nested>>
  BY DEF Clear
<1>2. Elems(<<>>) = {} /\ DOMAIN <<>> = {} BY DEF Elems
<1>3. QueueType'
  <2>1. Elems(m_queue) \subseteq Tasks BY DEF QueueInv, QueueType, Elems
  <2>2. m_queue' \in Seq(Tasks) BY <1>1
  <2>3. lost' \in SUBSET Tasks BY <1>1, <2>1 DEF QueueInv, QueueType
  <2>4. QED BY <1>1, <2>2, <2>3 DEF QueueInv, QueueType
<1>4. QueueBounded'
  <2>1. Len(m_queue) \in Nat /\ Len(pending) \in Nat /\ Len(m_queue') = 0
    BY <1>1 DEF QueueInv, QueueType
  <2>2. QED BY <1>1, <2>1, QueueSizeAssumption, QueueNesting DEF QueueInv, QueueBounded
<1>5. OnePlaceEach'
  <2>1. Distinct(<<>>) BY <1>2 DEF Distinct
  <2>2. QED BY <1>1, <1>2, <2>1 DEF QueueInv, OnePlaceEach
<1>6. AllInTurn'
  <2>1. InTurn(<<>>, nested) BY <1>2 DEF InTurn
  <2>2. Before(Elems(ran), {}, nested) /\ Before(lost', {}, nested) BY DEF Before
  <2>3. Before(Elems(ran) \cup lost' \cup {}, Elems(pending), nested)
    BY <1>1 DEF QueueInv, AllInTurn, Before
  <2>4. QED BY <1>1, <1>2, <2>1, <2>2, <2>3 DEF QueueInv, AllInTurn
<1>7. QED BY <1>3, <1>4, <1>5, <1>6 DEF QueueInv

LEMMA ConsumeStep == ASSUME QueueInv, Consume PROVE QueueInv'
<1>t. /\ m_queue \in Seq(Tasks) /\ m_queue # <<>> /\ ran \in Seq(Tasks)
      /\ Len(m_queue) \in Nat /\ Len(m_queue) > 0
  BY DEF QueueInv, QueueType, Consume
<1>a. AllInTurn /\ OnePlaceEach BY DEF QueueInv
<1>u. UNCHANGED <<pending, calls, lost, nested>> /\ pending = <<>> BY DEF Consume
<1> DEFINE e == m_queue[1]
           rest == SubSeq(m_queue, 1 + 1, Len(m_queue))
           first == SubSeq(m_queue, 1, 1)
<1>h. Head(m_queue) = e /\ Tail(m_queue) = rest /\ e \in Tasks
  <2>1. Tail(m_queue) = SubSeq(m_queue, 2, Len(m_queue)) BY <1>t, TailIsSubSeq
  <2>2. QED BY <1>t, <2>1
<1>s. /\ first \in Seq(Tasks) /\ Len(first) = 1 /\ rest \in Seq(Tasks)
      /\ Len(rest) = Len(m_queue) - 1
      /\ \A i \in DOMAIN first : first[i] = m_queue[i]
      /\ Elems(m_queue) = Elems(first) \cup Elems(rest)
      /\ Distinct(rest) /\ Elems(first) \cap Elems(rest) = {}
      /\ InTurn(rest, nested) /\ Before(Elems(first), Elems(rest), nested)
  <2>1. 1 \in 0 .. Len(m_queue) BY <1>t
  <2>2. Split(m_queue, 1, first, rest, nested) BY <1>t, <2>1, SplitAt
  <2>3. Distinct(m_queue) /\ InTurn(m_queue, nested) BY <1>a DEF OnePlaceEach, AllInTurn
  <2> HIDE DEF first, rest
  <2>4. QED BY <2>2, <2>3 DEF Split
<1>f. Elems(first) = {e}
  <2> HIDE DEF first, rest
  <2>1. DOMAIN first = {1} BY <1>s
  <2>2. QED BY <1>s, <2>1 DEF Elems
<1>q. ran' = Append(ran, e) /\ m_queue' = rest BY <1>h DEF Consume
<1> HIDE DEF first, rest, e
<1>1. /\ ran' \in Seq(Tasks) /\ Elems(ran') = Elems(ran) \cup {e}
      /\ Distinct(ran') /\ InTurn(ran', nested)
  <2>1. e \in Elems(m_queue) BY <1>s, <1>f
  <2>2. e \notin Elems(ran) /\ Distinct(ran) BY <1>a, <2>1 DEF OnePlaceEach
  <2>3. InTurn(ran, nested) /\ Before(Elems(ran), {e}, nested) BY <1>a, <2>1 DEF AllInTurn, Before
  <2>4. Appended(ran, e, ran', nested) BY <1>t, <1>h, <1>q, AppendOne
  <2>5. QED BY <2>2, <2>3, <2>4 DEF Appended
<1>2. QueueType' BY <1>s, <1>u, <1>q, <1>1 DEF QueueInv, QueueType
<1>3. QueueBounded' BY <1>t, <1>s, <1>u, <1>q, QueueSizeAssumption, QueueNesting DEF QueueInv, QueueBounded
<1>4. OnePlaceEach' BY <1>s, <1>f, <1>u, <1>a, <1>q, <1>1 DEF OnePlaceEach
<1>5. AllInTurn'
  <2>1. Before(Elems(ran'), Elems(rest), nested) /\ Before(lost, Elems(rest), nested)
    BY <1>a, <1>s, <1>f, <1>1 DEF AllInTurn, Before
  <2>2. DOMAIN pending = {} /\ Elems(pending) = {} BY <1>u DEF Elems
  <2>3. Before(Elems(ran') \cup lost \cup Elems(rest), Elems(pending), nested)
    BY <2>2 DEF Before
  <2>4. QED BY <1>u, <1>q, <1>s, <1>1, <2>1, <2>2, <2>3 DEF AllInTurn
<1>6. QED BY <1>2, <1>3, <1>4, <1>5 DEF QueueInv

LEMMA QueueStep == QueueInv /\ [Next]_vars => QueueInv'
<1> SUFFICES ASSUME QueueInv, [Next]_vars PROVE QueueInv'
  OBVIOUS
<1>1. CASE Enqueue BY <1>1, EnqueueStep
<1>2. CASE EnqueueEnds BY <1>2, EnqueueEndsStep
<1>3. CASE Clear BY <1>3, ClearStep
<1>4. CASE Consume BY <1>4, ConsumeStep
<1>5. CASE Start \/ Stop \/ UNCHANGED vars
  <2>1. UNCHANGED <<m_queue, pending, calls, ran, lost, nested>> BY <1>5 DEF Start, Stop, vars
  <2>2. QED BY <2>1 DEF QueueInv, QueueType, QueueBounded, OnePlaceEach, AllInTurn
<1>6. QED BY <1>1, <1>2, <1>3, <1>4, <1>5 DEF Next

\* One place each means that the counts add up.
LEMMA QueueCounts == QueueInv => EveryTaskOnce
<1> SUFFICES ASSUME QueueInv PROVE EveryTaskOnce
  OBVIOUS
<1>1. /\ IsFiniteSet(Elems(ran)) /\ Cardinality(Elems(ran)) = Len(ran)
      /\ IsFiniteSet(Elems(m_queue)) /\ Cardinality(Elems(m_queue)) = Len(m_queue)
      /\ IsFiniteSet(Elems(pending)) /\ Cardinality(Elems(pending)) = Len(pending)
  BY CountDistinct DEF QueueInv, QueueType, OnePlaceEach
<1>2. IsFiniteSet(1 .. calls) /\ Cardinality(1 .. calls) = calls /\ calls \in Nat
  BY QueueTasks, FS_Interval DEF QueueInv, QueueType
<1> DEFINE A == Elems(ran) \cup lost
           B == Elems(m_queue) \cup Elems(pending)
<1>3. A \cup B = 1 .. calls /\ A \cap B = {} /\ Elems(ran) \cap lost = {}
      /\ Elems(m_queue) \cap Elems(pending) = {}
  BY DEF QueueInv, OnePlaceEach
<1>4. IsFiniteSet(lost)
  <2>1. lost \in SUBSET (1 .. calls) BY <1>3
  <2>2. QED BY <1>2, <2>1, FS_Subset
<1>5. IsFiniteSet(A) /\ Cardinality(A) = Len(ran) + Cardinality(lost)
  <2>1. /\ IsFiniteSet(A)
        /\ Cardinality(A) = Cardinality(Elems(ran)) + Cardinality(lost)
                              - Cardinality(Elems(ran) \cap lost)
    BY <1>1, <1>4, FS_Union
  <2>2. Cardinality(Elems(ran) \cap lost) = 0 BY <1>3, FS_EmptySet
  <2>3. Cardinality(lost) \in Nat /\ Len(ran) \in Nat
    BY <1>4, FS_CardinalityType DEF QueueInv, QueueType
  <2>4. QED BY <1>1, <2>1, <2>2, <2>3
<1>6. IsFiniteSet(B) /\ Cardinality(B) = Len(m_queue) + Len(pending)
  <2>1. /\ IsFiniteSet(B)
        /\ Cardinality(B) = Cardinality(Elems(m_queue)) + Cardinality(Elems(pending))
                              - Cardinality(Elems(m_queue) \cap Elems(pending))
    BY <1>1, FS_Union
  <2>2. Cardinality(Elems(m_queue) \cap Elems(pending)) = 0 BY <1>3, FS_EmptySet
  <2>3. Len(m_queue) \in Nat /\ Len(pending) \in Nat BY DEF QueueInv, QueueType
  <2>4. QED BY <1>1, <2>1, <2>2, <2>3
<1> HIDE DEF A, B
<1>7. calls = Cardinality(A) + Cardinality(B)
  <2>1. Cardinality(A \cup B) = Cardinality(A) + Cardinality(B) - Cardinality(A \cap B)
    BY <1>5, <1>6, FS_Union
  <2>2. Cardinality(A \cap B) = 0 BY <1>3, FS_EmptySet
  <2>3. Cardinality(A) \in Nat /\ Cardinality(B) \in Nat BY <1>5, <1>6, FS_CardinalityType
  <2>4. Cardinality(A \cup B) = calls BY <1>2, <1>3
  <2>5. QED BY <2>1, <2>2, <2>3, <2>4
<1>8. Len(ran) + Cardinality(lost) + Len(m_queue) + Len(pending) = calls
  <2>1. Cardinality(lost) \in Nat BY <1>4, FS_CardinalityType
  <2>2. Len(ran) \in Nat /\ Len(m_queue) \in Nat /\ Len(pending) \in Nat
    BY DEF QueueInv, QueueType
  <2>3. QED BY <1>5, <1>6, <1>7, <2>1, <2>2
<1>9. QED BY <1>8 DEF EveryTaskOnce, QueueInv, OnePlaceEach

LEMMA QueueOrder == QueueInv => OldestFirst
<1> SUFFICES ASSUME QueueInv PROVE OldestFirst
  OBVIOUS
<1>1. ran \in Seq(Tasks) /\ m_queue \in Seq(Tasks) BY DEF QueueInv, QueueType
<1> DEFINE c == ran \o m_queue
<1>2. /\ Len(ran) \in Nat /\ Len(m_queue) \in Nat
      /\ DOMAIN ran = 1 .. Len(ran) /\ DOMAIN m_queue = 1 .. Len(m_queue)
      /\ DOMAIN c = 1 .. Len(ran) + Len(m_queue)
      /\ \A i \in 1 .. Len(ran) : c[i] = ran[i]
      /\ \A i \in Len(ran) + 1 .. Len(ran) + Len(m_queue) : c[i] = m_queue[i - Len(ran)]
  BY <1>1
<1> HIDE DEF c
<1>3. ASSUME NEW i \in DOMAIN c, NEW j \in DOMAIN c, i < j
      PROVE  c[i] < c[j] \/ c[i] \in nested
  <2>1. CASE j =< Len(ran)
    <3>1. i \in DOMAIN ran /\ j \in DOMAIN ran /\ c[i] = ran[i] /\ c[j] = ran[j]
      BY <1>2, <1>3, <2>1
    <3>2. QED BY <1>3, <3>1 DEF QueueInv, AllInTurn, InTurn
  <2>2. CASE i =< Len(ran) /\ j > Len(ran)
    <3>1. i \in DOMAIN ran /\ j - Len(ran) \in DOMAIN m_queue
          /\ c[i] = ran[i] /\ c[j] = m_queue[j - Len(ran)]
      BY <1>2, <1>3, <2>2
    <3>2. c[i] \in Elems(ran) /\ c[j] \in Elems(m_queue) BY <3>1 DEF Elems
    <3>3. QED BY <3>2 DEF QueueInv, AllInTurn, Before
  <2>3. CASE i > Len(ran)
    <3>1. i - Len(ran) \in DOMAIN m_queue /\ j - Len(ran) \in DOMAIN m_queue
          /\ i - Len(ran) < j - Len(ran)
          /\ c[i] = m_queue[i - Len(ran)] /\ c[j] = m_queue[j - Len(ran)]
      BY <1>2, <1>3, <2>3
    <3>2. QED BY <3>1 DEF QueueInv, AllInTurn, InTurn
  <2>4. QED BY <1>2, <1>3, <2>1, <2>2, <2>3
<1>4. \A t \in lost, u \in Elems(m_queue) \cup Elems(pending) : t < u \/ t \in nested
  BY DEF QueueInv, AllInTurn, Before
<1>5. QED BY <1>3, <1>4 DEF OldestFirst, c

-----------------------------------------------------------------------------
(* Slider                                                                   *)

\* Whole steps, as many as there were at most.
Steps(d, n) == \E k \in -n .. n : d = k * SliderStep

\* The offsets are off by whole steps, from the value and from m_iLastPosition.
SliderInv ==
    /\ value \in Int /\ m_iLastPosition \in Int /\ told \in Int /\ steps \in Nat
    /\ steps = 0 /\ "slot" \notin past => told = m_iLastPosition
    /\ past = {} => Steps(told - value, steps) /\ Steps(told - m_iLastPosition, steps)

LEMMA StepsGrow ==
    ASSUME NEW d \in Int, NEW n \in Nat, Steps(d, n)
    PROVE  /\ Steps(d, n + 1) /\ Steps(d + SliderStep, n + 1) /\ Steps(d - SliderStep, n + 1)
<1>1. PICK k \in -n .. n : d = k * SliderStep BY DEF Steps
<1>2. k \in -(n + 1) .. n + 1 /\ k + 1 \in -(n + 1) .. n + 1 /\ k - 1 \in -(n + 1) .. n + 1
  OBVIOUS
<1>3. (k + 1) * SliderStep = d + SliderStep /\ (k - 1) * SliderStep = d - SliderStep
  BY <1>1, SliderStepAssumption
<1>4. QED BY <1>1, <1>2, <1>3 DEF Steps

LEMMA StepsBound ==
    ASSUME NEW d \in Int, NEW n \in Nat, Steps(d, n)
    PROVE  d % SliderStep = 0 /\ d \in -(SliderStep * n) .. SliderStep * n
<1>1. PICK k \in -n .. n : d = k * SliderStep BY DEF Steps
<1>2. (k * SliderStep) % SliderStep = 0 BY SliderStepAssumption
<1>3. k * SliderStep =< SliderStep * n /\ -(SliderStep * n) =< k * SliderStep
  <2>1. SliderStep \in Nat /\ n - k \in Nat /\ n + k \in Nat BY SliderStepAssumption
  <2>2. SliderStep * (n - k) \in Nat /\ SliderStep * (n + k) \in Nat BY <2>1
  <2>3. QED BY <2>1, <2>2
<1>4. QED BY <1>1, <1>2, <1>3, SliderStepAssumption

LEMMA SliderStarts == SliderInit => SliderInv
<1> SUFFICES ASSUME SliderInit PROVE SliderInv
  OBVIOUS
<1>1. 0 \in -0 .. 0 /\ 0 = 0 * SliderStep BY SliderStepAssumption
<1>2. Steps(0, 0) BY <1>1 DEF Steps
<1>3. QED BY <1>2 DEF SliderInit, SliderInv

LEMMA SliderMoves == SliderInv /\ [SliderNext]_sliderVars => SliderInv'
<1> SUFFICES ASSUME SliderInv, [SliderNext]_sliderVars PROVE SliderInv'
  OBVIOUS
<1>1. ASSUME UNCHANGED <<m_iLastPosition, told, steps>>, value' \in Int,
             past \subseteq past', value' = value \/ past' # {}
      PROVE  SliderInv'
  BY <1>1 DEF SliderInv
<1>2. CASE MousePress
  BY <1>1, <1>2 DEF MousePress, Values, SliderInv
<1>3. CASE MouseRelease \/ SetMousePressEnabled \/ UNCHANGED sliderVars
  BY <1>1, <1>3 DEF MouseRelease, SetMousePressEnabled, sliderVars, SliderInv
<1>4. ASSUME NEW v \in Values, SetValue(v) PROVE SliderInv'
  BY <1>1, <1>4 DEF SetValue, Values, SliderInv
<1>5. ASSUME NEW to \in Values, NEW set \in Values, MouseMove(to, set) PROVE SliderInv'
  <2>1. /\ told' = told + (to - m_iLastPosition) /\ value' = set /\ m_iLastPosition' = set
        /\ steps' = steps /\ past' = IF set = to THEN past ELSE past \cup {"slot"}
        /\ to \in Int /\ set \in Int
    BY <1>5 DEF MouseMove, Values
  <2>2. CASE set = to
    <3>1. told' - value' = told - m_iLastPosition /\ told' - m_iLastPosition' = told - m_iLastPosition
          /\ told' \in Int
      BY <2>1, <2>2 DEF SliderInv
    <3>2. steps' = 0 /\ "slot" \notin past' => told' = m_iLastPosition'
      BY <2>1, <2>2 DEF SliderInv
    <3>3. QED BY <2>1, <2>2, <3>1, <3>2 DEF SliderInv
  <2>3. CASE set # to BY <2>1, <2>3 DEF SliderInv
  <2>4. QED BY <2>2, <2>3
<1>6. ASSUME NEW by \in {SliderStep, - SliderStep}, Step(by) PROVE SliderInv'
  <2>1. /\ m_iLastPosition' = value /\ value' = value + by /\ steps' = steps + 1
        /\ told' = told + (value' - m_iLastPosition') /\ past' = past
    BY <1>6 DEF Step
  <2>2. by \in Int BY SliderStepAssumption
  <2>3. /\ value' \in Int /\ told' = told + by /\ told' \in Int /\ steps' \in Nat /\ steps' # 0
        /\ told' - value' = told - value
        /\ told' - m_iLastPosition' = (told - value) + by
    BY <2>1, <2>2 DEF SliderInv
  <2>4. past = {} => Steps(told' - value', steps') /\ Steps(told' - m_iLastPosition', steps')
    <3>1. SUFFICES ASSUME past = {}
                   PROVE  Steps(told - value, steps + 1) /\ Steps((told - value) + by, steps + 1)
      BY <2>1, <2>3
    <3>2. told - value \in Int /\ steps \in Nat /\ Steps(told - value, steps)
      BY <3>1 DEF SliderInv
    <3>3. (told - value) + by = (told - value) + SliderStep
          \/ (told - value) + by = (told - value) - SliderStep
      BY <3>2, SliderStepAssumption
    <3>4. QED BY <3>2, <3>3, StepsGrow
  <2>5. QED BY <2>1, <2>3, <2>4 DEF SliderInv
<1>7. CASE ValueInc \/ ValueDec BY <1>6, <1>7 DEF ValueInc, ValueDec
<1>8. QED BY <1>2, <1>3, <1>4, <1>5, <1>7 DEF SliderNext

LEMMA SliderAdds == SliderInv => OffsetsAddUp
<1> SUFFICES ASSUME SliderInv PROVE OffsetsAddUp
  OBVIOUS
<1> DEFINE drift == told - m_iLastPosition
<1>1. drift \in Int /\ steps \in Nat BY DEF SliderInv
<1>2. steps = 0 /\ "slot" \notin past => drift = 0 BY DEF SliderInv
<1>3. past = {} => Steps(drift, steps) BY DEF SliderInv
<1> HIDE DEF drift
<1>4. past = {} => drift % SliderStep = 0
                   /\ drift \in -(SliderStep * steps) .. SliderStep * steps
  BY <1>1, <1>3, StepsBound
<1>5. QED BY <1>2, <1>4 DEF OffsetsAddUp, drift

-----------------------------------------------------------------------------
(* ScreenCapture                                                            *)

\* Every picture has used up a showing, and every showing a timer; a covered
\* pixmap took two of them.
Shots == [image : {"null", "clean", "covered"},
          x : [from : Int, width : Int], y : [from : Int, width : Int],
          from : [x : Int, y : Int], to : [x : Int, y : Int]]

CaptureInv ==
    /\ starts \in Nat /\ timers \in Nat
    /\ shots \in Seq(Shots)
    /\ originPos \in [x : Int, y : Int] /\ currentPos \in [x : Int, y : Int]
    /\ fullScreenPixmap \in {"null", "clean", "covered"}
    /\ ratio \in Nat
    /\ Len(shots) + timers + (IF window = "shown" THEN 1 ELSE 0) =< starts
    /\ fullScreenPixmap = "covered" => starts > 1
    /\ CaptureIsTheSelection

\* Whatever double the product is, it is cut to less than two pixels from it, and
\* a width never grows.
LEMMA Cut ==
    ASSUME NEW a \in Int, ratio \in Nat, NEW k \in Scaled(a)
    PROVE  /\ k \in Int /\ a * ratio \in Int
           /\ (k + 1) * 100 >= a * ratio /\ (k - 1) * 100 =< a * ratio
           /\ a * ratio >= 0 => k * 100 =< a * ratio
<1> DEFINE p    == a * ratio
           size == IF p < 0 THEN (-p) \div 100 ELSE p \div 100
           less == IF p % 100 = 0 /\ ratio % 25 # 0 /\ p # 0 THEN size - 1 ELSE size
<1>1. p \in Int OBVIOUS
<1>2. k \in IF p < 0 THEN {-size, -less} ELSE {size, less} BY DEF Scaled
<1> HIDE DEF p
<1>3. less \in {size, size - 1} /\ (less = size - 1 => p % 100 = 0) BY <1>1
<1>4. CASE p < 0
  <2>1. size = (-p) \div 100 BY <1>4
  <2>2. /\ size \in Int /\ size * 100 =< -p /\ -p < (size + 1) * 100
        /\ p % 100 = 0 => size * 100 = -p
    BY <1>1, <2>1
  <2> HIDE DEF size, less
  <2>3. k \in {-size, -less} BY <1>2, <1>4
  <2>4. k = -size \/ (k = 1 - size /\ size * 100 = -p) BY <1>3, <2>2, <2>3
  <2>5. QED BY <1>1, <1>4, <2>2, <2>4 DEF p
<1>5. CASE ~ (p < 0)
  <2>1. size = p \div 100 BY <1>5
  <2>2. /\ size \in Int /\ size * 100 =< p /\ p < (size + 1) * 100
        /\ p % 100 = 0 => size * 100 = p
    BY <1>1, <2>1
  <2> HIDE DEF size, less
  <2>3. k \in {size, less} BY <1>2, <1>5
  <2>4. k = size \/ (k = size - 1 /\ size * 100 = p) BY <1>3, <2>2, <2>3
  <2>5. QED BY <1>1, <1>5, <2>2, <2>4 DEF p
<1>6. QED BY <1>4, <1>5

\* In each direction, the copied part covers the selection.
LEMMA SpanCovers ==
    ASSUME NEW a \in Int, NEW b \in Int, ratio \in Nat, NEW t \in TargetRect(Span(a, b))
    PROVE  Covers(t, a, b) /\ t \in [from : Int, width : Int]
<1> DEFINE s == Span(a, b)
           f == t.from
           w == t.width
<1>1. s.from \in Int /\ s.width \in Int /\ s.width >= 0 BY DEF Span
<1>2. f \in Scaled(s.from) /\ w \in Scaled(s.width) /\ t = [from |-> f, width |-> w]
  BY DEF TargetRect
<1>3. /\ f \in Int /\ w \in Int
      /\ s.from * ratio \in Int /\ s.width * ratio \in Int
      /\ (f + 1) * 100 >= s.from * ratio /\ (f - 1) * 100 =< s.from * ratio
      /\ (w + 1) * 100 >= s.width * ratio
      /\ s.width * ratio >= 0 => w * 100 =< s.width * ratio
  BY <1>1, <1>2, Cut
<1>4. s.width * ratio >= 0 BY <1>1
<1> HIDE DEF f, w
<1>5. CASE b < a
  <2>1. s.from = b + 1 /\ s.width = a - b - 1 BY <1>5 DEF Span
  <2>2. /\ (b + 1) * ratio = b * ratio + ratio
        /\ (b + 1) * ratio + (a - b - 1) * ratio = a * ratio
        /\ (a + 1) * ratio = a * ratio + ratio
        /\ b * ratio \in Int /\ a * ratio \in Int
    OBVIOUS
  <2>3. /\ (f + 1) * 100 >= b * ratio
        /\ (f + w - 1) * 100 =< (a + 1) * ratio
        /\ (w + 1) * 100 >= (a - b - 1) * ratio
    BY <1>3, <1>4, <2>1, <2>2
  <2> HIDE DEF s
  <2>4. QED BY <1>2, <1>3, <1>5, <2>3 DEF Covers
<1>6. CASE ~ (b < a)
  <2>1. s.from = a /\ s.width = b - a + 1 BY <1>6 DEF Span
  <2>2. /\ a * ratio + (b - a + 1) * ratio = (b + 1) * ratio
        /\ (b - a - 1) * ratio = (b - a + 1) * ratio - 2 * ratio
        /\ (b + 1) * ratio \in Int /\ a * ratio \in Int
    OBVIOUS
  <2>3. /\ (f + 1) * 100 >= a * ratio
        /\ (f + w - 1) * 100 =< (b + 1) * ratio
        /\ (w + 1) * 100 >= (b - a - 1) * ratio
    BY <1>3, <1>4, <2>1, <2>2
  <2>4. a = b \/ a < b BY <1>6
  <2> HIDE DEF s
  <2>5. QED BY <1>2, <1>3, <2>3, <2>4 DEF Covers
<1>7. QED BY <1>5, <1>6

LEMMA CaptureStarts == CaptureInit => CaptureInv
<1> SUFFICES ASSUME CaptureInit PROVE CaptureInv
  OBVIOUS
<1>1. originPos \in [x : Int, y : Int] /\ currentPos \in [x : Int, y : Int] /\ ratio \in Nat
  BY CapturePosAssumption, CaptureRatioAssumption DEF CaptureInit, Points
<1>2. shots \in Seq(Shots) /\ Len(shots) = 0 /\ DOMAIN shots = {} BY DEF CaptureInit
<1>3. CaptureIsTheSelection BY <1>2 DEF CaptureInit, CaptureIsTheSelection
<1>4. QED BY <1>1, <1>2, <1>3 DEF CaptureInit, CaptureInv

\* What the history properties need of a step that takes no picture.
LEMMA NoShot ==
    ASSUME CaptureInv, UNCHANGED <<shots, ratio>>, starts' \in Nat, starts' >= starts
    PROVE  CaptureIsTheSelection'
<1>1. Len(shots) \in Nat /\ starts \in Nat BY DEF CaptureInv
<1>2. \A r, a, b : Covers(r, a, b)' <=> Covers(r, a, b) BY DEF Covers
<1>3. Len(shots') =< starts' BY <1>1 DEF CaptureInv, CaptureIsTheSelection
<1>4. \A i \in DOMAIN shots' : shots'[i].image = "covered" => starts' > 1
  BY <1>1 DEF CaptureInv, CaptureIsTheSelection
<1>5. QED BY <1>2, <1>3, <1>4 DEF CaptureInv, CaptureIsTheSelection, Covers

\* A picture is signalled.
LEMMA ShotStep ==
    ASSUME CaptureInv, window = "shown", window' = "hidden",
           UNCHANGED <<timers, fullScreenPixmap, originPos, currentPos, ratio, starts>>,
           NEW e \in Shots, e.image = fullScreenPixmap,
           Covers(e.x, e.from.x, e.to.x), Covers(e.y, e.from.y, e.to.y),
           shots' = Append(shots, e)
    PROVE  CaptureInv'
<1>1. UNCHANGED <<timers, fullScreenPixmap, originPos, currentPos, ratio, starts>> OBVIOUS
<1>2. /\ originPos \in [x : Int, y : Int] /\ currentPos \in [x : Int, y : Int]
      /\ ratio \in Nat /\ fullScreenPixmap \in {"null", "clean", "covered"}
      /\ shots \in Seq(Shots) /\ Len(shots) \in Nat /\ timers \in Nat /\ starts \in Nat
  BY DEF CaptureInv
<1>5. Len(shots) + timers + 1 =< starts BY DEF CaptureInv
<1>6. /\ shots' \in Seq(Shots) /\ Len(shots') \in Nat /\ Len(shots') =< Len(shots) + 1
      /\ \A i \in DOMAIN shots' : (i \in DOMAIN shots /\ shots'[i] = shots[i]) \/ shots'[i] = e
  <2>1. /\ Append(shots, e) \in Seq(Shots) /\ Len(Append(shots, e)) = Len(shots) + 1
        /\ DOMAIN Append(shots, e) = 1 .. Len(shots) + 1 /\ DOMAIN shots = 1 .. Len(shots)
        /\ \A i \in 1 .. Len(shots) : Append(shots, e)[i] = shots[i]
        /\ Append(shots, e)[Len(shots) + 1] = e
    BY <1>2
  <2>2. \A i \in 1 .. Len(shots) + 1 : i \in 1 .. Len(shots) \/ i = Len(shots) + 1 BY <1>2
  <2>3. QED BY <1>2, <2>1, <2>2
<1>7. CaptureIsTheSelection'
  <2>1. \A r, a, b : Covers(r, a, b)' <=> Covers(r, a, b) BY DEF Covers
  <2>2. \A i \in DOMAIN shots : Covers(shots[i].x, shots[i].from.x, shots[i].to.x)
                             /\ Covers(shots[i].y, shots[i].from.y, shots[i].to.y)
    BY DEF CaptureInv, CaptureIsTheSelection
  <2>3. \A i \in DOMAIN shots : shots[i].image = "covered" => starts > 1
    BY DEF CaptureInv, CaptureIsTheSelection
  <2>4. fullScreenPixmap = "covered" => starts > 1 BY DEF CaptureInv
  <2>5. Len(shots') =< starts' BY <1>2, <1>5, <1>6
  <2>6. \A i \in DOMAIN shots' : Covers(shots'[i].x, shots'[i].from.x, shots'[i].to.x)
                              /\ Covers(shots'[i].y, shots'[i].from.y, shots'[i].to.y)
    BY <1>6, <2>2
  <2>7. \A i \in DOMAIN shots' : shots'[i].image = "covered" => starts' > 1
    BY <1>6, <2>3, <2>4
  <2>8. QED BY <1>1, <2>5, <2>6, <2>7 DEF CaptureIsTheSelection, Covers
<1>8. Len(shots') + timers' + (IF window' = "shown" THEN 1 ELSE 0) =< starts'
  BY <1>2, <1>5, <1>6
<1>9. QED BY <1>2, <1>6, <1>7, <1>8 DEF CaptureInv

LEMMA ReleaseStep == ASSUME CaptureInv, CaptureRelease PROVE CaptureInv'
<1> DEFINE w == Span(originPos.x, currentPos.x)
           h == Span(originPos.y, currentPos.y)
<1>1. /\ window = "shown" /\ window' = "hidden"
      /\ UNCHANGED <<timers, fullScreenPixmap, originPos, currentPos, ratio, starts>>
      /\ \/ shots' = shots
         \/ \E p \in TargetRect(w), q \in TargetRect(h) :
               shots' = Append(shots, [image |-> fullScreenPixmap, x |-> p, y |-> q,
                                       from |-> originPos, to |-> currentPos])
  BY DEF CaptureRelease, Close
<1>2. /\ originPos.x \in Int /\ originPos.y \in Int /\ currentPos.x \in Int /\ currentPos.y \in Int
      /\ ratio \in Nat /\ Len(shots) \in Nat /\ timers \in Nat /\ starts \in Nat
  BY DEF CaptureInv
<1>3. CASE shots' = shots
  <2>1. CaptureIsTheSelection' BY <1>1, <1>2, <1>3, NoShot
  <2>2. QED BY <1>1, <1>2, <1>3, <2>1 DEF CaptureInv
<1>4. ASSUME NEW p \in TargetRect(w), NEW q \in TargetRect(h),
             shots' = Append(shots, [image |-> fullScreenPixmap, x |-> p, y |-> q,
                                     from |-> originPos, to |-> currentPos])
      PROVE  CaptureInv'
  <2>1. /\ Covers(p, originPos.x, currentPos.x) /\ p \in [from : Int, width : Int]
        /\ Covers(q, originPos.y, currentPos.y) /\ q \in [from : Int, width : Int]
    BY <1>2, <1>4, SpanCovers
  <2> HIDE DEF w, h
  <2> DEFINE e == [image |-> fullScreenPixmap, x |-> p, y |-> q, from |-> originPos, to |-> currentPos]
  <2>2. /\ e \in Shots /\ e.image = fullScreenPixmap
        /\ e.x = p /\ e.y = q /\ e.from = originPos /\ e.to = currentPos
    BY <2>1 DEF Shots, CaptureInv
  <2>3. shots' = Append(shots, e) BY <1>4
  <2> HIDE DEF e
  <2>4. QED BY <1>1, <2>1, <2>2, <2>3, ShotStep
<1>5. QED BY <1>1, <1>3, <1>4

LEMMA CaptureMoves == CaptureInv /\ [CaptureNext]_captureVars => CaptureInv'
<1> SUFFICES ASSUME CaptureInv, [CaptureNext]_captureVars PROVE CaptureInv'
  OBVIOUS
<1>t. Len(shots) \in Nat /\ timers \in Nat /\ starts \in Nat BY DEF CaptureInv
<1>p. \A q \in Points : q \in [x : Int, y : Int] BY CapturePosAssumption DEF Points
<1>1. CASE CaptureStart
  <2>1. /\ starts' = starts + 1 /\ timers' = timers + 1
        /\ UNCHANGED <<window, fullScreenPixmap, originPos, currentPos, ratio, shots>>
    BY <1>1 DEF CaptureStart, selectVars
  <2>2. CaptureIsTheSelection' BY <1>t, <2>1, NoShot
  <2>3. QED BY <1>t, <2>1, <2>2 DEF CaptureInv
<1>2. ASSUME NEW screen \in BOOLEAN, CaptureShow(screen) PROVE CaptureInv'
  <2>1. /\ timers > 0 /\ timers' = timers - 1 /\ window' = "shown"
        /\ UNCHANGED <<originPos, currentPos, ratio, starts, shots>>
    BY <1>2 DEF CaptureShow, selectVars
  <2>2. /\ fullScreenPixmap' \in {fullScreenPixmap, "clean", "covered"}
        /\ fullScreenPixmap' = "covered" => fullScreenPixmap = "covered" \/ window = "shown"
    <3>1. CASE ~ screen BY <1>2, <3>1 DEF CaptureShow
    <3>2. CASE screen /\ window = "shown" BY <1>2, <3>2 DEF CaptureShow
    <3>3. CASE screen /\ window # "shown" BY <1>2, <3>3 DEF CaptureShow
    <3>4. QED BY <3>1, <3>2, <3>3
  <2>3. window = "shown" => starts > 1 BY <1>t, <2>1 DEF CaptureInv
  <2>4. Len(shots') + timers' + (IF window' = "shown" THEN 1 ELSE 0) =< starts'
    BY <1>t, <2>1 DEF CaptureInv
  <2>5. CaptureIsTheSelection' BY <1>t, <2>1, NoShot
  <2>6. timers' \in Nat BY <1>t, <2>1
  <2>7. QED BY <2>1, <2>2, <2>3, <2>4, <2>5, <2>6 DEF CaptureInv
<1>3. CASE ParentGone \/ UNCHANGED captureVars
  <2>1. UNCHANGED <<window, timers, fullScreenPixmap, originPos, currentPos, ratio, starts, shots>>
    BY <1>3 DEF ParentGone, captureVars, selectVars
  <2>2. CaptureIsTheSelection' BY <1>t, <2>1, NoShot
  <2>3. QED BY <2>1, <2>2 DEF CaptureInv
<1>4. ASSUME NEW q \in Points, CapturePress(q) \/ CaptureMove(q) PROVE CaptureInv'
  <2>1. /\ UNCHANGED <<window, timers, fullScreenPixmap, ratio, starts, shots>>
        /\ originPos' \in {originPos, q} /\ currentPos' = q
    BY <1>4 DEF CapturePress, CaptureMove
  <2>2. CaptureIsTheSelection' BY <1>t, <2>1, NoShot
  <2>3. originPos' \in [x : Int, y : Int] /\ currentPos' \in [x : Int, y : Int]
    BY <1>p, <2>1 DEF CaptureInv
  <2>4. QED BY <2>1, <2>2, <2>3 DEF CaptureInv
<1>5. CASE CaptureRelease BY <1>5, ReleaseStep
<1>6. CASE CaptureEscape \/ CaptureDeleted
  <2>1. /\ window' # "shown" /\ timers' \in {0, timers}
        /\ UNCHANGED <<fullScreenPixmap, originPos, currentPos, ratio, starts, shots>>
    BY <1>6 DEF CaptureEscape, CaptureDeleted, Close, selectVars
  <2>2. CaptureIsTheSelection' BY <1>t, <2>1, NoShot
  <2>3. /\ Len(shots') + timers' + (IF window' = "shown" THEN 1 ELSE 0) =< starts'
        /\ timers' \in Nat
    BY <1>t, <2>1 DEF CaptureInv
  <2>4. QED BY <2>1, <2>2, <2>3 DEF CaptureInv
<1>7. QED BY <1>1, <1>2, <1>3, <1>4, <1>5, <1>6 DEF CaptureNext

-----------------------------------------------------------------------------
(* AutoGrid                                                                 *)

Cells == [lead : Int, trail : Int, size : Int, grid : Int, atom : [n : Int, d : Int],
          num : Int, min : Int]

\* What a resizeEvent leaves.
Settled(x) ==
    /\ x.grid = x.size - x.lead - x.trail
    /\ x.atom = [n |-> x.grid, d |-> x.num]
    /\ x.num = Turns(x.grid, x.min)
    /\ ~ Endless(x)

GridInv ==
    /\ axis \in [Axes -> Cells]
    /\ setters \in Nat
    /\ setters = 0 /\ ~ hung => \A a \in Axes : Settled(axis[a])

\* Integer division and its remainder.
LEMMA Quotient ==
    ASSUME NEW y \in Int, NEW n \in Nat \ {0}
    PROVE  /\ y \div n \in Int
           /\ n * (y \div n) =< y /\ y < n * (y \div n) + n
           /\ y % n = 0 <=> y = n * (y \div n)
  OBVIOUS

LEMMA Cancel1 ==
    ASSUME NEW n \in Nat \ {0}, NEW u \in Int, NEW v \in Int, n * u < n * v
    PROVE  u < v
<1>1. SUFFICES ASSUME v =< u PROVE FALSE OBVIOUS
<1>2. u - v \in Nat BY <1>1
<1>3. n * (u - v) \in Nat BY <1>2
<1>4. n * (u - v) = n * u - n * v OBVIOUS
<1>5. QED BY <1>3, <1>4

\* The loop makes as many turns as leave one to two minima.
LEMMA TurnsFit ==
    ASSUME NEW g \in Int, NEW m \in Int
    PROVE  /\ g - m > m /\ m > 0 => /\ Turns(g, m) \in Nat \ {0}
                                    /\ (Turns(g, m) + 1) * m < g
                                    /\ g =< (Turns(g, m) + 2) * m
           /\ ~ (g - m > m) => Turns(g, m) = 0
<1>1. ASSUME g - m > m, m > 0
      PROVE  /\ Turns(g, m) \in Nat \ {0}
             /\ (Turns(g, m) + 1) * m < g
             /\ g =< (Turns(g, m) + 2) * m
  <2> DEFINE Good(n) == /\ g - n * m - m =< m
                        /\ \A k \in 0 .. n - 1 : g - k * m - m > m
             q == (g - 1) \div m
  <2>1. m \in Nat \ {0} /\ g - 1 \in Int BY <1>1
  <2>2. q \in Int /\ m * q =< g - 1 /\ g - 1 < m * q + m BY <2>1, Quotient
  <2> HIDE DEF q
  <2>3. q >= 2
    <3>1. m * 2 < m * (q + 1) BY <1>1, <2>1, <2>2
    <3>2. 2 < q + 1 BY <2>1, <2>2, <3>1, Cancel1
    <3>3. QED BY <2>2, <3>2
  <2>4. q - 1 \in 1 .. g
    <3>1. m * q >= q
      <4>1. (m - 1) \in Nat /\ q \in Nat BY <2>1, <2>2, <2>3
      <4>2. (m - 1) * q \in Nat BY <4>1
      <4>3. (m - 1) * q = m * q - q BY <2>1, <2>2
      <4>4. QED BY <2>1, <2>2, <4>2, <4>3
    <3>2. QED BY <2>1, <2>2, <2>3, <3>1
  <2>5. Good(q - 1)
    <3>1. (q - 1) * m = m * q - m BY <2>1, <2>2
    <3>2. g - (q - 1) * m - m =< m BY <2>1, <2>2, <3>1
    <3>3. ASSUME NEW k \in 0 .. (q - 1) - 1 PROVE g - k * m - m > m
      <4>1. q - 2 - k \in Nat BY <2>2, <2>3
      <4>2. (q - 2 - k) * m \in Nat BY <2>1, <4>1
      <4>3. (q - 2 - k) * m = m * q - 2 * m - k * m BY <2>1, <2>2
      <4>4. k * m \in Int /\ m * q \in Int BY <2>1, <2>2
      <4>5. QED BY <2>1, <2>2, <4>2, <4>3, <4>4
    <3>4. QED BY <3>2, <3>3
  <2>6. Turns(g, m) = CHOOSE n \in 1 .. g : Good(n) BY <1>1 DEF Turns
  <2> HIDE DEF Good
  <2>7. Turns(g, m) \in 1 .. g /\ Good(Turns(g, m)) BY <2>4, <2>5, <2>6
  <2> DEFINE n == Turns(g, m)
  <2>8. n \in 1 .. g /\ n \in Nat \ {0} BY <2>7
  <2>9. g - n * m - m =< m /\ \A k \in 0 .. n - 1 : g - k * m - m > m BY <2>7 DEF Good
  <2> HIDE DEF n
  <2>10. n - 1 \in 0 .. n - 1 BY <2>8
  <2>11. g - (n - 1) * m - m > m BY <2>9, <2>10
  <2>12. (n - 1) * m = n * m - m /\ (n + 1) * m = n * m + m /\ (n + 2) * m = n * m + 2 * m
         /\ n * m \in Int
    BY <2>8
  <2>13. (n + 1) * m < g /\ g =< (n + 2) * m BY <2>9, <2>11, <2>12
  <2>14. QED BY <2>8, <2>13 DEF n
<1>2. ASSUME ~ (g - m > m) PROVE Turns(g, m) = 0 BY <1>2 DEF Turns
<1>3. QED BY <1>1, <1>2

LEMMA TurnsTyped ==
    ASSUME NEW x \in Cells, ~ Endless(x) PROVE Turns(x.grid, x.min) \in Int
<1>1. x.grid \in Int /\ x.min \in Int BY DEF Cells
<1>2. CASE x.grid - x.min > x.min
  <2>1. x.min > 0 BY <1>1, <1>2 DEF Endless
  <2>2. QED BY <1>1, <1>2, <2>1, TurnsFit
<1>3. CASE ~ (x.grid - x.min > x.min) BY <1>1, <1>3, TurnsFit
<1>4. QED BY <1>2, <1>3

LEMMA GridStarts == GridInit => GridInv
<1> SUFFICES ASSUME GridInit PROVE GridInv
  OBVIOUS
<1>1. Member(20, 60) \in Cells /\ Member(80, 640) \in Cells BY DEF Member, Cells
<1>2. QED BY <1>1 DEF GridInit, GridInv

\* A setter changes one member to an int.
LEMMA SetTyped ==
    ASSUME GridInv, NEW a \in Axes, NEW v \in Int,
           Set(a, "lead", v) \/ Set(a, "trail", v) \/ Set(a, "num", v) \/ Set(a, "min", v)
    PROVE  GridInv'
<1>1. setters' = setters + 1 /\ setters' \in Nat /\ setters' # 0 BY DEF Set, GridInv
<1>2. axis[a] \in Cells BY DEF GridInv
<1>3. PICK member \in {"lead", "trail", "num", "min"} : axis' = [axis EXCEPT ![a][member] = v]
  BY DEF Set
<1>4. axis' = [axis EXCEPT ![a] = [axis[a] EXCEPT ![member] = v]] BY <1>3 DEF GridInv
<1>5. [axis[a] EXCEPT ![member] = v] \in Cells BY <1>2 DEF Cells
<1>6. axis' \in [Axes -> Cells] BY <1>4, <1>5 DEF GridInv
<1>7. QED BY <1>1, <1>6 DEF GridInv

LEMMA ResizeStep ==
    ASSUME GridInv, NEW height \in Int, NEW width \in Int, Resize(height, width)
    PROVE  GridInv'
<1> DEFINE s(a) == IF a = "h" THEN height ELSE width
           to == [a \in Axes |-> LET z == IF a = "h" THEN height ELSE width
                                 IN  [axis[a] EXCEPT !.size = z,
                                                     !.grid = z - axis[a].lead - axis[a].trail]]
<1>1. /\ hung' = \E a \in Axes : Endless(to[a])
      /\ axis' = IF hung' THEN to ELSE [a \in Axes |-> Cal(to[a])]
      /\ setters' = 0
  BY DEF Resize
<1>2. ASSUME NEW a \in Axes
      PROVE  to[a] \in Cells /\ to[a].grid = to[a].size - to[a].lead - to[a].trail
  <2>1. axis[a] \in Cells /\ axis[a].lead \in Int /\ axis[a].trail \in Int BY DEF GridInv, Cells
  <2>2. s(a) \in Int /\ s(a) - axis[a].lead - axis[a].trail \in Int BY <2>1
  <2> DEFINE g == s(a) - axis[a].lead - axis[a].trail
             z == s(a)
  <2>3. to[a] = [axis[a] EXCEPT !.size = z, !.grid = g] OBVIOUS
  <2>4. g = z - axis[a].lead - axis[a].trail /\ g \in Int /\ z \in Int BY <2>2
  <2> HIDE DEF to, g, z
  <2>5. QED BY <2>1, <2>3, <2>4 DEF Cells
<1>3. to = [a \in Axes |-> to[a]] OBVIOUS
<1> HIDE DEF to
<1>4. CASE hung'
  <2>1. axis' \in [Axes -> Cells] BY <1>1, <1>2, <1>3, <1>4
  <2>2. QED BY <1>1, <1>4, <2>1 DEF GridInv
<1>5. CASE ~ hung'
  <2>1. axis' = [a \in Axes |-> Cal(to[a])] BY <1>1, <1>5
  <2>2. \A a \in Axes : ~ Endless(to[a]) BY <1>1, <1>5
  <2>3. ASSUME NEW a \in Axes PROVE Cal(to[a]) \in Cells /\ Settled(Cal(to[a]))
    <3> DEFINE x == to[a]
               n == Turns(x.grid, x.min)
               y == [x EXCEPT !.num = n, !.atom = [n |-> x.grid, d |-> n]]
    <3>1. x \in Cells /\ x.grid = x.size - x.lead - x.trail /\ ~ Endless(x) BY <1>2, <2>2
    <3> HIDE DEF x
    <3>2. n \in Int BY <3>1, TurnsTyped
    <3>3. Cal(x) = y BY DEF Cal
    <3> HIDE DEF n
    <3>4. [n |-> x.grid, d |-> n] \in [n : Int, d : Int] BY <3>1, <3>2 DEF Cells
    <3>5. /\ y \in Cells
          /\ y.num = n /\ y.atom = [n |-> x.grid, d |-> n] /\ y.grid = x.grid /\ y.min = x.min
          /\ y.size = x.size /\ y.lead = x.lead /\ y.trail = x.trail
      BY <3>1, <3>2, <3>4 DEF Cells
    <3> HIDE DEF y
    <3>6. Settled(y)
      <4>1. ~ Endless(y) BY <3>1, <3>5 DEF Endless
      <4>2. y.num = Turns(y.grid, y.min) BY <3>5 DEF n
      <4>3. QED BY <3>1, <3>5, <4>1, <4>2 DEF Settled
    <3>7. QED BY <3>3, <3>5, <3>6 DEF x
  <2>4. axis' \in [Axes -> Cells] /\ \A a \in Axes : Settled(axis'[a]) BY <2>1, <2>3
  <2>5. QED BY <1>1, <2>4 DEF GridInv, Settled
<1>6. QED BY <1>4, <1>5

LEMMA GridMoves == GridInv /\ [GridNext]_gridVars => GridInv'
<1> SUFFICES ASSUME GridInv, [GridNext]_gridVars PROVE GridInv'
  OBVIOUS
<1>0. GridSizes \subseteq Int /\ GridMargins \subseteq Int /\ GridMins \subseteq Int
      /\ GridNums \subseteq Int
  BY GridValuesAssumption
<1>1. CASE \E h, w \in GridSizes : Resize(h, w) BY <1>0, <1>1, ResizeStep
<1>2. CASE SetMargin BY <1>0, <1>2, SetTyped DEF SetMargin
<1>3. CASE SetGridNum BY <1>0, <1>3, SetTyped DEF SetGridNum
<1>4. CASE SetAtomGridMin BY <1>0, <1>4, SetTyped DEF SetAtomGridMin
<1>5. CASE UNCHANGED gridVars BY <1>5 DEF gridVars, GridInv, Settled
<1>6. QED BY <1>1, <1>2, <1>3, <1>4, <1>5 DEF GridNext

\* Between two neighbours lie the minimum and three of them, less or more a pixel.
LEMMA Spacing ==
    ASSUME NEW g \in Int, NEW m \in Nat \ {0}, NEW n \in Nat \ {0}, NEW i \in 1 .. n,
           (n + 1) * m < g, g =< (n + 2) * m
    PROVE  LET d == (i * g) \div n - ((i - 1) * g) \div n
           IN  d \in Int /\ d > m - 1 /\ d =< 3 * m
<1> DEFINE A == (i * g) \div n
           B == ((i - 1) * g) \div n
<1>1. i * g \in Int /\ (i - 1) * g \in Int /\ (i - 1) * g = i * g - g OBVIOUS
<1>2. A \in Int /\ n * A =< i * g /\ i * g < n * A + n BY <1>1, Quotient
<1>3. B \in Int /\ n * B =< i * g - g /\ i * g - g < n * B + n BY <1>1, Quotient
<1> HIDE DEF A, B
<1>4. n * (A - B) = n * A - n * B /\ n * A \in Int /\ n * B \in Int /\ A - B \in Int
  BY <1>2, <1>3
<1>5. /\ n * (m - 1) = n * m - n /\ (n + 1) * m = n * m + m /\ (n + 2) * m = n * m + 2 * m
      /\ n * (3 * m + 1) = 3 * (n * m) + n /\ n * m \in Int
  OBVIOUS
<1>6. m =< n * m
  <2>1. (n - 1) * m \in Nat OBVIOUS
  <2>2. (n - 1) * m = n * m - m OBVIOUS
  <2>3. QED BY <2>1, <2>2, <1>5
<1>7. n * (m - 1) < n * (A - B) BY <1>1, <1>2, <1>3, <1>4, <1>5
<1>8. n * (A - B) < n * (3 * m + 1) BY <1>1, <1>2, <1>3, <1>4, <1>5, <1>6
<1>9. m - 1 < A - B BY <1>4, <1>7, Cancel1
<1>10. A - B < 3 * m + 1 BY <1>4, <1>8, Cancel1
<1>11. QED BY <1>4, <1>9, <1>10 DEF A, B

\* Counted from the other end, the quotients make up the whole, or one less.
LEMMA FromBelow ==
    ASSUME NEW g \in Int, NEW n \in Nat \ {0}, NEW i \in 0 .. n
    PROVE  LET W == (i * g) \div n
               V == ((n - i) * g) \div n
           IN  /\ W \in Int /\ V \in Int
               /\ (i * g) % n = 0 => V = g - W
               /\ (i * g) % n # 0 => V = g - W - 1
<1> DEFINE W == (i * g) \div n
           V == ((n - i) * g) \div n
           y == i * g
<1>1. y \in Int /\ (n - i) * g \in Int /\ (n - i) * g = n * g - y /\ n * g \in Int OBVIOUS
<1>2. W \in Int /\ n * W =< y /\ y < n * W + n /\ (y % n = 0 <=> y = n * W) BY <1>1, Quotient
<1>3. V \in Int /\ n * V =< n * g - y /\ n * g - y < n * V + n BY <1>1, Quotient
<1> HIDE DEF W, V, y
<1>4. n * W \in Int /\ n * V \in Int BY <1>2, <1>3
<1>5. /\ n * (g - W) = n * g - n * W /\ n * (V + 1) = n * V + n
      /\ n * (g - W - 1) = n * g - n * W - n /\ n * (g - W + 1) = n * g - n * W + n
  BY <1>2, <1>3
<1>6. ASSUME y % n = 0 PROVE V = g - W
  <2>1. n * (g - W) < n * (V + 1) /\ n * V < n * (g - W + 1) BY <1>1, <1>2, <1>3, <1>4, <1>5, <1>6
  <2>2. g - W < V + 1 /\ V < g - W + 1 BY <1>2, <1>3, <2>1, Cancel1
  <2>3. QED BY <1>2, <1>3, <2>2
<1>7. ASSUME y % n # 0 PROVE V = g - W - 1
  <2>1. n * (g - W - 1) < n * (V + 1) /\ n * V < n * (g - W) BY <1>1, <1>2, <1>3, <1>4, <1>5, <1>7
  <2>2. g - W - 1 < V + 1 /\ V < g - W BY <1>2, <1>3, <2>1, Cancel1
  <2>3. QED BY <1>2, <1>3, <2>2
<1>8. QED BY <1>2, <1>3, <1>6, <1>7 DEF W, V, y

LEMMA GridFits == GridInv => LinesFit
<1> SUFFICES ASSUME GridInv, NEW a \in Axes, setters = 0, ~ hung, axis[a].grid > 2 * axis[a].min
             PROVE  LET x == axis[a]
                    IN  /\ x.num > 0 /\ Drawable(x)
                        /\ LineAt(x, 0) = {x.lead}
                        /\ LineAt(x, x.num) \subseteq {FrameEnd(x) - 1, FrameEnd(x)}
                        /\ \A i \in 1 .. x.num :
                              \A p \in LineAt(x, i - 1), q \in LineAt(x, i) :
                                  q - p > x.min - 2 /\ q - p =< 3 * x.min + 1
                        /\ \A i \in 0 .. x.num :
                              \A p \in LabelAt(x, i), q \in LineAt(x, x.num - i) : p - q \in -1 .. 1
  BY DEF LinesFit
<1> DEFINE x == axis[a]
           g == x.grid
           m == x.min
           n == x.num
<1>1. x \in Cells /\ Settled(x) /\ g > 2 * m BY DEF GridInv
<1> HIDE DEF x
<1>2. /\ g \in Int /\ m \in Int /\ x.lead \in Int /\ x.trail \in Int /\ x.size \in Int
      /\ g = x.size - x.lead - x.trail
      /\ x.atom.n = g /\ x.atom.d = n /\ n = Turns(g, m)
  BY <1>1 DEF Cells, Settled
<1>3. g - m > m /\ m > 0 BY <1>1, <1>2 DEF Settled, Endless
<1>4. n \in Nat \ {0} /\ (n + 1) * m < g /\ g =< (n + 2) * m BY <1>2, <1>3, TurnsFit
<1> HIDE DEF g, m, n
<1>5. FrameEnd(x) = x.lead + g BY <1>2 DEF FrameEnd
<1>6. \A i \in 0 .. n : Whole(x, i) = (i * g) \div n BY <1>2 DEF Whole
<1>7. \A i \in 0 .. n : Whole(x, i) \in Int
  <2>1. SUFFICES ASSUME NEW i \in 0 .. n PROVE (i * g) \div n \in Int BY <1>6
  <2>2. i * g \in Int BY <1>2, <1>4
  <2>3. QED BY <1>4, <2>2, Quotient
<1>8. \A i \in 0 .. n : LineAt(x, i) \subseteq {(x.lead + Whole(x, i)) - 1, x.lead + Whole(x, i)}
  <2>1. SUFFICES ASSUME NEW i \in 0 .. n
                 PROVE  LineAt(x, i) \subseteq {(x.lead + Whole(x, i)) - 1, x.lead + Whole(x, i)}
    OBVIOUS
  <2> DEFINE p == x.lead + Whole(x, i)
  <2>2. LineAt(x, i) = IF Blurred(x, i) THEN {p - 1, p} ELSE {p} BY DEF LineAt
  <2> HIDE DEF p
  <2>3. LineAt(x, i) \subseteq {p - 1, p} BY <2>2
  <2>4. QED BY <2>3 DEF p
<1>9. LineAt(x, 0) = {x.lead}
  <2>1. 0 * g = 0 /\ 0 \in 0 .. n BY <1>2, <1>4
  <2>2. Whole(x, 0) = 0
    <3>1. n * (0 \div n) =< 0 /\ 0 < n * (0 \div n) + n /\ 0 \div n \in Int BY <1>4, Quotient
    <3>2. n * (0 \div n) < n * 1 /\ n * (0 - 1) < n * (0 \div n) BY <1>4, <3>1
    <3>3. 0 \div n < 1 /\ 0 - 1 < 0 \div n BY <1>4, <3>1, <3>2, Cancel1
    <3>4. QED BY <1>6, <2>1, <3>1, <3>3
  <2>3. ~ Blurred(x, 0) BY DEF Blurred
  <2>4. QED BY <1>2, <2>2, <2>3 DEF LineAt
<1>10. LineAt(x, n) \subseteq {FrameEnd(x) - 1, FrameEnd(x)}
  <2>1. n \in 0 .. n BY <1>4
  <2>2. Whole(x, n) = g
    <3>1. n * g \in Int BY <1>2, <1>4
    <3> DEFINE w == (n * g) \div n
    <3>2. w \in Int /\ n * w =< n * g /\ n * g < n * w + n BY <1>4, <3>1, Quotient
    <3> HIDE DEF w
    <3>3. n * w < n * (g + 1) /\ n * g < n * (w + 1) BY <1>2, <1>4, <3>1, <3>2
    <3>4. w < g + 1 /\ g < w + 1 BY <1>2, <1>4, <3>2, <3>3, Cancel1
    <3>5. QED BY <1>2, <1>6, <2>1, <3>2, <3>4 DEF w
  <2>3. LineAt(x, n) \subseteq {(x.lead + Whole(x, n)) - 1, x.lead + Whole(x, n)} BY <1>8, <2>1
  <2>4. x.lead + Whole(x, n) = FrameEnd(x) BY <1>5, <2>2
  <2>5. QED BY <2>3, <2>4
<1>11. ASSUME NEW i \in 1 .. n, NEW p \in LineAt(x, i - 1), NEW q \in LineAt(x, i)
       PROVE  q - p > m - 2 /\ q - p =< 3 * m + 1
  <2>1. i \in 0 .. n /\ i - 1 \in 0 .. n BY <1>4
  <2> DEFINE A == Whole(x, i)
             B == Whole(x, i - 1)
  <2>2. A \in Int /\ B \in Int BY <1>7, <2>1
  <2>3. A = (i * g) \div n /\ B = ((i - 1) * g) \div n BY <1>6, <2>1
  <2>4. q \in {(x.lead + A) - 1, x.lead + A} /\ p \in {(x.lead + B) - 1, x.lead + B}
    BY <1>8, <1>11, <2>1
  <2>5. A - B > m - 1 /\ A - B =< 3 * m
    <3>1. m \in Nat \ {0} BY <1>2, <1>3
    <3>2. QED BY <1>2, <1>4, <2>3, <3>1, Spacing
  <2> HIDE DEF A, B
  <2>6. QED BY <1>2, <2>2, <2>4, <2>5
<1>12. ASSUME NEW i \in 0 .. n, NEW p \in LabelAt(x, i), NEW q \in LineAt(x, n - i)
       PROVE  p - q \in -1 .. 1
  <2>1. n - i \in 0 .. n BY <1>4
  <2> DEFINE W == Whole(x, i)
             V == Whole(x, n - i)
  <2>2. W = (i * g) \div n /\ V = ((n - i) * g) \div n BY <1>6, <2>1
  <2> DEFINE r == (i * g) % n
  <2>3. W \in Int /\ V \in Int /\ (r = 0 => V = g - W) /\ (r # 0 => V = g - W - 1)
    <3> DEFINE W0 == (i * g) \div n
               V0 == ((n - i) * g) \div n
    <3>1. W0 \in Int /\ V0 \in Int /\ (r = 0 => V0 = g - W0) /\ (r # 0 => V0 = g - W0 - 1)
      BY <1>2, <1>4, FromBelow
    <3>2. W = W0 /\ V = V0 BY <2>2
    <3> HIDE DEF W0, V0, W, V, r
    <3>3. QED BY <3>1, <3>2
  <2>4. q \in {(x.lead + V) - 1, x.lead + V} BY <1>8, <1>12, <2>1
  <2>5. /\ r = 0 => p \in {FrameEnd(x) - W - 1, FrameEnd(x) - W}
        /\ r # 0 => p = FrameEnd(x) - W - 1
    <3> DEFINE e == FrameEnd(x) - W
    <3>1. (i * x.atom.n) % x.atom.d = r BY <1>2
    <3>2. LabelAt(x, i) = IF Blurred(x, i) THEN {e - 1, e}
                          ELSE IF (i * x.atom.n) % x.atom.d = 0 THEN {e} ELSE {e - 1}
      BY DEF LabelAt
    <3>3. Blurred(x, i) => (i * x.atom.n) % x.atom.d = 0 BY DEF Blurred
    <3> HIDE DEF e, r
    <3>4. /\ r = 0 => p \in {e - 1, e}
          /\ r # 0 => p = e - 1
      BY <1>12, <3>1, <3>2, <3>3
    <3>5. QED BY <3>4 DEF e
  <2> HIDE DEF W, V, r
  <2>6. CASE r = 0
    <3>1. V = g - W BY <2>3, <2>6
    <3>2. p \in {(x.lead + g) - W - 1, (x.lead + g) - W} BY <1>5, <2>5, <2>6
    <3>3. QED BY <1>2, <2>3, <2>4, <3>1, <3>2
  <2>7. CASE r # 0
    <3>1. V = g - W - 1 BY <2>3, <2>7
    <3>2. p = (x.lead + g) - W - 1 BY <1>5, <2>5, <2>7
    <3>3. QED BY <1>2, <2>3, <2>4, <3>1, <3>2
  <2>8. QED BY <2>6, <2>7
<1>13. n > 0 /\ Drawable(x) BY <1>2, <1>4 DEF Drawable
<1>14. QED BY <1>9, <1>10, <1>11, <1>12, <1>13 DEF x, m, n

-----------------------------------------------------------------------------
(* Theorems                                                                 *)

GuiInv == QueueInv /\ GridInv /\ SliderInv /\ CaptureInv

LEMMA GuiSafe == GuiSpec => []GuiInv
<1>1. GuiInit => GuiInv
  BY QueueStarts, GridStarts, SliderStarts, CaptureStarts DEF GuiInit, GuiInv
<1>2. [GuiNext]_guiVars => /\ [Next]_vars /\ [GridNext]_gridVars
                           /\ [SliderNext]_sliderVars /\ [CaptureNext]_captureVars
  BY DEF GuiNext, guiVars
<1>3. GuiInv /\ [GuiNext]_guiVars => GuiInv'
  BY <1>2, QueueStep, GridMoves, SliderMoves, CaptureMoves DEF GuiInv
<1>4. QED BY <1>1, <1>3, PTL DEF GuiSpec

\* enqueue() exceeds maxQueueSize by the depth of its nesting at most, for any of
\* either.
THEOREM QueueIsBounded == GuiSpec => []QueueBounded
<1>1. GuiInv => QueueBounded BY DEF GuiInv, QueueInv
<1>2. QED BY <1>1, GuiSafe, PTL

\* However enqueue, its overflow slots, clear and the timer interleave, no task is
\* lost silently, runs twice or overtakes one that no slot submitted.
THEOREM TasksOnceInOrder == GuiSpec => []EachOnceInOrder
<1>1. GuiInv => EachOnceInOrder
  BY QueueCounts, QueueOrder DEF GuiInv, EachOnceInOrder
<1>2. QED BY <1>1, GuiSafe, PTL

\* The arithmetic of calAtomGridHeight and calAtomGridWidth, for all sizes,
\* margins and minima: after a resizeEvent the lines fit the frame and the labels
\* the lines.
THEOREM GridLinesFit == GuiSpec => []LinesFit
<1>1. GuiInv => LinesFit BY GridFits DEF GuiInv
<1>2. QED BY <1>1, GuiSafe, PTL

\* For every range and every singleStep, the offsets that Slider reports are off by
\* whole steps of valueInc and valueDec, and by nothing without them.
THEOREM SliderOffsets == GuiSpec => []OffsetsAddUp
<1>1. GuiInv => OffsetsAddUp BY SliderAdds DEF GuiInv
<1>2. QED BY <1>1, GuiSafe, PTL

\* At all coordinates, negative ones too, and all device ratios in hundredths, also
\* those that are no doubles, the release copies the selection to within one
\* device pixel, once per start(), and without a second start() the widget is not
\* on it.
THEOREM CapturesSelection == GuiSpec => []CaptureIsTheSelection
<1>1. GuiInv => CaptureIsTheSelection BY DEF GuiInv, CaptureInv
<1>2. QED BY <1>1, GuiSafe, PTL
=============================================================================
