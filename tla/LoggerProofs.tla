---------------------------- MODULE LoggerProofs ----------------------------
(***************************************************************************)
(* Safety of Logger, for any number of threads, loggers, sinks and          *)
(* messages, and any size of the pool's queue.                              *)
(***************************************************************************)
EXTENDS Logger, FiniteSetTheorems, TLAPS

Entries == [lg : Loggers, id : Int]
Sendings == [lg : Loggers, level : Levels, async : BOOLEAN]

MsgType ==
    /\ queue \in Seq(Entries)
    /\ job \in [Writers -> SUBSET Entries]
    /\ sent \in Seq(Sendings)
    /\ overrun \in SUBSET Entries
    /\ orphans \in SUBSET Entries
    /\ out \in Seq(Nat \ {0})

-----------------------------------------------------------------------------
(* The queue                                                                *)

\* What posting entry e does, position by position.
Refused(e) == orphans' = orphans \cup {e} /\ UNCHANGED <<queue, overrun>>

Enqueued(e) ==
    /\ queue' \in Seq(Entries)
    /\ Len(queue') = Len(queue) + 1
    /\ \A i \in 1 .. Len(queue) : queue'[i] = queue[i]
    /\ queue'[Len(queue) + 1] = e
    /\ UNCHANGED <<overrun, orphans>>

PushedOut(e) ==
    /\ Len(queue) > 0
    /\ queue' \in Seq(Entries)
    /\ Len(queue') = Len(queue)
    /\ \A i \in 1 .. Len(queue) - 1 : queue'[i] = queue[i + 1]
    /\ queue'[Len(queue)] = e
    /\ overrun' = overrun \cup {queue[1]}
    /\ UNCHANGED orphans

LEMMA Positions ==
    \A n \in Nat : \A i \in 1 .. n : i = n \/ (i \in 1 .. n - 1 /\ i + 1 \in 1 .. n)
  OBVIOUS

LEMMA PostFacts ==
    ASSUME queue \in Seq(Entries), NEW e \in Entries, Post(e)
    PROVE  Refused(e) \/ Enqueued(e) \/ PushedOut(e)
<1>1. CASE e.lg \notin pooled
  BY <1>1 DEF Post, Refused
<1>2. CASE e.lg \in pooled /\ Len(queue) < QueueSize
  BY <1>2 DEF Post, Enqueued
<1>3. CASE e.lg \in pooled /\ ~ Len(queue) < QueueSize
  <2>1. Len(queue) \in Nat /\ Len(queue) > 0 /\ queue # <<>>
    BY <1>3, QueueSizePositive
  <2>2. queue' = Append(Tail(queue), e) /\ overrun' = overrun \cup {Head(queue)}
        /\ orphans' = orphans
    BY <1>3 DEF Post
  <2>3. Tail(queue) \in Seq(Entries) /\ Len(Tail(queue)) = Len(queue) - 1
    BY <2>1
  <2>4. \A i \in 1 .. Len(queue) - 1 : Tail(queue)[i] = queue[i + 1]
    BY <2>1
  <2>5. /\ queue' \in Seq(Entries) /\ Len(queue') = Len(queue)
        /\ \A i \in 1 .. Len(queue) - 1 : queue'[i] = Tail(queue)[i]
        /\ queue'[Len(queue)] = e
    BY <2>1, <2>2, <2>3
  <2> QED BY <2>1, <2>2, <2>4, <2>5 DEF PushedOut
<1> QED BY <1>1, <1>2, <1>3

\* What the worker leaves in the queue.
LEMMA TakeFacts ==
    ASSUME queue \in Seq(Entries), queue # <<>>, queue' = Tail(queue)
    PROVE  /\ Len(queue) \in Nat /\ Len(queue) > 0
           /\ Head(queue) = queue[1] /\ queue[1] \in Entries
           /\ queue' \in Seq(Entries)
           /\ Len(queue') = Len(queue) - 1
           /\ \A i \in 1 .. Len(queue) - 1 : queue'[i] = queue[i + 1]
  OBVIOUS

-----------------------------------------------------------------------------
(* Each message in one place                                                *)

InOut(id)     == \E i \in DOMAIN out : out[i] = id
InOverrun(id) == \E e \in overrun : e.id = id
InOrphans(id) == \E e \in orphans : e.id = id
InQueue(id)   == \E i \in DOMAIN queue : queue[i].id = id
InJob(id)     == \E w \in Writers : \E e \in job[w] : e.id = id

\* An entry is a flush, or a message of its logger.
Known(e, msgs) == e.id > 0 => e.id =< Len(msgs) /\ msgs[e.id].lg = e.lg

AllKnown ==
    /\ \A i \in DOMAIN queue : Known(queue[i], sent)
    /\ \A e \in overrun \cup orphans : Known(e, sent)
    /\ \A w \in Writers : \A e \in job[w] : Known(e, sent) /\ e.id > 0
    /\ \A i \in DOMAIN out : out[i] =< Len(sent)

\* The worker has the messages of asynchronous loggers, the threads the others.
Divided ==
    /\ \A i \in DOMAIN queue : queue[i].id > 0 => sent[queue[i].id].async
    /\ \A e \in job[Worker] : sent[e.id].async
    /\ \A t \in Threads : \A e \in job[t] : ~ sent[e.id].async

\* Nobody writes two messages, and no message has two writers.
OneWriter ==
    /\ \A w \in Writers : \A e, f \in job[w] : e = f
    /\ \A v, w \in Writers : \A e \in job[v], f \in job[w] : e.id = f.id => v = w

\* Asynchronous messages in the order of their calls: those that were written,
\* the one that the worker writes, those in the queue; and those overrun before
\* those in the queue.
InOrder ==
    /\ \A i, j \in DOMAIN queue :
          i < j /\ queue[i].id > 0 /\ queue[j].id > 0 => queue[i].id < queue[j].id
    /\ \A i \in DOMAIN queue : queue[i].id > 0 =>
          /\ \A e \in overrun : e.id < queue[i].id
          /\ \A e \in job[Worker] : e.id < queue[i].id
          /\ \A k \in DOMAIN out : sent[out[k]].async => out[k] < queue[i].id
    /\ \A k \in DOMAIN out, e \in job[Worker] : sent[out[k]].async => out[k] < e.id

OutOnce == \A i, j \in DOMAIN out : out[i] = out[j] => i = j

OutInOrder ==
    \A i, j \in DOMAIN out : i < j /\ sent[out[i]].async /\ sent[out[j]].async => out[i] < out[j]

\* No message is in two places, and one that is nowhere is of a torn logger.
Apart ==
    \A id \in 1 .. Len(sent) :
        /\ InOut(id) => ~ InOverrun(id) /\ ~ InOrphans(id) /\ ~ InQueue(id) /\ ~ InJob(id)
        /\ InOverrun(id) => ~ InOrphans(id) /\ ~ InQueue(id) /\ ~ InJob(id)
        /\ InOrphans(id) => ~ InQueue(id) /\ ~ InJob(id)
        /\ InQueue(id) => ~ InJob(id)

NoneLost ==
    \A id \in 1 .. Len(sent) :
        sent[id].lg \notin torn =>
            InOut(id) \/ InOverrun(id) \/ InOrphans(id) \/ InQueue(id) \/ InJob(id)

MsgInv == /\ MsgType /\ AllKnown /\ Divided /\ OneWriter /\ InOrder /\ OutOnce /\ OutInOrder
          /\ Apart /\ NoneLost

LEMMA MsgInit == LogInit => MsgInv
<1> SUFFICES ASSUME LogInit PROVE MsgInv
  OBVIOUS
<1>1. MsgType BY DEF LogInit, MsgType
<1>2. Len(sent) = 0 /\ DOMAIN queue = {} /\ DOMAIN out = {} /\ overrun = {} /\ orphans = {}
      /\ \A w \in Writers : job[w] = {}
  BY DEF LogInit
<1>3. AllKnown BY <1>2 DEF AllKnown
<1>4. Divided BY <1>2 DEF Divided, Writers
<1>5. OneWriter BY <1>2 DEF OneWriter
<1>6. InOrder BY <1>2 DEF InOrder
<1>7. OutOnce /\ OutInOrder BY <1>2 DEF OutOnce, OutInOrder
<1>8. Apart /\ NoneLost BY <1>2 DEF Apart, NoneLost
<1> QED BY <1>1, <1>3, <1>4, <1>5, <1>6, <1>7, <1>8 DEF MsgInv
\* An entry to post: a flush, or the message of this call.
Fresh(e) ==
    \/ e.id =< 0 /\ sent' = sent
    \/ /\ e.id = Len(sent) + 1
       /\ sent' \in Seq(Sendings)
       /\ Len(sent') = Len(sent) + 1
       /\ \A id \in 1 .. Len(sent) : sent'[id] = sent[id]
       /\ sent'[e.id].lg = e.lg /\ sent'[e.id].async

LEMMA MsgTypes ==
    ASSUME MsgInv
    PROVE  /\ Len(sent) \in Nat /\ Len(queue) \in Nat /\ DOMAIN queue = 1 .. Len(queue)
           /\ \A i \in 1 .. Len(queue) : queue[i] \in Entries /\ queue[i].id \in Int
           /\ DOMAIN out = 1 .. Len(out) /\ Len(out) \in Nat
           /\ \A i \in DOMAIN out : out[i] \in 1 .. Len(sent)
           /\ \A x \in overrun \cup orphans : x \in Entries /\ x.id \in Int
           /\ \A w \in Writers : \A x \in job[w] : x \in Entries /\ x.id \in 1 .. Len(sent)
<1>1. /\ queue \in Seq(Entries) /\ sent \in Seq(Sendings) /\ out \in Seq(Nat \ {0})
      /\ overrun \in SUBSET Entries /\ orphans \in SUBSET Entries
      /\ job \in [Writers -> SUBSET Entries]
  BY DEF MsgInv, MsgType
<1>2. \A x \in Entries : x.id \in Int
  BY DEF Entries
<1>3. Len(sent) \in Nat /\ Len(queue) \in Nat /\ DOMAIN queue = 1 .. Len(queue)
  BY <1>1
<1>4. \A i \in 1 .. Len(queue) : queue[i] \in Entries
  BY <1>1
<1>5. DOMAIN out = 1 .. Len(out) /\ Len(out) \in Nat /\ \A i \in DOMAIN out : out[i] \in Nat \ {0}
  BY <1>1
<1>6. \A i \in DOMAIN out : out[i] =< Len(sent)
  BY DEF MsgInv, AllKnown
<1>7. \A w \in Writers : \A x \in job[w] : x \in Entries /\ x.id > 0 /\ x.id =< Len(sent)
  BY <1>1, <1>2 DEF MsgInv, AllKnown, Known
<1> QED BY <1>1, <1>2, <1>3, <1>4, <1>5, <1>6, <1>7

LEMMA PostMsg ==
    ASSUME MsgInv, NEW e \in Entries, Refused(e) \/ Enqueued(e) \/ PushedOut(e), Fresh(e),
           UNCHANGED <<job, out, torn>>
    PROVE  MsgInv'
<1> DEFINE n == Len(sent)
           m == Len(queue)
<1>1. /\ n \in Nat /\ m \in Nat /\ DOMAIN queue = 1 .. m /\ e.id \in Int
      /\ \A i \in 1 .. m : queue[i] \in Entries /\ queue[i].id \in Int
      /\ DOMAIN out = 1 .. Len(out) /\ Len(out) \in Nat
      /\ \A i \in DOMAIN out : out[i] \in 1 .. n
      /\ \A x \in overrun \cup orphans : x \in Entries /\ x.id \in Int
      /\ \A w \in Writers : \A x \in job[w] : x \in Entries /\ x.id \in 1 .. n
  BY MsgTypes DEF Entries
<1>2. MsgType'
  BY <1>1 DEF MsgInv, MsgType, Refused, Enqueued, PushedOut, Fresh
<1>3. /\ Len(sent') \in Nat /\ n =< Len(sent')
      /\ \A id \in 1 .. n : sent'[id] = sent[id]
      /\ e.id =< 0 \/ (e.id = n + 1 /\ Len(sent') = n + 1)
      /\ e.id =< 0 => Len(sent') = n
      /\ e.id > 0 => sent'[e.id].lg = e.lg /\ sent'[e.id].async
  BY <1>1 DEF Fresh
<1>4. DOMAIN queue' = 1 .. Len(queue') /\ Len(queue') \in Nat
  BY <1>2 DEF MsgType
<1>5. \A i \in DOMAIN queue' :
          queue'[i] = e \/ \E j \in DOMAIN queue : queue'[i] = queue[j]
  <2>1. CASE Refused(e)
    BY <2>1 DEF Refused
  <2>2. CASE Enqueued(e)
    BY <2>2, <1>1, <1>4 DEF Enqueued
  <2>3. CASE PushedOut(e)
    <3>1. \A i \in 1 .. m : i = m \/ (i \in 1 .. m - 1 /\ i + 1 \in 1 .. m)
      BY <1>1, Positions
    <3> QED BY <2>3, <3>1, <1>1, <1>4 DEF PushedOut
  <2> QED BY <2>1, <2>2, <2>3
<1>6. \A x \in overrun' : x \in overrun \/ \E j \in DOMAIN queue : x = queue[j]
  BY <1>1 DEF Refused, Enqueued, PushedOut
<1>7. \A x \in orphans' : x \in orphans \/ x = e
  BY DEF Refused, Enqueued, PushedOut
<1>8. \A x \in Entries : Known(x, sent) => Known(x, sent')
  BY <1>1, <1>3 DEF Known, Entries
<1>9. Known(e, sent')
  BY <1>1, <1>3 DEF Known
<1>10. AllKnown'
  <2>1. \A i \in DOMAIN queue' : Known(queue'[i], sent')
    BY <1>1, <1>5, <1>8, <1>9 DEF MsgInv, AllKnown, Known
  <2>2. \A x \in overrun' \cup orphans' : Known(x, sent')
    BY <1>1, <1>6, <1>7, <1>8, <1>9 DEF MsgInv, AllKnown
  <2>3. \A w \in Writers : \A x \in job'[w] : Known(x, sent') /\ x.id > 0
    BY <1>1, <1>8 DEF MsgInv, AllKnown
  <2>4. \A i \in DOMAIN out' : out'[i] =< Len(sent')
    BY <1>1, <1>3
  <2> QED BY <2>1, <2>2, <2>3, <2>4 DEF AllKnown, Known
<1>11. \A i \in DOMAIN queue : queue[i].id > 0 => queue[i].id \in 1 .. n
  BY <1>1 DEF MsgInv, AllKnown, Known
<1>12. Divided'
  <2>1. \A i \in DOMAIN queue' : queue'[i].id > 0 => sent'[queue'[i].id].async
    BY <1>3, <1>5, <1>11 DEF MsgInv, Divided
  <2>2. \A w \in Writers : \A x \in job[w] : sent'[x.id] = sent[x.id]
    BY <1>1, <1>3
  <2> QED BY <2>1, <2>2 DEF MsgInv, Divided, Writers
<1>13. OneWriter' /\ OutOnce'
  BY DEF MsgInv, OneWriter, OutOnce
<1>14. OutInOrder'
  BY <1>1, <1>3 DEF MsgInv, OutInOrder
<1>15. \A i \in DOMAIN queue : queue[i].id =< n
  BY <1>1, <1>11
<1>16. \A x \in overrun \cup orphans : x.id =< n
  BY <1>1 DEF MsgInv, AllKnown, Known
<1>17. InOrder'
  <2> DEFINE Q(i) == queue'[i]
  <2>1. ASSUME NEW i \in DOMAIN queue', queue'[i].id > 0
        PROVE  /\ \A x \in overrun' : x.id < queue'[i].id
               /\ \A x \in job'[Worker] : x.id < queue'[i].id
               /\ \A k \in DOMAIN out' : sent'[out'[k]].async => out'[k] < queue'[i].id
    <3>0. Worker \in Writers BY DEF Writers
    <3>1. CASE queue'[i] = e
      BY <2>1, <3>0, <3>1, <1>1, <1>3, <1>6, <1>15, <1>16
    <3>2. CASE queue'[i] # e
      <4>1. PICK j \in DOMAIN queue : queue'[i] = queue[j]
        BY <3>2, <1>5
      <4>2. /\ \A x \in overrun : x.id < queue[j].id
            /\ \A x \in job[Worker] : x.id < queue[j].id
            /\ \A k \in DOMAIN out : sent[out[k]].async => out[k] < queue[j].id
        BY <2>1, <4>1 DEF MsgInv, InOrder
      <4>3. CASE overrun' = overrun
        BY <4>1, <4>2, <4>3, <1>1, <1>3
      <4>4. CASE PushedOut(e)
        <5>1. i \in 1 .. m - 1 /\ i + 1 \in 1 .. m /\ 1 < i + 1 /\ 1 \in 1 .. m
          BY <4>4, <3>2, <1>1, <1>4 DEF PushedOut
        <5>2. queue'[i] = queue[i + 1]
          BY <4>4, <5>1 DEF PushedOut
        <5>3. queue[1].id < queue'[i].id
          <6>1. 1 \in DOMAIN queue /\ i + 1 \in DOMAIN queue /\ queue[i + 1].id > 0
            BY <2>1, <5>1, <5>2, <1>1
          <6>2. queue[1].id > 0 => queue[1].id < queue[i + 1].id
            BY <5>1, <6>1 DEF MsgInv, InOrder
          <6>3. queue[1].id \in Int /\ queue[i + 1].id \in Int
            BY <5>1, <1>1
          <6> QED BY <5>2, <6>1, <6>2, <6>3
        <5> QED BY <4>1, <4>2, <4>4, <5>3, <1>1, <1>3 DEF PushedOut
      <4> QED BY <4>3, <4>4 DEF Refused, Enqueued
    <3> QED BY <3>1, <3>2
  <2>2. \A i, j \in DOMAIN queue' :
            i < j /\ queue'[i].id > 0 /\ queue'[j].id > 0 => queue'[i].id < queue'[j].id
    <3> SUFFICES ASSUME NEW i \in DOMAIN queue', NEW j \in DOMAIN queue', i < j,
                        queue'[i].id > 0, queue'[j].id > 0
                 PROVE  queue'[i].id < queue'[j].id
      OBVIOUS
    <3>1. CASE Refused(e)
      BY <3>1 DEF Refused, MsgInv, InOrder
    <3>2. CASE Enqueued(e)
      <4>1. i \in 1 .. m /\ (j = m + 1 \/ j \in 1 .. m)
        BY <3>2, <1>1, <1>4 DEF Enqueued
      <4>2. CASE j = m + 1
        BY <3>2, <4>1, <4>2, <1>1, <1>3, <1>15 DEF Enqueued
      <4>3. CASE j \in 1 .. m
        BY <3>2, <4>1, <4>3, <1>1 DEF Enqueued, MsgInv, InOrder
      <4> QED BY <4>1, <4>2, <4>3
    <3>3. CASE PushedOut(e)
      <4>1. i \in 1 .. m - 1 /\ i + 1 \in 1 .. m /\ (j = m \/ (j \in 1 .. m - 1 /\ j + 1 \in 1 .. m))
        BY <3>3, <1>1, <1>4 DEF PushedOut
      <4>2. CASE j = m
        BY <3>3, <4>1, <4>2, <1>1, <1>3, <1>15 DEF PushedOut
      <4>3. CASE j \in 1 .. m - 1
        <5>1. queue'[i] = queue[i + 1] /\ queue'[j] = queue[j + 1] /\ i + 1 < j + 1
          BY <3>3, <4>1, <4>3, <1>1 DEF PushedOut
        <5> QED BY <4>1, <4>3, <5>1, <1>1 DEF MsgInv, InOrder
      <4> QED BY <4>1, <4>2, <4>3
    <3> QED BY <3>1, <3>2, <3>3
  <2>3. \A k \in DOMAIN out', x \in job'[Worker] : sent'[out'[k]].async => out'[k] < x.id
    BY <1>1, <1>3 DEF MsgInv, InOrder
  <2> QED BY <2>1, <2>2, <2>3 DEF InOrder
<1>18. ASSUME NEW id \in 1 .. n
       PROVE  /\ InOut(id)' <=> InOut(id)
              /\ InJob(id)' <=> InJob(id)
              /\ InOrphans(id)' <=> InOrphans(id)
  <2>1. e.id # id BY <1>1, <1>3
  <2> QED BY <2>1 DEF InOut, InJob, InOrphans, Refused, Enqueued, PushedOut
<1>19. ASSUME NEW id \in 1 .. n
       PROVE  \/ (InQueue(id)' <=> InQueue(id)) /\ (InOverrun(id)' <=> InOverrun(id))
              \/ ~ InQueue(id)' /\ InQueue(id) /\ InOverrun(id)'
  <2>1. e.id # id BY <1>1, <1>3
  <2>2. CASE Refused(e)
    BY <2>2 DEF Refused, InQueue, InOverrun
  <2>3. CASE Enqueued(e)
    <3>1. InQueue(id)' => InQueue(id)
      BY <1>5, <2>1 DEF InQueue
    <3>2. InQueue(id) => InQueue(id)'
      BY <1>1, <1>4, <2>3 DEF InQueue, Enqueued
    <3> QED BY <2>3, <3>1, <3>2 DEF Enqueued, InOverrun
  <2>4. CASE PushedOut(e)
    <3>1. InQueue(id)' => InQueue(id)
      BY <1>5, <2>1 DEF InQueue
    <3>2. overrun' = overrun \cup {queue[1]} /\ 1 \in 1 .. m
      BY <1>1, <2>4 DEF PushedOut
    <3>3. CASE queue[1].id = id
      <4>1. InQueue(id) /\ InOverrun(id)'
        BY <1>1, <3>2, <3>3 DEF InQueue, InOverrun
      <4>2. ASSUME NEW i \in DOMAIN queue', queue'[i].id = id PROVE FALSE
        <5>1. i \in 1 .. m - 1 /\ i + 1 \in 1 .. m /\ 1 < i + 1 /\ queue'[i] = queue[i + 1]
          BY <4>2, <2>1, <2>4, <1>1, <1>4 DEF PushedOut
        <5>2. id > 0 /\ 1 \in DOMAIN queue /\ i + 1 \in DOMAIN queue
          BY <5>1, <3>2, <1>1
        <5>3. queue[1].id > 0 /\ queue[i + 1].id > 0 => queue[1].id < queue[i + 1].id
          BY <5>1, <5>2 DEF MsgInv, InOrder
        <5> QED BY <4>2, <5>1, <5>2, <5>3, <3>3
      <4> QED BY <4>1, <4>2 DEF InQueue
    <3>4. CASE queue[1].id # id
      <4>1. ASSUME NEW i \in DOMAIN queue, queue[i].id = id PROVE InQueue(id)'
        <5>1. i # 1 BY <4>1, <3>4
        <5>2. i - 1 \in 1 .. m - 1 /\ (i - 1) + 1 = i /\ i - 1 \in DOMAIN queue'
          BY <5>1, <2>4, <1>1, <1>4 DEF PushedOut
        <5>3. queue'[i - 1] = queue[i]
          BY <5>2, <2>4 DEF PushedOut
        <5> QED BY <4>1, <5>2, <5>3 DEF InQueue
      <4>2. InOverrun(id)' <=> InOverrun(id)
        BY <3>2, <3>4 DEF InOverrun
      <4> QED BY <3>1, <4>1, <4>2 DEF InQueue
    <3> QED BY <3>3, <3>4
  <2> QED BY <2>2, <2>3, <2>4
<1>20. ASSUME e.id > 0, NEW id \in Nat, id = n + 1
       PROVE  /\ ~ InOut(id)' /\ ~ InJob(id)' /\ ~ InOverrun(id)'
              /\ \/ InOrphans(id)' /\ ~ InQueue(id)'
                 \/ ~ InOrphans(id)' /\ InQueue(id)'
  <2>1. e.id = id BY <1>20, <1>1, <1>3
  <2>2. ~ InOut(id)' /\ ~ InJob(id)'
    BY <1>1, <1>20 DEF InOut, InJob
  <2>3. ~ InOverrun(id)'
    BY <1>1, <1>6, <1>15, <1>16, <1>20 DEF InOverrun
  <2>4. ~ InOrphans(id) /\ ~ InQueue(id)
    BY <1>1, <1>15, <1>16, <1>20 DEF InOrphans, InQueue
  <2>5. CASE Refused(e)
    <3>1. InOrphans(id)'
      BY <2>1, <2>5 DEF Refused, InOrphans
    <3>2. ~ InQueue(id)'
      BY <2>4, <2>5 DEF Refused, InQueue
    <3> QED BY <2>2, <2>3, <3>1, <3>2
  <2>6. CASE Enqueued(e)
    <3>1. m + 1 \in DOMAIN queue' /\ queue'[m + 1] = e
      BY <2>6, <1>1, <1>4 DEF Enqueued
    <3>2. InQueue(id)'
      BY <2>1, <3>1 DEF InQueue
    <3>3. ~ InOrphans(id)'
      BY <2>4, <2>6 DEF Enqueued, InOrphans
    <3> QED BY <2>2, <2>3, <3>2, <3>3
  <2>7. CASE PushedOut(e)
    <3>1. m \in DOMAIN queue' /\ queue'[m] = e
      BY <2>7, <1>1, <1>4 DEF PushedOut
    <3>2. InQueue(id)'
      BY <2>1, <3>1 DEF InQueue
    <3>3. ~ InOrphans(id)'
      BY <2>4, <2>7 DEF PushedOut, InOrphans
    <3> QED BY <2>2, <2>3, <3>2, <3>3
  <2> QED BY <2>2, <2>3, <2>5, <2>6, <2>7
<1>21. \A id \in 1 .. Len(sent') : id \in 1 .. n \/ (e.id > 0 /\ id = n + 1)
  BY <1>1, <1>3
<1>22. Apart'
  BY <1>18, <1>19, <1>20, <1>21 DEF MsgInv, Apart
<1>23. NoneLost'
  BY <1>3, <1>18, <1>19, <1>20, <1>21 DEF MsgInv, NoneLost
<1> QED
  BY <1>2, <1>10, <1>12, <1>13, <1>14, <1>17, <1>22, <1>23 DEF MsgInv
\* A step that only tears a logger, or does not touch the messages at all.
LEMMA QuietMsg ==
    ASSUME MsgInv, UNCHANGED <<queue, job, sent, overrun, orphans, out>>, torn \subseteq torn'
    PROVE  MsgInv'
<1>1. MsgType' /\ AllKnown' /\ Divided' /\ OneWriter' /\ InOrder' /\ OutOnce' /\ OutInOrder'
  BY DEF MsgInv, MsgType, AllKnown, Divided, OneWriter, InOrder, OutOnce, OutInOrder
<1>2. \A id : /\ InOut(id)' <=> InOut(id)
              /\ InOverrun(id)' <=> InOverrun(id)
              /\ InOrphans(id)' <=> InOrphans(id)
              /\ InQueue(id)' <=> InQueue(id)
              /\ InJob(id)' <=> InJob(id)
  BY DEF InOut, InOverrun, InOrphans, InQueue, InJob
<1>3. Apart' /\ NoneLost'
  BY <1>2 DEF MsgInv, Apart, NoneLost
<1> QED BY <1>1, <1>3 DEF MsgInv

\* A thread begins to write a message of a synchronous logger.
LEMMA SyncMsg ==
    ASSUME MsgInv, NEW t \in Threads, NEW lg \in Loggers, NEW l \in Levels, job[t] = {},
           sent' = Append(sent, [lg |-> lg, level |-> l, async |-> FALSE]),
           job' = [job EXCEPT ![t] = {Entry(lg, Len(sent'))}],
           UNCHANGED <<queue, overrun, orphans, out, torn>>
    PROVE  MsgInv'
<1> DEFINE n == Len(sent)
           e == Entry(lg, n + 1)
<1>1. /\ n \in Nat
      /\ \A i \in DOMAIN queue : queue[i] \in Entries /\ queue[i].id \in Int
      /\ \A i \in DOMAIN out : out[i] \in 1 .. n
      /\ \A x \in overrun \cup orphans : x \in Entries /\ x.id \in Int
      /\ \A w \in Writers : \A x \in job[w] : x \in Entries /\ x.id \in 1 .. n
  BY MsgTypes
<1>2. /\ sent' \in Seq(Sendings) /\ Len(sent') = n + 1
      /\ \A id \in 1 .. n : sent'[id] = sent[id]
      /\ sent'[n + 1] = [lg |-> lg, level |-> l, async |-> FALSE]
  BY DEF MsgInv, MsgType, Sendings
<1>3. e \in Entries /\ e.id = n + 1 /\ e.lg = lg
  BY <1>1 DEF Entry, Entries
<1>4. t \in Writers /\ Worker \in Writers /\ t # Worker /\ Threads \subseteq Writers
  BY ActorsAssumption DEF Writers
<1>5. job' = [job EXCEPT ![t] = {e}]
  BY <1>2
<1> HIDE DEF e
<1>6. job'[t] = {e} /\ \A w \in Writers \ {t} : job'[w] = job[w]
  BY <1>4, <1>5 DEF MsgInv, MsgType
<1>7. MsgType'
  <2>1. {e} \in SUBSET Entries
    BY <1>3
  <2>2. job' \in [Writers -> SUBSET Entries]
    BY <1>5, <2>1 DEF MsgInv, MsgType
  <2> QED BY <1>2, <2>2 DEF MsgInv, MsgType
<1>8. \A x \in Entries : Known(x, sent) => Known(x, sent')
  BY <1>1, <1>2 DEF Known, Entries
<1>9. Known(e, sent') /\ e.id > 0
  BY <1>1, <1>2, <1>3 DEF Known
<1>10. AllKnown'
  <2>1. \A w \in Writers : \A x \in job'[w] : Known(x, sent') /\ x.id > 0
    BY <1>1, <1>6, <1>8, <1>9 DEF MsgInv, AllKnown
  <2>2. \A i \in DOMAIN queue' : Known(queue'[i], sent')
    BY <1>1, <1>8 DEF MsgInv, AllKnown
  <2>3. \A x \in overrun' \cup orphans' : Known(x, sent')
    BY <1>1, <1>8 DEF MsgInv, AllKnown
  <2>4. \A i \in DOMAIN out' : out'[i] =< Len(sent')
    BY <1>1, <1>2
  <2> QED BY <2>1, <2>2, <2>3, <2>4 DEF AllKnown
<1>11. \A i \in DOMAIN queue : queue[i].id =< n /\ (queue[i].id > 0 => queue[i].id \in 1 .. n)
  BY <1>1 DEF MsgInv, AllKnown, Known
<1>12. \A x \in overrun \cup orphans : x.id =< n
  BY <1>1 DEF MsgInv, AllKnown, Known
<1>13. Divided'
  <2>1. \A i \in DOMAIN queue' : queue'[i].id > 0 => sent'[queue'[i].id].async
    BY <1>2, <1>11 DEF MsgInv, Divided
  <2>2. \A x \in job'[Worker] : sent'[x.id].async
    BY <1>1, <1>2, <1>4, <1>6 DEF MsgInv, Divided
  <2>3. \A u \in Threads : \A x \in job'[u] : ~ sent'[x.id].async
    <3> SUFFICES ASSUME NEW u \in Threads, NEW x \in job'[u] PROVE ~ sent'[x.id].async
      OBVIOUS
    <3>1. CASE u = t
      BY <3>1, <1>2, <1>3, <1>6
    <3>2. CASE u # t
      BY <3>2, <1>1, <1>2, <1>4, <1>6 DEF MsgInv, Divided
    <3> QED BY <3>1, <3>2
  <2> QED BY <2>1, <2>2, <2>3 DEF Divided
<1>14. OneWriter'
  BY <1>1, <1>3, <1>4, <1>6 DEF MsgInv, OneWriter
<1>15. InOrder'
  BY <1>1, <1>2, <1>4, <1>6 DEF MsgInv, InOrder
<1>16. OutOnce' /\ OutInOrder'
  BY <1>1, <1>2 DEF MsgInv, OutOnce, OutInOrder
<1>17. ASSUME NEW id \in 1 .. n
       PROVE  /\ InOut(id)' <=> InOut(id)
              /\ InOverrun(id)' <=> InOverrun(id)
              /\ InOrphans(id)' <=> InOrphans(id)
              /\ InQueue(id)' <=> InQueue(id)
              /\ InJob(id)' <=> InJob(id)
  <2>1. e.id # id BY <1>1, <1>3
  <2>2. InJob(id)' <=> InJob(id)
    BY <2>1, <1>4, <1>6 DEF InJob
  <2> QED BY <2>2 DEF InOut, InOverrun, InOrphans, InQueue
<1>18. ASSUME NEW id \in Nat, id = n + 1
       PROVE  ~ InOut(id)' /\ ~ InOverrun(id)' /\ ~ InOrphans(id)' /\ ~ InQueue(id)' /\ InJob(id)'
  <2>1. InJob(id)' BY <1>3, <1>4, <1>6, <1>18 DEF InJob
  <2>2. ~ InOut(id)' BY <1>1, <1>18 DEF InOut
  <2>3. ~ InOverrun(id)' /\ ~ InOrphans(id)' BY <1>1, <1>12, <1>18 DEF InOverrun, InOrphans
  <2>4. ~ InQueue(id)' BY <1>1, <1>11, <1>18 DEF InQueue
  <2> QED BY <2>1, <2>2, <2>3, <2>4
<1>19. \A id \in 1 .. Len(sent') : id \in 1 .. n \/ id = n + 1
  BY <1>1, <1>2
<1>20. Apart'
  BY <1>1, <1>17, <1>18, <1>19 DEF MsgInv, Apart
<1>21. NoneLost'
  BY <1>1, <1>2, <1>17, <1>18, <1>19 DEF MsgInv, NoneLost
<1> QED
  BY <1>7, <1>10, <1>13, <1>14, <1>15, <1>16, <1>20, <1>21 DEF MsgInv
\* The worker takes an entry.
LEMMA TakesMsg ==
    ASSUME MsgInv, WorkerTakes
    PROVE  MsgInv'
<1> DEFINE n == Len(sent)
           m == Len(queue)
           e == queue[1]
<1>1. /\ n \in Nat /\ m \in Nat /\ DOMAIN queue = 1 .. m
      /\ \A i \in 1 .. m : queue[i] \in Entries /\ queue[i].id \in Int
      /\ \A i \in DOMAIN out : out[i] \in 1 .. n
      /\ \A x \in overrun \cup orphans : x \in Entries /\ x.id \in Int
      /\ \A w \in Writers : \A x \in job[w] : x \in Entries /\ x.id \in 1 .. n
  BY MsgTypes
<1>2. /\ queue # <<>> /\ queue' = Tail(queue) /\ job[Worker] = {}
      /\ UNCHANGED <<sent, out, overrun, orphans, torn>>
  BY DEF WorkerTakes, histVars
<1>3. /\ m > 0 /\ Head(queue) = e /\ e \in Entries
      /\ queue' \in Seq(Entries)
      /\ Len(queue') = m - 1
      /\ \A i \in 1 .. m - 1 : queue'[i] = queue[i + 1]
  BY <1>2, TakeFacts DEF MsgInv, MsgType
<1>4. IF e.id =< 0 THEN job' = job ELSE job' = [job EXCEPT ![Worker] = {e}]
  BY <1>3 DEF WorkerTakes
<1> HIDE DEF e
<1>5. DOMAIN queue' = 1 .. m - 1 /\ 1 \in 1 .. m /\ e = queue[1] /\ e.id \in Int
  BY <1>1, <1>3 DEF e
<1>6. \A i \in 1 .. m - 1 : i + 1 \in 1 .. m /\ 1 < i + 1
  BY <1>1
<1>7. Worker \in Writers /\ Threads \subseteq Writers /\ Worker \notin Threads
  BY ActorsAssumption DEF Writers
<1>8. /\ job'[Worker] = IF e.id =< 0 THEN {} ELSE {e}
      /\ \A w \in Writers \ {Worker} : job'[w] = job[w]
  BY <1>2, <1>4, <1>7 DEF MsgInv, MsgType
<1>9. MsgType'
  <2>1. {e} \in SUBSET Entries
    BY <1>3
  <2>2. job' \in [Writers -> SUBSET Entries]
    BY <1>4, <2>1 DEF MsgInv, MsgType
  <2> QED BY <1>2, <1>3, <2>2 DEF MsgInv, MsgType
<1>10. Known(e, sent)
  BY <1>1, <1>5 DEF MsgInv, AllKnown
<1>11. AllKnown'
  <2>1. \A w \in Writers : \A x \in job'[w] : Known(x, sent) /\ x.id > 0
    BY <1>5, <1>7, <1>8, <1>10 DEF MsgInv, AllKnown
  <2>2. \A i \in DOMAIN queue' : Known(queue'[i], sent)
    BY <1>1, <1>3, <1>5, <1>6 DEF MsgInv, AllKnown
  <2> QED BY <1>2, <2>1, <2>2 DEF MsgInv, AllKnown
<1>12. Divided'
  <2>1. \A i \in DOMAIN queue' : queue'[i].id > 0 => sent[queue'[i].id].async
    BY <1>1, <1>3, <1>5, <1>6 DEF MsgInv, Divided
  <2>2. \A x \in job'[Worker] : sent[x.id].async
    BY <1>1, <1>5, <1>8 DEF MsgInv, Divided
  <2>3. \A u \in Threads : job'[u] = job[u]
    BY <1>7, <1>8
  <2> QED BY <1>2, <2>1, <2>2, <2>3 DEF MsgInv, Divided
<1>13. ASSUME e.id > 0, NEW w \in Writers, NEW x \in job[w] PROVE x.id # e.id
  <2>1. InQueue(e.id) /\ e.id \in 1 .. n
    BY <1>1, <1>5, <1>10, <1>13 DEF InQueue, Known
  <2> QED BY <2>1, <1>13 DEF MsgInv, Apart, InJob
<1>14. OneWriter'
  BY <1>5, <1>8, <1>13 DEF MsgInv, OneWriter
<1>15. InOrder'
  <2>1. \A i, j \in DOMAIN queue' :
            i < j /\ queue'[i].id > 0 /\ queue'[j].id > 0 => queue'[i].id < queue'[j].id
    <3> SUFFICES ASSUME NEW i \in 1 .. m - 1, NEW j \in 1 .. m - 1, i < j,
                        queue[i + 1].id > 0, queue[j + 1].id > 0
                 PROVE  queue[i + 1].id < queue[j + 1].id
      BY <1>3, <1>5
    <3>1. i + 1 \in DOMAIN queue /\ j + 1 \in DOMAIN queue /\ i + 1 < j + 1
      BY <1>1
    <3> QED BY <3>1 DEF MsgInv, InOrder
  <2>2. ASSUME NEW i \in 1 .. m - 1, queue[i + 1].id > 0
        PROVE  /\ \A x \in overrun : x.id < queue[i + 1].id
               /\ \A x \in job'[Worker] : x.id < queue[i + 1].id
               /\ \A k \in DOMAIN out : sent[out[k]].async => out[k] < queue[i + 1].id
    <3>1. i + 1 \in DOMAIN queue /\ 1 \in DOMAIN queue /\ 1 < i + 1
      BY <1>1
    <3>2. e.id > 0 => e.id < queue[i + 1].id
      BY <2>2, <3>1, <1>5 DEF MsgInv, InOrder
    <3>3. \A x \in job'[Worker] : x.id < queue[i + 1].id
      BY <3>2, <1>5, <1>8
    <3> QED BY <2>2, <3>1, <3>3 DEF MsgInv, InOrder
  <2>3. \A k \in DOMAIN out, x \in job'[Worker] : sent[out[k]].async => out[k] < x.id
    BY <1>1, <1>5, <1>8 DEF MsgInv, InOrder
  <2> QED BY <1>2, <1>3, <1>5, <2>1, <2>2, <2>3 DEF InOrder
<1>16. OutOnce' /\ OutInOrder'
  BY <1>2 DEF MsgInv, OutOnce, OutInOrder
<1>17. ASSUME NEW id \in 1 .. n
       PROVE  \/ (InQueue(id)' <=> InQueue(id)) /\ (InJob(id)' <=> InJob(id))
              \/ InQueue(id) /\ ~ InQueue(id)' /\ InJob(id)'
  <2>1. CASE e.id = id
    <3>1. InQueue(id)
      BY <2>1, <1>1, <1>5 DEF InQueue
    <3>2. ASSUME NEW i \in 1 .. m - 1, queue[i + 1].id = id PROVE FALSE
      <4>1. 1 \in DOMAIN queue /\ i + 1 \in DOMAIN queue /\ 1 < i + 1 /\ id > 0
        BY <1>1
      <4>2. queue[1].id > 0 /\ queue[i + 1].id > 0 => queue[1].id < queue[i + 1].id
        BY <4>1 DEF MsgInv, InOrder
      <4> QED BY <2>1, <3>2, <4>1, <4>2, <1>5
    <3>3. ~ InQueue(id)'
      BY <3>2, <1>3, <1>5 DEF InQueue
    <3>4. InJob(id)'
      BY <2>1, <1>1, <1>7, <1>8 DEF InJob
    <3> QED BY <3>1, <3>3, <3>4
  <2>2. CASE e.id # id
    <3>1. InQueue(id)' => InQueue(id)
      BY <1>1, <1>3, <1>5, <1>6 DEF InQueue
    <3>2. ASSUME NEW i \in DOMAIN queue, queue[i].id = id PROVE InQueue(id)'
      <4>1. i # 1 BY <2>2, <3>2, <1>5
      <4>2. i - 1 \in 1 .. m - 1 /\ (i - 1) + 1 = i
        BY <4>1, <1>1
      <4>3. queue'[i - 1] = queue[i]
        BY <4>2, <1>3
      <4> QED BY <3>2, <4>2, <4>3, <1>5 DEF InQueue
    <3>3. InJob(id)' <=> InJob(id)
      BY <2>2, <1>2, <1>7, <1>8 DEF InJob
    <3> QED BY <3>1, <3>2, <3>3 DEF InQueue
  <2> QED BY <2>1, <2>2
<1>18. \A id : /\ InOut(id)' <=> InOut(id)
               /\ InOverrun(id)' <=> InOverrun(id)
               /\ InOrphans(id)' <=> InOrphans(id)
  BY <1>2 DEF InOut, InOverrun, InOrphans
<1>19. Apart'
  BY <1>2, <1>17, <1>18 DEF MsgInv, Apart
<1>20. NoneLost'
  BY <1>2, <1>17, <1>18 DEF MsgInv, NoneLost
<1> QED
  BY <1>9, <1>11, <1>12, <1>14, <1>15, <1>16, <1>19, <1>20 DEF MsgInv
\* A writer is through with its message, which may get lost in torn sinks.
LEMMA WrittenMsg ==
    ASSUME MsgInv, NEW w \in Writers, Written(w)
    PROVE  MsgInv'
<1> DEFINE n == Len(sent)
           k == Len(out)
<1>1. /\ n \in Nat
      /\ \A i \in DOMAIN queue : queue[i].id \in Int
      /\ DOMAIN out = 1 .. k /\ k \in Nat
      /\ \A i \in DOMAIN out : out[i] \in 1 .. n
      /\ \A v \in Writers : \A x \in job[v] : x \in Entries /\ x.id \in 1 .. n
  BY MsgTypes
<1>2. PICK e \in job[w] :
          /\ job' = [job EXCEPT ![w] = {}]
          /\ out' = Append(out, e.id) \/ (e.lg \in torn /\ out' = out)
          /\ UNCHANGED <<queue, sent, overrun, orphans, torn>>
  BY DEF Written, histVars
<1>3. e.id \in 1 .. n /\ Known(e, sent) /\ sent[e.id].lg = e.lg
  BY <1>1 DEF MsgInv, AllKnown, Known
<1>4. job'[w] = {} /\ \A v \in Writers \ {w} : job'[v] = job[v]
  BY <1>2 DEF MsgInv, MsgType
<1>5. \A v \in Writers : job'[v] \subseteq job[v]
  BY <1>4
<1>6. Worker \in Writers /\ Threads \subseteq Writers /\ Worker \notin Threads
      /\ (w # Worker => w \in Threads)
  BY ActorsAssumption DEF Writers
<1>7. \/ /\ out' \in Seq(Nat \ {0}) /\ Len(out') = k + 1 /\ DOMAIN out' = 1 .. k + 1
         /\ \A i \in 1 .. k : out'[i] = out[i]
         /\ out'[k + 1] = e.id
      \/ e.lg \in torn /\ out' = out
  <2>1. out \in Seq(Nat \ {0}) /\ e.id \in Nat \ {0}
    BY <1>1, <1>3 DEF MsgInv, MsgType
  <2>2. ASSUME NEW r, r = Append(out, e.id)
        PROVE  /\ r \in Seq(Nat \ {0}) /\ Len(r) = k + 1 /\ DOMAIN r = 1 .. k + 1
               /\ \A i \in 1 .. k : r[i] = out[i]
               /\ r[k + 1] = e.id
    BY <2>1, <2>2
  <2> QED BY <1>2, <2>2
<1>8. \A i \in DOMAIN out' : \/ i \in DOMAIN out /\ out'[i] = out[i]
                             \/ i = k + 1 /\ out'[i] = e.id
  BY <1>1, <1>7
<1>9. \A x \in job[w] : x = e
  BY DEF MsgInv, OneWriter
<1>10. MsgType'
  <2>1. job' \in [Writers -> SUBSET Entries]
    BY <1>2 DEF MsgInv, MsgType
  <2> QED BY <1>2, <1>7, <2>1 DEF MsgInv, MsgType
<1>11. AllKnown'
  <2>1. \A i \in DOMAIN out' : out'[i] =< n
    BY <1>1, <1>3, <1>8
  <2> QED BY <1>2, <1>5, <2>1 DEF MsgInv, AllKnown
<1>12. Divided'
  BY <1>2, <1>5, <1>6 DEF MsgInv, Divided
<1>13. OneWriter'
  BY <1>5 DEF MsgInv, OneWriter
<1>14. sent[e.id].async => w = Worker
  BY <1>6 DEF MsgInv, Divided
<1>15. \A i \in DOMAIN out : out[i] # e.id
  <2>1. InJob(e.id) BY DEF InJob
  <2> QED BY <2>1, <1>3 DEF MsgInv, Apart, InOut
<1>16. InOrder'
  <2>1. ASSUME NEW i \in DOMAIN queue, queue[i].id > 0, NEW j \in DOMAIN out',
               sent[out'[j]].async
        PROVE  out'[j] < queue[i].id
    BY <2>1, <1>8, <1>14 DEF MsgInv, InOrder
  <2>2. ASSUME NEW j \in DOMAIN out', sent[out'[j]].async, NEW x \in job'[Worker]
        PROVE  out'[j] < x.id
    BY <2>2, <1>4, <1>5, <1>6, <1>8, <1>14 DEF MsgInv, InOrder
  <2> QED BY <1>2, <1>5, <1>6, <2>1, <2>2 DEF MsgInv, InOrder
<1>17. OutOnce'
  BY <1>8, <1>15 DEF MsgInv, OutOnce
<1>18. OutInOrder'
  <2> SUFFICES ASSUME NEW i \in DOMAIN out', NEW j \in DOMAIN out', i < j,
                      sent[out'[i]].async, sent[out'[j]].async
               PROVE  out'[i] < out'[j]
    BY <1>2 DEF OutInOrder
  <2>1. i \in DOMAIN out /\ out'[i] = out[i]
    BY <1>1, <1>7, <1>8
  <2>2. CASE j \in DOMAIN out /\ out'[j] = out[j]
    BY <2>1, <2>2 DEF MsgInv, OutInOrder
  <2>3. CASE out'[j] = e.id
    BY <2>1, <2>3, <1>14 DEF MsgInv, InOrder
  <2> QED BY <2>2, <2>3, <1>8
<1>19. \A id : /\ InOverrun(id)' <=> InOverrun(id)
               /\ InOrphans(id)' <=> InOrphans(id)
               /\ InQueue(id)' <=> InQueue(id)
  BY <1>2 DEF InOverrun, InOrphans, InQueue
<1>20. ASSUME NEW id \in 1 .. n, id # e.id
       PROVE  (InOut(id)' <=> InOut(id)) /\ (InJob(id)' <=> InJob(id))
  <2>1. InOut(id)' => InOut(id)
    BY <1>8, <1>20 DEF InOut
  <2>2. InOut(id) => InOut(id)'
    <3> SUFFICES ASSUME NEW i \in DOMAIN out, out[i] = id PROVE InOut(id)'
      BY DEF InOut
    <3>1. i \in DOMAIN out' /\ out'[i] = out[i]
      BY <1>1, <1>7
    <3> QED BY <3>1 DEF InOut
  <2>3. InJob(id)' <=> InJob(id)
    BY <1>4, <1>9, <1>20 DEF InJob
  <2> QED BY <2>1, <2>2, <2>3
<1>21. ASSUME NEW id, id = e.id
       PROVE  /\ InJob(id) /\ ~ InJob(id)'
              /\ InOut(id)' \/ sent[id].lg \in torn
  <2>1. InJob(id) BY <1>21 DEF InJob
  <2>2. ASSUME NEW v \in Writers, NEW x \in job'[v], x.id = id PROVE FALSE
    BY <2>2, <1>4, <1>5, <1>21 DEF MsgInv, OneWriter
  <2>3. InOut(id)' \/ sent[id].lg \in torn
    <3>1. CASE e.lg \in torn
      BY <3>1, <1>3, <1>21
    <3>2. CASE e.lg \notin torn
      <4>1. k + 1 \in DOMAIN out' /\ out'[k + 1] = e.id
        BY <3>2, <1>1, <1>7
      <4> QED BY <4>1, <1>21 DEF InOut
    <3> QED BY <3>1, <3>2
  <2> QED BY <2>1, <2>2, <2>3 DEF InJob
<1>22. Apart'
  BY <1>2, <1>19, <1>20, <1>21 DEF MsgInv, Apart
<1>23. NoneLost'
  BY <1>2, <1>19, <1>20, <1>21 DEF MsgInv, NoneLost
<1> QED
  BY <1>10, <1>11, <1>12, <1>13, <1>16, <1>17, <1>18, <1>22, <1>23 DEF MsgInv
\* A flush, at once or posted.
LEMMA FlushMsg ==
    ASSUME MsgInv, NEW lg \in Loggers, NEW id \in {0, Final}, FlushBase(lg, id),
           UNCHANGED <<job, sent, out, torn>>
    PROVE  MsgInv'
<1>1. CASE logger[lg] = "async"
  <2> DEFINE e == Entry(lg, id)
  <2>1. e \in Entries /\ e.id =< 0
    BY DEF Entry, Entries, Final
  <2>2. Post(e)
    BY <1>1 DEF FlushBase
  <2> HIDE DEF e
  <2>3. Refused(e) \/ Enqueued(e) \/ PushedOut(e)
    BY <2>1, <2>2, PostFacts DEF MsgInv, MsgType
  <2>4. Fresh(e)
    BY <2>1 DEF Fresh
  <2> QED BY <2>1, <2>3, <2>4, PostMsg
<1>2. CASE logger[lg] # "async"
  BY <1>2, QuietMsg DEF FlushBase
<1> QED BY <1>1, <1>2

LEMMA LogMsg ==
    ASSUME MsgInv, NEW t \in Threads, NEW lg \in Loggers, NEW l \in Levels, Log(t, lg, l)
    PROVE  MsgInv'
<1>1. CASE logger[lg] = "async"
  <2> DEFINE e == Entry(lg, Len(sent) + 1)
  <2>1. Len(sent) \in Nat /\ sent \in Seq(Sendings)
    BY MsgTypes DEF MsgInv, MsgType
  <2>2. sent' = Append(sent, [lg |-> lg, level |-> l, async |-> TRUE])
    BY <1>1 DEF Log
  <2>3. /\ sent' \in Seq(Sendings) /\ Len(sent') = Len(sent) + 1
        /\ \A id \in 1 .. Len(sent) : sent'[id] = sent[id]
        /\ sent'[Len(sent) + 1] = [lg |-> lg, level |-> l, async |-> TRUE]
    BY <2>1, <2>2 DEF Sendings
  <2>4. Post(e) /\ UNCHANGED <<job, out, torn>>
    BY <1>1, <2>3 DEF Log
  <2>5. e \in Entries /\ e.id = Len(sent) + 1 /\ e.lg = lg
    BY <2>1 DEF Entry, Entries
  <2> HIDE DEF e
  <2>6. Refused(e) \/ Enqueued(e) \/ PushedOut(e)
    BY <2>4, <2>5, PostFacts DEF MsgInv, MsgType
  <2>7. sent'[e.id].lg = e.lg /\ sent'[e.id].async
    BY <2>3, <2>5
  <2>8. Fresh(e)
    BY <2>3, <2>5, <2>7 DEF Fresh
  <2> QED BY <2>4, <2>5, <2>6, <2>8, PostMsg
<1>2. CASE logger[lg] # "async"
  <2>1. /\ sent' = Append(sent, [lg |-> lg, level |-> l, async |-> FALSE])
        /\ job[t] = {}
        /\ job' = [job EXCEPT ![t] = {Entry(lg, Len(sent'))}]
        /\ UNCHANGED <<queue, overrun, orphans, out, torn>>
    BY <1>2 DEF Log
  <2> QED BY <2>1, SyncMsg
<1> QED BY <1>1, <1>2

LEMMA MsgStep == MsgInv /\ [LogNext]_logVars => MsgInv'
<1> SUFFICES ASSUME MsgInv, [LogNext]_logVars PROVE MsgInv'
  OBVIOUS
<1>0. Users \subseteq Loggers /\ Inst \in Loggers BY DEF Loggers
<1>1. CASE FirstInstance \/ LogNull \/ CatchQtMsg
  BY <1>1, QuietMsg DEF FirstInstance, LogNull, CatchQtMsg, histVars
<1>2. CASE WorkerTakes
  BY <1>2, TakesMsg
<1>3. ASSUME NEW lg \in Users, NewSync(lg) \/ NewAsync(lg) \/ PoolReplaced(lg)
      PROVE  MsgInv'
  BY <1>3, QuietMsg DEF NewSync, NewAsync, PoolReplaced, histVars
<1>4. ASSUME NEW lg \in Users, DestroyLogger(lg) PROVE MsgInv'
  BY <1>0, <1>4, FlushMsg DEF DestroyLogger
<1>5. ASSUME NEW lg \in Loggers, NEW to, ChangeSinks(lg, to) PROVE MsgInv'
  <2>1. torn \subseteq torn' /\ UNCHANGED <<queue, job, sent, overrun, orphans, out>>
    BY <1>5 DEF ChangeSinks
  <2> QED BY <2>1, QuietMsg
<1>6. ASSUME NEW lg \in Loggers, Flush(lg) PROVE MsgInv'
  BY <1>6, FlushMsg DEF Flush
<1>7. ASSUME NEW lg \in Loggers, NEW l, SetLevel(lg, l) \/ FlushOn(lg, l) PROVE MsgInv'
  BY <1>7, QuietMsg DEF SetLevel, FlushOn, histVars
<1>8. ASSUME NEW t \in Threads, NEW lg \in Loggers, NEW l \in Levels, Log(t, lg, l) PROVE MsgInv'
  BY <1>8, LogMsg
<1>9. ASSUME NEW t \in Threads, NEW l \in Levels, QtMessage(t, l) PROVE MsgInv'
  BY <1>0, <1>9, LogMsg DEF QtMessage
<1>10. ASSUME NEW w \in Writers, Written(w) PROVE MsgInv'
  BY <1>10, WrittenMsg
<1>11. CASE UNCHANGED logVars
  BY <1>11, QuietMsg DEF logVars
<1> QED
  BY <1>1, <1>2, <1>3, <1>4, <1>5, <1>6, <1>7, <1>8, <1>9, <1>10, <1>11
     DEF LogNext, AddSink, RemoveSink, ClearSink

\* The one-place part of MessagesAccounted, as a count.
LEMMA OnePlaceCounts ==
    ASSUME MsgInv, NEW id \in 1 .. Len(sent), sent[id].lg \notin torn
    PROVE  \E here \in 1 .. 5 : Places(id) = [p \in 1 .. 5 |-> IF p = here THEN 1 ELSE 0]
<1> DEFINE A == {i \in DOMAIN out : out[i] = id}
           B == {e \in overrun : e.id = id}
           C == {e \in orphans : e.id = id}
           D == {i \in DOMAIN queue : queue[i].id = id}
           E == {w \in Writers : \E e \in job[w] : e.id = id}
<1>0. /\ Len(sent) \in Nat /\ DOMAIN queue = 1 .. Len(queue) /\ Len(queue) \in Nat
      /\ \A x \in overrun \cup orphans : x \in Entries
  BY MsgTypes
<1>1. \A x, y \in A : x = y
  BY DEF MsgInv, OutOnce
<1>2. \A x, y \in B \cup C : x = y
  <2> SUFFICES ASSUME NEW x \in B \cup C, NEW y \in B \cup C PROVE x = y
    OBVIOUS
  <2>1. x \in Entries /\ y \in Entries /\ x.id = id /\ y.id = id
    BY <1>0
  <2>2. x.lg = sent[id].lg /\ y.lg = sent[id].lg
    BY <1>0, <2>1 DEF MsgInv, AllKnown, Known
  <2> QED BY <2>1, <2>2 DEF Entries
<1>3. \A x, y \in D : x = y
  <2> SUFFICES ASSUME NEW x \in D, NEW y \in D, x < y PROVE FALSE
    BY <1>0
  <2> QED BY <1>0 DEF MsgInv, InOrder
<1>4. \A x, y \in E : x = y
  BY DEF MsgInv, OneWriter
<1>5. /\ A # {} <=> InOut(id)
      /\ B # {} <=> InOverrun(id)
      /\ C # {} <=> InOrphans(id)
      /\ D # {} <=> InQueue(id)
      /\ E # {} <=> InJob(id)
  BY DEF InOut, InOverrun, InOrphans, InQueue, InJob
<1>6. Places(id) = <<Cardinality(A), Cardinality(B), Cardinality(C), Cardinality(D), Cardinality(E)>>
  BY DEF Places
<1> HIDE DEF A, B, C, D, E
<1>7. ASSUME NEW S, \A x, y \in S : x = y
      PROVE  Cardinality(S) = IF S = {} THEN 0 ELSE 1
  <2>1. CASE S = {}
    BY <2>1, FS_EmptySet
  <2>2. CASE S # {}
    <3>1. PICK x : x \in S
      BY <2>2
    <3>2. S = {x}
      BY <3>1, <1>7
    <3> QED BY <3>2, FS_Singleton
  <2> QED BY <2>1, <2>2
<1>8. /\ Cardinality(A) = IF A = {} THEN 0 ELSE 1
      /\ Cardinality(B) = IF B = {} THEN 0 ELSE 1
      /\ Cardinality(C) = IF C = {} THEN 0 ELSE 1
      /\ Cardinality(D) = IF D = {} THEN 0 ELSE 1
      /\ Cardinality(E) = IF E = {} THEN 0 ELSE 1
  BY <1>1, <1>2, <1>3, <1>4, <1>7
<1>9. /\ A # {} => B = {} /\ C = {} /\ D = {} /\ E = {}
      /\ B # {} => C = {} /\ D = {} /\ E = {}
      /\ C # {} => D = {} /\ E = {}
      /\ D # {} => E = {}
      /\ A # {} \/ B # {} \/ C # {} \/ D # {} \/ E # {}
  BY <1>5 DEF MsgInv, Apart, NoneLost
<1> DEFINE Only(h) == [p \in 1 .. 5 |-> IF p = h THEN 1 ELSE 0]
<1>10. ASSUME NEW h \in 1 .. 5
       PROVE  Only(h) = <<IF h = 1 THEN 1 ELSE 0, IF h = 2 THEN 1 ELSE 0, IF h = 3 THEN 1 ELSE 0,
                          IF h = 4 THEN 1 ELSE 0, IF h = 5 THEN 1 ELSE 0>>
  OBVIOUS
<1>11. /\ Only(1) = <<1, 0, 0, 0, 0>> /\ Only(2) = <<0, 1, 0, 0, 0>> /\ Only(3) = <<0, 0, 1, 0, 0>>
       /\ Only(4) = <<0, 0, 0, 1, 0>> /\ Only(5) = <<0, 0, 0, 0, 1>>
  BY <1>10
<1> HIDE DEF Only
<1>12. \E h \in 1 .. 5 : Places(id) = Only(h)
  <2>1. CASE A # {}
    BY <2>1, <1>6, <1>8, <1>9, <1>11
  <2>2. CASE B # {}
    BY <2>2, <1>6, <1>8, <1>9, <1>11
  <2>3. CASE C # {}
    BY <2>3, <1>6, <1>8, <1>9, <1>11
  <2>4. CASE D # {}
    BY <2>4, <1>6, <1>8, <1>9, <1>11
  <2>5. CASE E # {}
    BY <2>5, <1>6, <1>8, <1>9, <1>11
  <2> QED BY <2>1, <2>2, <2>3, <2>4, <2>5, <1>9
<1> QED BY <1>12 DEF Only

\* No message gets lost between a call of trace() to critical() and the sinks
\* but by a full queue, a pool that was replaced, or sinks that changed under a
\* writer; none is written twice; and asynchronous messages keep the order of
\* their calls.
THEOREM MessagesKept == LogSpec => []MessagesAccounted
<1>1. MsgInv => MessagesAccounted
  <2> SUFFICES ASSUME MsgInv PROVE MessagesAccounted
    OBVIOUS
  <2>1. \A id \in 1 .. Len(sent) : sent[id].lg \notin torn =>
            \E here \in 1 .. 5 : Places(id) = [p \in 1 .. 5 |-> IF p = here THEN 1 ELSE 0]
    BY OnePlaceCounts
  <2>2. \A i, j \in DOMAIN out : i < j /\ sent[out[i]].async /\ sent[out[j]].async => out[i] < out[j]
    BY DEF MsgInv, OutInOrder
  <2>3. \A e \in overrun, f \in Queued : e.id > 0 /\ f.id > 0 => e.id < f.id
    BY DEF MsgInv, InOrder, Queued
  <2> QED BY <2>1, <2>2, <2>3 DEF MessagesAccounted
<1> QED
  BY <1>1, MsgInit, MsgStep, PTL DEF LogSpec
-----------------------------------------------------------------------------
(* Flushed when destroyed                                                   *)

States == {"none", "sync", "async", "building", "gone", "null"}

\* The worker's messages are of loggers that are or were asynchronous, a
\* thread's of one that is synchronous and not destroyed under it.
Stands ==
    /\ logger \in [Loggers -> States]
    /\ \A i \in DOMAIN queue : logger[queue[i].lg] \in {"async", "gone"}
    /\ \A e \in job[Worker] : logger[e.lg] \in {"async", "gone"}
    /\ \A t \in Threads : \A e \in job[t] : logger[e.lg] = "sync"

Dropped(lg) == Entry(lg, Final) \in overrun \cup orphans
Absent(lg) == /\ \A i \in DOMAIN queue : queue[i].lg # lg
              /\ \A w \in Writers : \A e \in job[w] : e.lg # lg
ToCome(lg) == \E i \in DOMAIN queue : /\ queue[i] = Entry(lg, Final)
                                      /\ \A j \in DOMAIN queue : i < j => queue[j].lg # lg

\* A destroyed logger's last flush was dropped, has been done, or is to come
\* as the last of its entries.
LastFlush ==
    \A lg \in Users : logger[lg] = "gone" =>
        Dropped(lg) \/ (lg \notin dirty /\ Absent(lg)) \/ ToCome(lg)

FlushInv == Stands /\ LastFlush

LEMMA FlushInit == LogInit => FlushInv
<1> SUFFICES ASSUME LogInit PROVE FlushInv
  OBVIOUS
<1>1. /\ logger = [lg \in Loggers |-> "none"] /\ DOMAIN queue = {}
      /\ \A w \in Writers : job[w] = {}
  BY DEF LogInit
<1>2. Stands
  BY <1>1 DEF Stands, Writers, States
<1>3. LastFlush
  BY <1>1 DEF LastFlush, Loggers
<1> QED BY <1>2, <1>3 DEF FlushInv

\* A step that leaves the entries alone, makes no logger dirty and changes only
\* loggers that have no entries, and none to "gone".
LEMMA QuietFlush ==
    ASSUME FlushInv, UNCHANGED <<queue, job, overrun, orphans>>, dirty' \subseteq dirty,
           logger' \in [Loggers -> States],
           \A lg \in Loggers : \/ logger'[lg] = logger[lg]
                               \/ logger[lg] \in {"none", "building"} /\ logger'[lg] # "gone",
           queue \in Seq(Entries), job \in [Writers -> SUBSET Entries]
    PROVE  FlushInv'
<1>1. \A i \in DOMAIN queue : queue[i].lg \in Loggers
  <2>1. \A i \in DOMAIN queue : queue[i] \in Entries
    OBVIOUS
  <2> QED BY <2>1 DEF Entries
<1>2. \A w \in Writers : \A e \in job[w] : e.lg \in Loggers
  BY DEF Entries
<1>3. Stands'
  BY <1>1, <1>2 DEF FlushInv, Stands, Writers
<1>4. \A lg \in Users : /\ Dropped(lg)' <=> Dropped(lg)
                        /\ Absent(lg)' <=> Absent(lg)
                        /\ ToCome(lg)' <=> ToCome(lg)
  BY DEF Dropped, Absent, ToCome
<1>5. LastFlush'
  BY <1>4 DEF FlushInv, LastFlush, Loggers
<1> QED BY <1>3, <1>5 DEF FlushInv

\* An asynchronous logger posts; the last entry it posts is its destructor's.
LEMMA PostFlush ==
    ASSUME MsgInv, FlushInv, NEW lg \in Loggers, NEW e \in Entries, e.lg = lg,
           Refused(e) \/ Enqueued(e) \/ PushedOut(e),
           logger[lg] = "async",
           logger' = logger \/ (logger' = [logger EXCEPT ![lg] = "gone"] /\ e = Entry(lg, Final)),
           UNCHANGED <<job, dirty>>
    PROVE  FlushInv'
<1> DEFINE m == Len(queue)
<1>1. /\ m \in Nat /\ DOMAIN queue = 1 .. m
      /\ \A i \in 1 .. m : queue[i] \in Entries /\ queue[i].lg \in Loggers
      /\ \A w \in Writers : \A x \in job[w] : x \in Entries /\ x.lg \in Loggers
  BY MsgTypes DEF Entries
<1>2. DOMAIN queue' = 1 .. Len(queue') /\ Len(queue') \in Nat
  <2>1. queue' \in Seq(Entries)
    BY DEF Refused, Enqueued, PushedOut, MsgInv, MsgType
  <2> QED BY <2>1
<1>3. /\ logger' \in [Loggers -> States]
      /\ \A x \in Loggers : x # lg => logger'[x] = logger[x]
      /\ logger'[lg] \in {"async", "gone"}
  <2>1. logger \in [Loggers -> States] /\ "gone" \in States
    BY DEF FlushInv, Stands, States
  <2> QED BY <2>1
<1>4. \A i \in DOMAIN queue' :
          queue'[i] = e \/ \E j \in DOMAIN queue : queue'[i] = queue[j]
  <2>1. CASE Refused(e)
    BY <2>1 DEF Refused
  <2>2. CASE Enqueued(e)
    BY <2>2, <1>1, <1>2 DEF Enqueued
  <2>3. CASE PushedOut(e)
    <3>1. \A i \in 1 .. m : i = m \/ (i \in 1 .. m - 1 /\ i + 1 \in 1 .. m)
      BY <1>1, Positions
    <3> QED BY <2>3, <3>1, <1>1, <1>2 DEF PushedOut
  <2> QED BY <2>1, <2>2, <2>3
<1>5. Stands'
  <2>1. \A i \in DOMAIN queue' : logger'[queue'[i].lg] \in {"async", "gone"}
    <3> SUFFICES ASSUME NEW i \in DOMAIN queue' PROVE logger'[queue'[i].lg] \in {"async", "gone"}
      OBVIOUS
    <3>1. CASE queue'[i].lg = lg
      BY <3>1, <1>3
    <3>2. CASE queue'[i].lg # lg
      <4>1. PICK j \in DOMAIN queue : queue'[i] = queue[j]
        BY <3>2, <1>4
      <4> QED BY <3>2, <4>1, <1>1, <1>3 DEF FlushInv, Stands
    <3> QED BY <3>1, <3>2
  <2>2. \A x \in job'[Worker] : logger'[x.lg] \in {"async", "gone"}
    BY <1>1, <1>3 DEF FlushInv, Stands, Writers
  <2>3. \A t \in Threads : \A x \in job'[t] : logger'[x.lg] = "sync"
    BY <1>1, <1>3 DEF FlushInv, Stands, Writers
  <2> QED BY <1>3, <2>1, <2>2, <2>3 DEF Stands
<1>6. ASSUME NEW x \in Users, x # lg, Absent(x) PROVE Absent(x)'
  BY <1>4, <1>6 DEF Absent
<1>7. \A x : Dropped(x) => Dropped(x)'
  BY DEF Dropped, Refused, Enqueued, PushedOut
<1>8. ASSUME NEW x \in Users, x # lg, ToCome(x) PROVE ToCome(x)' \/ Dropped(x)'
  <2>1. PICK i \in 1 .. m : queue[i] = Entry(x, Final) /\ \A j \in 1 .. m : i < j => queue[j].lg # x
    BY <1>1, <1>8 DEF ToCome
  <2>2. CASE Refused(e)
    BY <2>2, <1>8 DEF Refused, ToCome
  <2>3. CASE Enqueued(e)
    <3>1. i \in DOMAIN queue' /\ queue'[i] = Entry(x, Final)
      BY <2>1, <2>3, <1>1, <1>2 DEF Enqueued
    <3>2. ASSUME NEW j \in DOMAIN queue', i < j PROVE queue'[j].lg # x
      <4>1. j = m + 1 \/ j \in 1 .. m
        BY <2>3, <1>1, <1>2 DEF Enqueued
      <4> QED BY <4>1, <3>2, <2>1, <2>3, <1>8 DEF Enqueued
    <3> QED BY <3>1, <3>2 DEF ToCome
  <2>4. CASE PushedOut(e) /\ i = 1
    BY <2>1, <2>4 DEF PushedOut, Dropped
  <2>5. CASE PushedOut(e) /\ i # 1
    <3>1. i - 1 \in 1 .. m - 1 /\ (i - 1) + 1 = i /\ i - 1 \in DOMAIN queue'
      BY <2>5, <1>1, <1>2 DEF PushedOut
    <3>2. queue'[i - 1] = Entry(x, Final)
      BY <2>1, <2>5, <3>1 DEF PushedOut
    <3>3. ASSUME NEW j \in DOMAIN queue', i - 1 < j PROVE queue'[j].lg # x
      <4>1. j = m \/ (j \in 1 .. m - 1 /\ j + 1 \in 1 .. m /\ i < j + 1)
        BY <2>5, <3>3, <1>1, <1>2 DEF PushedOut
      <4> QED BY <4>1, <2>1, <2>5, <1>8 DEF PushedOut
    <3> QED BY <3>1, <3>2, <3>3 DEF ToCome
  <2> QED BY <2>2, <2>3, <2>4, <2>5
<1>9. ASSUME e = Entry(lg, Final) PROVE ToCome(lg)' \/ Dropped(lg)'
  <2>1. CASE Refused(e)
    BY <1>9, <2>1 DEF Refused, Dropped
  <2>2. CASE Enqueued(e)
    <3>1. m + 1 \in DOMAIN queue' /\ queue'[m + 1] = e /\ \A j \in DOMAIN queue' : ~ (m + 1 < j)
      BY <2>2, <1>1, <1>2 DEF Enqueued
    <3> QED BY <1>9, <3>1 DEF ToCome
  <2>3. CASE PushedOut(e)
    <3>1. m \in DOMAIN queue' /\ queue'[m] = e /\ \A j \in DOMAIN queue' : ~ (m < j)
      BY <2>3, <1>1, <1>2 DEF PushedOut
    <3> QED BY <1>9, <3>1 DEF ToCome
  <2> QED BY <2>1, <2>2, <2>3
<1>10. LastFlush'
  <2> SUFFICES ASSUME NEW x \in Users, logger'[x] = "gone"
               PROVE  Dropped(x)' \/ (x \notin dirty' /\ Absent(x)') \/ ToCome(x)'
    BY DEF LastFlush
  <2>1. CASE x = lg
    <3>1. e = Entry(lg, Final)
      BY <2>1
    <3> QED BY <2>1, <3>1, <1>9
  <2>2. CASE x # lg
    <3>1. logger[x] = "gone"
      BY <2>2, <1>3 DEF Loggers
    <3>2. Dropped(x) \/ (x \notin dirty /\ Absent(x)) \/ ToCome(x)
      BY <3>1 DEF FlushInv, LastFlush
    <3> QED BY <2>2, <3>2, <1>6, <1>7, <1>8
  <2> QED BY <2>1, <2>2
<1> QED BY <1>5, <1>10 DEF FlushInv
\* A synchronous logger is destroyed: it has flushed, and has no entries.
LEMMA SyncGone ==
    ASSUME MsgInv, FlushInv, NEW lg \in Users, logger[lg] = "sync",
           \A t \in Threads : \A e \in job[t] : e.lg # lg,
           logger' = [logger EXCEPT ![lg] = "gone"], dirty' = dirty \ {lg},
           UNCHANGED <<queue, job, overrun, orphans>>
    PROVE  FlushInv'
<1>1. /\ \A i \in DOMAIN queue : queue[i].lg \in Loggers
      /\ \A w \in Writers : \A x \in job[w] : x.lg \in Loggers
  BY MsgTypes DEF Entries
<1>2. /\ logger' \in [Loggers -> States] /\ logger'[lg] = "gone"
      /\ \A x \in Loggers : x # lg => logger'[x] = logger[x]
  <2>1. logger \in [Loggers -> States] /\ "gone" \in States /\ lg \in Loggers
    BY DEF FlushInv, Stands, States, Loggers
  <2> QED BY <2>1
<1>3. Stands'
  BY <1>1, <1>2 DEF FlushInv, Stands, Writers
<1>4. Absent(lg)'
  BY DEF FlushInv, Stands, Absent, Writers
<1>5. \A x \in Users : /\ Dropped(x)' <=> Dropped(x)
                       /\ Absent(x)' <=> Absent(x)
                       /\ ToCome(x)' <=> ToCome(x)
  BY DEF Dropped, Absent, ToCome
<1>6. LastFlush'
  BY <1>2, <1>4, <1>5 DEF FlushInv, LastFlush, Loggers
<1> QED BY <1>3, <1>6 DEF FlushInv

\* A synchronous logger's message enters a thread.
LEMMA SyncFlush ==
    ASSUME MsgInv, FlushInv, NEW t \in Threads, NEW e \in Entries, logger[e.lg] = "sync",
           job' = [job EXCEPT ![t] = {e}],
           UNCHANGED <<logger, queue, overrun, orphans, dirty>>
    PROVE  FlushInv'
<1>1. t \in Writers /\ t # Worker /\ Worker \in Writers /\ Threads \subseteq Writers
  BY ActorsAssumption DEF Writers
<1>2. job'[t] = {e} /\ \A w \in Writers \ {t} : job'[w] = job[w]
  BY <1>1 DEF MsgInv, MsgType
<1>3. Stands'
  BY <1>1, <1>2 DEF FlushInv, Stands
<1>4. ASSUME NEW x \in Users, logger[x] = "gone", Absent(x) PROVE Absent(x)'
  <2>1. e.lg # x BY <1>4
  <2> QED BY <1>2, <1>4, <2>1 DEF Absent
<1>5. \A x \in Users : (Dropped(x)' <=> Dropped(x)) /\ (ToCome(x)' <=> ToCome(x))
  BY DEF Dropped, ToCome
<1>6. LastFlush'
  BY <1>4, <1>5 DEF FlushInv, LastFlush
<1> QED BY <1>3, <1>6 DEF FlushInv

LEMMA TakesFlush ==
    ASSUME MsgInv, FlushInv, WorkerTakes
    PROVE  FlushInv'
<1> DEFINE m == Len(queue)
           e == queue[1]
<1>1. /\ m \in Nat /\ DOMAIN queue = 1 .. m
      /\ \A i \in 1 .. m : queue[i] \in Entries /\ queue[i].id \in Int
  BY MsgTypes
<1>2. /\ queue # <<>> /\ queue' = Tail(queue) /\ job[Worker] = {}
      /\ UNCHANGED <<logger, overrun, orphans>>
  BY DEF WorkerTakes, histVars
<1>3. /\ m > 0 /\ Head(queue) = e /\ e \in Entries
      /\ queue' \in Seq(Entries)
      /\ Len(queue') = m - 1
      /\ \A i \in 1 .. m - 1 : queue'[i] = queue[i + 1]
  BY <1>2, TakeFacts DEF MsgInv, MsgType
<1>4. IF e.id =< 0 THEN job' = job /\ dirty' = dirty \ {e.lg}
      ELSE job' = [job EXCEPT ![Worker] = {e}] /\ dirty' = dirty
  BY <1>3 DEF WorkerTakes
<1> HIDE DEF e
<1>5. DOMAIN queue' = 1 .. m - 1 /\ 1 \in 1 .. m /\ e = queue[1]
  BY <1>1, <1>3 DEF e
<1>6. \A i \in 1 .. m - 1 : i + 1 \in 1 .. m /\ 1 < i + 1
  BY <1>1
<1>7. Worker \in Writers /\ Threads \subseteq Writers /\ Worker \notin Threads
      /\ \A w \in Writers : w # Worker => w \in Threads
  BY ActorsAssumption DEF Writers
<1>8. /\ job'[Worker] = IF e.id =< 0 THEN {} ELSE {e}
      /\ \A w \in Writers \ {Worker} : job'[w] = job[w]
  BY <1>2, <1>4, <1>7 DEF MsgInv, MsgType
<1>9. \A i \in DOMAIN queue' : i + 1 \in DOMAIN queue /\ queue'[i] = queue[i + 1]
  BY <1>1, <1>3, <1>5, <1>6
<1>10. Stands'
  <2>1. \A i \in DOMAIN queue' : logger[queue'[i].lg] \in {"async", "gone"}
    BY <1>9 DEF FlushInv, Stands
  <2>2. \A x \in job'[Worker] : logger[x.lg] \in {"async", "gone"}
    BY <1>1, <1>5, <1>8 DEF FlushInv, Stands
  <2>3. \A t \in Threads : \A x \in job'[t] : logger[x.lg] = "sync"
    BY <1>7, <1>8 DEF FlushInv, Stands
  <2> QED BY <1>2, <2>1, <2>2, <2>3 DEF FlushInv, Stands
<1>11. ASSUME NEW x \in Users, Absent(x) PROVE Absent(x)'
  <2>1. e.lg # x BY <1>1, <1>5, <1>11 DEF Absent
  <2>2. \A i \in DOMAIN queue' : queue'[i].lg # x
    BY <1>9, <1>11 DEF Absent
  <2>3. \A w \in Writers : \A y \in job'[w] : y.lg # x
    BY <1>8, <1>11, <2>1 DEF Absent
  <2> QED BY <2>2, <2>3 DEF Absent
<1>12. ASSUME NEW x \in Users, logger[x] = "gone", ToCome(x)
       PROVE  ToCome(x)' \/ (x \notin dirty' /\ Absent(x)')
  <2>1. PICK i \in 1 .. m : queue[i] = Entry(x, Final) /\ \A j \in 1 .. m : i < j => queue[j].lg # x
    BY <1>1, <1>12 DEF ToCome
  <2>2. CASE i = 1
    <3>1. e.lg = x /\ e.id =< 0
      BY <2>1, <2>2, <1>5 DEF Entry, Final
    <3>2. x \notin dirty' /\ job'[Worker] = {}
      BY <3>1, <1>4, <1>8
    <3>3. \A j \in DOMAIN queue' : queue'[j].lg # x
      BY <2>1, <2>2, <1>5, <1>6, <1>9
    <3>4. \A w \in Writers : \A y \in job'[w] : y.lg # x
      BY <3>2, <1>7, <1>8, <1>12 DEF FlushInv, Stands
    <3> QED BY <3>2, <3>3, <3>4 DEF Absent
  <2>3. CASE i # 1
    <3>1. i - 1 \in 1 .. m - 1 /\ (i - 1) + 1 = i
      BY <2>3, <1>1
    <3>2. queue'[i - 1] = Entry(x, Final) /\ i - 1 \in DOMAIN queue'
      BY <2>1, <3>1, <1>5, <1>9
    <3>3. ASSUME NEW j \in DOMAIN queue', i - 1 < j PROVE queue'[j].lg # x
      <4>1. j + 1 \in 1 .. m /\ i < j + 1
        BY <3>3, <1>1, <1>5
      <4> QED BY <4>1, <2>1, <1>9
    <3> QED BY <3>2, <3>3 DEF ToCome
  <2> QED BY <2>2, <2>3
<1>13. dirty' \subseteq dirty
  BY <1>4
<1>14. \A x \in Users : Dropped(x) => Dropped(x)'
  BY <1>2 DEF Dropped
<1>15. LastFlush'
  BY <1>2, <1>11, <1>12, <1>13, <1>14 DEF FlushInv, LastFlush
<1> QED BY <1>10, <1>15 DEF FlushInv

LEMMA WrittenFlush ==
    ASSUME MsgInv, FlushInv, NEW w \in Writers, Written(w)
    PROVE  FlushInv'
<1>1. PICK e \in job[w] :
          /\ job' = [job EXCEPT ![w] = {}]
          /\ dirty' \subseteq dirty \cup {e.lg}
          /\ UNCHANGED <<logger, queue, overrun, orphans>>
  BY DEF Written, histVars
<1>2. \A v \in Writers : job'[v] \subseteq job[v]
  BY <1>1 DEF MsgInv, MsgType
<1>3. Stands'
  BY <1>1, <1>2 DEF FlushInv, Stands, Writers
<1>4. ASSUME NEW x \in Users, Absent(x), x \notin dirty PROVE Absent(x)' /\ x \notin dirty'
  BY <1>1, <1>2, <1>4 DEF Absent
<1>5. \A x \in Users : (Dropped(x)' <=> Dropped(x)) /\ (ToCome(x)' <=> ToCome(x))
  BY <1>1 DEF Dropped, ToCome
<1>6. LastFlush'
  BY <1>1, <1>4, <1>5 DEF FlushInv, LastFlush
<1> QED BY <1>3, <1>6 DEF FlushInv

LEMMA FlushStep == MsgInv /\ FlushInv /\ [LogNext]_logVars => FlushInv'
<1> SUFFICES ASSUME MsgInv, FlushInv, [LogNext]_logVars PROVE FlushInv'
  OBVIOUS
<1>0. /\ Users \subseteq Loggers /\ Inst \in Loggers /\ Inst \notin Users
      /\ queue \in Seq(Entries) /\ job \in [Writers -> SUBSET Entries]
      /\ logger \in [Loggers -> States]
  BY ActorsAssumption DEF Loggers, MsgInv, MsgType, FlushInv, Stands
<1>1. ASSUME UNCHANGED <<logger, queue, job, overrun, orphans, dirty>> PROVE FlushInv'
  BY <1>0, <1>1, QuietFlush
<1>2. ASSUME NEW lg \in Loggers, NEW s \in {"sync", "null", "building", "async"},
             logger[lg] \in {"none", "building"}, logger' = [logger EXCEPT ![lg] = s],
             UNCHANGED <<queue, job, overrun, orphans, dirty>>
      PROVE  FlushInv'
  <2>1. logger' \in [Loggers -> States] /\ logger'[lg] = s
        /\ \A x \in Loggers : x # lg => logger'[x] = logger[x]
    BY <1>0, <1>2 DEF States
  <2> QED BY <1>0, <1>2, <2>1, QuietFlush
<1>3. CASE FirstInstance
  BY <1>0, <1>2, <1>3 DEF FirstInstance, histVars
<1>4. ASSUME NEW lg \in Users, NewSync(lg) \/ NewAsync(lg) \/ PoolReplaced(lg)
      PROVE  FlushInv'
  BY <1>0, <1>2, <1>4 DEF NewSync, NewAsync, PoolReplaced, histVars
<1>5. ASSUME NEW lg \in Users, DestroyLogger(lg) PROVE FlushInv'
  <2>1. /\ logger[lg] \in {"sync", "async"} /\ FlushBase(lg, Final)
        /\ logger' = [logger EXCEPT ![lg] = "gone"] /\ job' = job
        /\ \A t \in Threads : \A e \in job[t] : e.lg # lg
    BY <1>5 DEF DestroyLogger, Usable
  <2>2. CASE logger[lg] = "async"
    <3> DEFINE e == Entry(lg, Final)
    <3>1. e \in Entries /\ e.lg = lg /\ Post(e) /\ dirty' = dirty
      BY <1>0, <2>1, <2>2 DEF FlushBase, Entry, Entries, Final
    <3>2. Refused(e) \/ Enqueued(e) \/ PushedOut(e)
      BY <1>0, <3>1, PostFacts
    <3> QED BY <1>0, <2>1, <2>2, <3>1, <3>2, PostFlush
  <2>3. CASE logger[lg] = "sync"
    BY <2>1, <2>3, SyncGone DEF FlushBase
  <2> QED BY <2>1, <2>2, <2>3
<1>6. ASSUME NEW lg \in Loggers, Flush(lg) PROVE FlushInv'
  <2>1. logger[lg] \in {"sync", "async"} /\ FlushBase(lg, 0) /\ logger' = logger /\ job' = job
    BY <1>6 DEF Flush, Tune, Usable
  <2>2. CASE logger[lg] = "async"
    <3> DEFINE e == Entry(lg, 0)
    <3>1. e \in Entries /\ e.lg = lg /\ Post(e) /\ dirty' = dirty
      BY <2>1, <2>2 DEF FlushBase, Entry, Entries
    <3> HIDE DEF e
    <3>2. Refused(e) \/ Enqueued(e) \/ PushedOut(e)
      BY <1>0, <3>1, PostFacts
    <3> QED BY <2>1, <2>2, <3>1, <3>2, PostFlush
  <2>3. CASE logger[lg] = "sync"
    <3>1. dirty' \subseteq dirty /\ UNCHANGED <<queue, overrun, orphans>>
      BY <2>1, <2>3 DEF FlushBase
    <3> QED BY <1>0, <2>1, <3>1, QuietFlush
  <2> QED BY <2>1, <2>2, <2>3
<1>7. ASSUME NEW t \in Threads, NEW lg \in Loggers, NEW l \in Levels, Log(t, lg, l)
      PROVE  FlushInv'
  <2> DEFINE e == Entry(lg, Len(sent'))
  <2>1. e \in Entries /\ e.lg = lg
    <3>1. sent' \in Seq(Sendings)
      BY <1>7, LogMsg DEF MsgInv, MsgType
    <3>2. Len(sent') \in Int BY <3>1
    <3> QED BY <3>2 DEF Entry, Entries
  <2>2. /\ logger[lg] \in {"sync", "async"} /\ UNCHANGED <<logger, dirty>>
        /\ logger[lg] = "async" => Post(e) /\ job' = job
        /\ logger[lg] # "async" => job' = [job EXCEPT ![t] = {e}] /\ UNCHANGED <<queue, overrun, orphans>>
    BY <1>7 DEF Log, Usable
  <2> HIDE DEF e
  <2>3. CASE logger[lg] = "async"
    <3>1. Refused(e) \/ Enqueued(e) \/ PushedOut(e)
      BY <1>0, <2>1, <2>2, <2>3, PostFacts
    <3> QED BY <2>1, <2>2, <2>3, <3>1, PostFlush
  <2>4. CASE logger[lg] = "sync"
    BY <2>1, <2>2, <2>4, SyncFlush
  <2> QED BY <2>2, <2>3, <2>4
<1>8. ASSUME NEW t \in Threads, NEW l \in Levels, QtMessage(t, l) PROVE FlushInv'
  BY <1>0, <1>7, <1>8 DEF QtMessage
<1>9. ASSUME NEW w \in Writers, Written(w) PROVE FlushInv'
  BY <1>9, WrittenFlush
<1>10. CASE WorkerTakes
  BY <1>10, TakesFlush
<1>11. CASE LogNull \/ CatchQtMsg \/ UNCHANGED logVars
  BY <1>1, <1>11 DEF LogNull, CatchQtMsg, histVars, logVars
<1>12. ASSUME NEW lg \in Loggers, NEW to, ChangeSinks(lg, to) PROVE FlushInv'
  BY <1>1, <1>12 DEF ChangeSinks
<1>13. ASSUME NEW lg \in Loggers, NEW l, SetLevel(lg, l) \/ FlushOn(lg, l) PROVE FlushInv'
  BY <1>1, <1>13 DEF SetLevel, FlushOn, histVars
<1> QED
  BY <1>3, <1>4, <1>5, <1>6, <1>7, <1>8, <1>9, <1>10, <1>11, <1>12, <1>13
     DEF LogNext, AddSink, RemoveSink, ClearSink

\* The flush of ~Logger() does its work, though the destructor does not wait for
\* it: once the pool is through with a destroyed logger, nothing it wrote is
\* left unflushed, unless the flush itself was dropped or refused.
THEOREM DestroyedIsFlushed == LogSpec => []GoneIsFlushed
<1>1. FlushInv => GoneIsFlushed
  <2> SUFFICES ASSUME FlushInv, NEW lg \in Users, logger[lg] = "gone",
                      \A e \in Queued \cup Writing : e.lg # lg,
                      Entry(lg, Final) \notin overrun \cup orphans
               PROVE  lg \notin dirty
    BY DEF GoneIsFlushed
  <2>1. ~ Dropped(lg)
    BY DEF Dropped
  <2>2. ~ ToCome(lg)
    BY DEF ToCome, Queued, Entry
  <2> QED BY <2>1, <2>2 DEF FlushInv, LastFlush
<1>2. MsgInv /\ FlushInv /\ [LogNext]_logVars => MsgInv' /\ FlushInv'
  BY MsgStep, FlushStep
<1> QED
  BY <1>1, <1>2, MsgInit, FlushInit, PTL DEF LogSpec
=============================================================================
