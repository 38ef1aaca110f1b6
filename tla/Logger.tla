------------------------------- MODULE Logger -------------------------------
(***************************************************************************)
(* Logger (libqt/log/logger.h): a wrapper of spdlog.  A synchronous logger  *)
(* writes in the caller's thread; an asynchronous one posts to a queue of   *)
(* the process-wide thread pool, which every asynchronous constructor       *)
(* replaces.  spdlog (external) is modelled from how Logger uses it: a full *)
(* queue drops its oldest entry (overrun_oldest), a pool that is replaced   *)
(* writes what it has before its thread ends, and a logger whose pool is    *)
(* gone cannot post any more.                                               *)
(*                                                                          *)
(* Messages are numbered by the call that passed the level; 0 is a flush,   *)
(* and Final the one of the destructor.                                     *)
(* Writing goes through the vector of sinks, begin to end; addSink and its  *)
(* kind change that vector in one step (m_lock), which the writers do not   *)
(* respect: a logger whose vector changed under a writer is torn, and what  *)
(* its writers do then is undefined.                                        *)
(***************************************************************************)
EXTENDS Integers, Sequences, FiniteSets

CONSTANTS
    Threads,         \* threads of the program
    Users,           \* Logger objects that clients construct
    Inst,            \* the object behind Logger::instance()
    Worker,          \* the thread of the pool (LOG_THREAD_NUM is 1)
    Sinks,
    QueueSize,       \* LOG_QUEUE_SIZE
    MaxMsgs,         \* bound: messages that pass the level
    MaxTuning        \* bound: calls other than logging and construction

ASSUME QueueSizePositive == QueueSize \in Nat \ {0}
ASSUME ActorsAssumption == Worker \notin Threads /\ Inst \notin Users

Loggers == Users \cup {Inst}
Writers == Threads \cup {Worker}
Levels  == {0, 1}    \* LOG_LVL_TRACE and all others
Never   == 2         \* level::off, no flush

VARIABLES
    logger,          \* each: "none", "sync", "async", "building", "gone", "null" (m_base)
    sinks,           \* m_base->sinks()
    level, flushLevel,
    tuned,           \* calls other than logging and construction
    default,         \* spdlog::default_logger() is not null
    caught,          \* catchQtMsg() was called
    pooled,          \* the logger whose constructor made the current pool, or {}
    queue,           \* of the current pool, or of the one being replaced
    job,             \* what each writer is writing: a set of at most one entry
    sent,            \* history: logger and level of each message
    overrun,         \* history: entries dropped from a full queue
    orphans,         \* history: entries whose logger has no pool
    out,             \* history: messages written, in order
    dirty,           \* history: loggers with messages written and not flushed
    torn,            \* history: loggers whose sinks changed under a writer
    fault            \* a call went through a null m_base

logVars == <<logger, sinks, level, flushLevel, tuned, default, caught, pooled, queue,
             job, sent, overrun, orphans, out, dirty, torn, fault>>
confVars == <<level, flushLevel, tuned>>
histVars == <<overrun, orphans, torn, fault>>

Entry(lg, id) == [lg |-> lg, id |-> id]
Final == -1

LogInit ==
    /\ logger = [lg \in Loggers |-> "none"]
    /\ sinks = [lg \in Loggers |-> <<>>]
    /\ level = [lg \in Loggers |-> 0]
    /\ flushLevel = [lg \in Loggers |-> Never]
    /\ tuned = 0
    /\ default = TRUE
    /\ caught = FALSE
    /\ pooled = {}
    /\ queue = <<>>
    /\ job = [w \in Writers |-> {}]
    /\ sent = <<>>
    /\ overrun = {} /\ orphans = {}
    /\ out = <<>>
    /\ dirty = {} /\ torn = {}
    /\ fault = FALSE

-----------------------------------------------------------------------------
(* Construction and destruction                                             *)

\* instance(), the first time: the default logger writes to stdout, if there
\* still is one.
FirstInstance ==
    /\ logger[Inst] = "none"
    /\ logger' = [logger EXCEPT ![Inst] = IF default THEN "sync" ELSE "null"]
    /\ \E s \in Sinks : sinks' = [sinks EXCEPT ![Inst] = IF default THEN <<s>> ELSE <<>>]
    /\ UNCHANGED <<confVars, default, caught, pooled, queue, job, sent, out, dirty, histVars>>

NewSync(lg) ==
    /\ logger[lg] = "none"
    /\ logger' = [logger EXCEPT ![lg] = "sync"]
    /\ UNCHANGED <<sinks, confVars, default, caught, pooled, queue, job, sent, out, dirty, histVars>>

\* init_thread_pool() takes the pool from the loggers that have one ...
NewAsync(lg) ==
    /\ logger[lg] = "none"
    /\ \A other \in Users : logger[other] # "building"
    /\ logger' = [logger EXCEPT ![lg] = "building"]
    /\ pooled' = {}
    /\ UNCHANGED <<sinks, confVars, default, caught, queue, job, sent, out, dirty, histVars>>

\* Mutants of PoolReplaced: the old pool's queue is thrown away; the old pool
\* waits for its loggers.
PoolReplacedAtOnce(lg) ==
    /\ logger[lg] = "building"
    /\ queue' = <<>>
    /\ logger' = [logger EXCEPT ![lg] = "async"]
    /\ pooled' = {lg}
    /\ UNCHANGED <<sinks, confVars, default, caught, job, sent, out, dirty, histVars>>

PoolReplacedWhenFree(lg) ==
    /\ logger[lg] = "building"
    /\ queue = <<>> /\ job[Worker] = {}
    /\ \A other \in Users : logger[other] # "async"
    /\ logger' = [logger EXCEPT ![lg] = "async"]
    /\ pooled' = {lg}
    /\ UNCHANGED <<sinks, confVars, default, caught, queue, job, sent, out, dirty, histVars>>

\* ... and returns when the old thread has written everything.
PoolReplaced(lg) ==
    /\ logger[lg] = "building"
    /\ queue = <<>> /\ job[Worker] = {}
    /\ logger' = [logger EXCEPT ![lg] = "async"]
    /\ pooled' = {lg}
    /\ UNCHANGED <<sinks, confVars, default, caught, queue, job, sent, out, dirty, histVars>>

\* async_logger: post to the pool, dropping its oldest entry if it is full, or
\* fail if the pool is gone (spdlog reports that on stderr).
Post(e) ==
    IF e.lg \notin pooled
    THEN orphans' = orphans \cup {e} /\ UNCHANGED <<queue, overrun>>
    ELSE IF Len(queue) < QueueSize
         THEN queue' = Append(queue, e) /\ UNCHANGED <<overrun, orphans>>
         ELSE /\ queue' = Append(Tail(queue), e)
              /\ overrun' = overrun \cup {Head(queue)}
              /\ UNCHANGED orphans

\* logger::flush(): at once, or as an entry of the queue.
FlushBase(lg, id) ==
    IF logger[lg] = "async" THEN Post(Entry(lg, id)) /\ UNCHANGED dirty
    ELSE dirty' = dirty \ {lg} /\ UNCHANGED <<queue, overrun, orphans>>

Usable(lg) == logger[lg] \in {"sync", "async"}

Counted == tuned < MaxTuning /\ tuned' = tuned + 1

Tune(lg) == Usable(lg) /\ Counted

Flush(lg) ==
    /\ Tune(lg)
    /\ FlushBase(lg, 0)
    /\ UNCHANGED <<logger, sinks, level, flushLevel, default, caught, pooled, job, sent, out,
                   torn, fault>>

\* Mutant of DestroyLogger: the destructor does not flush.
DestroyUnflushed(lg) ==
    /\ Usable(lg) /\ \A t \in Threads : \A e \in job[t] : e.lg # lg
    /\ default' = FALSE
    /\ logger' = [logger EXCEPT ![lg] = "gone"]
    /\ UNCHANGED <<sinks, confVars, caught, pooled, queue, job, sent, out, dirty, histVars>>

\* ~Logger(): flush(), and drop_all() takes the default logger from spdlog.
\* Entries in the queue keep their logger alive.
DestroyLogger(lg) ==
    /\ Usable(lg) /\ \A t \in Threads : \A e \in job[t] : e.lg # lg
    /\ FlushBase(lg, Final)
    /\ default' = FALSE
    /\ logger' = [logger EXCEPT ![lg] = "gone"]
    /\ UNCHANGED <<sinks, confVars, caught, pooled, job, sent, out, torn, fault>>

-----------------------------------------------------------------------------
(* Sinks and levels                                                         *)

ChangeSinks(lg, to) ==
    /\ Tune(lg) /\ to # sinks[lg]
    /\ sinks' = [sinks EXCEPT ![lg] = to]
    /\ torn' = IF \E w \in Writers : \E e \in job[w] : e.lg = lg THEN torn \cup {lg} ELSE torn
    /\ UNCHANGED <<logger, level, flushLevel, default, caught, pooled, queue, job, sent, overrun,
                   orphans, out, dirty, fault>>

AddSink(lg, s)    == ChangeSinks(lg, Append(sinks[lg], s))
RemoveSink(lg, s) == ChangeSinks(lg, SelectSeq(sinks[lg], LAMBDA x : x # s))
ClearSink(lg)     == ChangeSinks(lg, <<>>)

\* setLevel() and flushOn() store one member.
SetLevel(lg, l) ==
    /\ Tune(lg) /\ l # level[lg]
    /\ level' = [level EXCEPT ![lg] = l]
    /\ UNCHANGED <<logger, sinks, flushLevel, default, caught, pooled, queue, job, sent, out,
                   dirty, histVars>>

FlushOn(lg, l) ==
    /\ Tune(lg)
    /\ flushLevel' = [flushLevel EXCEPT ![lg] = l]
    /\ UNCHANGED <<logger, sinks, level, default, caught, pooled, queue, job, sent, out,
                   dirty, histVars>>

-----------------------------------------------------------------------------
(* Logging                                                                  *)

\* trace() to critical(): thread t begins to write, or posts.
Log(t, lg, l) ==
    /\ Usable(lg) /\ job[t] = {}
    /\ Len(sent) < MaxMsgs
    /\ l >= level[lg]
    /\ l = 0 => flushLevel[lg] # Never    \* bound: trace messages where they make a difference
    /\ sent' = Append(sent, [lg |-> lg, level |-> l, async |-> logger[lg] = "async"])
    /\ IF logger[lg] = "async"
       THEN Post(Entry(lg, Len(sent'))) /\ UNCHANGED job
       ELSE job' = [job EXCEPT ![t] = {Entry(lg, Len(sent'))}] /\ UNCHANGED <<queue, overrun, orphans>>
    /\ UNCHANGED <<logger, sinks, confVars, default, caught, pooled, out, dirty, torn, fault>>

\* A call through a null m_base.
LogNull ==
    /\ logger[Inst] = "null"
    /\ fault' = TRUE
    /\ UNCHANGED <<logger, sinks, confVars, default, caught, pooled, queue, job, sent,
                   overrun, orphans, out, dirty, torn>>

CatchQtMsg ==
    /\ ~ caught /\ Counted
    /\ caught' = TRUE
    /\ UNCHANGED <<logger, sinks, level, flushLevel, default, pooled, queue, job, sent, out, dirty,
                   histVars>>

\* logHandleMsg(): everything but QtFatalMsg goes to instance().
QtMessage(t, l) == caught /\ l > 0 /\ Log(t, Inst, l)

\* The pool's thread takes an entry; a flush is over at once.
WorkerTakes ==
    /\ queue # <<>> /\ job[Worker] = {}
    /\ queue' = Tail(queue)
    /\ IF Head(queue).id =< 0
       THEN dirty' = dirty \ {Head(queue).lg} /\ UNCHANGED job
       ELSE job' = [job EXCEPT ![Worker] = {Head(queue)}] /\ UNCHANGED dirty
    /\ UNCHANGED <<logger, sinks, confVars, default, caught, pooled, sent, out, histVars>>

\* The last sink has its copy, and is flushed if the level says so.  With torn
\* sinks the message may get lost.
Written(w) ==
    \E e \in job[w] :
        /\ job' = [job EXCEPT ![w] = {}]
        /\ \/ /\ out' = Append(out, e.id)
              /\ dirty' = IF sent[e.id].level >= flushLevel[e.lg] THEN dirty \ {e.lg}
                          ELSE dirty \cup {e.lg}
           \/ e.lg \in torn /\ UNCHANGED <<out, dirty>>
        /\ UNCHANGED <<logger, sinks, confVars, default, caught, pooled, queue, sent, histVars>>

LogNext ==
    /\ ~ fault
    /\ \/ FirstInstance \/ LogNull \/ CatchQtMsg \/ WorkerTakes
       \/ \E lg \in Users : NewSync(lg) \/ NewAsync(lg) \/ PoolReplaced(lg) \/ DestroyLogger(lg)
       \/ \E lg \in Loggers :
             \/ ClearSink(lg) \/ Flush(lg)
             \/ \E s \in Sinks : AddSink(lg, s) \/ RemoveSink(lg, s)
             \/ FlushOn(lg, 1) \/ \E l \in Levels : SetLevel(lg, l)
             \/ \E t \in Threads, l \in Levels : Log(t, lg, l)
       \/ \E t \in Threads, l \in Levels : QtMessage(t, l)
       \/ \E w \in Writers : Written(w)

\* Fairness: the pool's thread runs, writers get to the end of the sinks, and a
\* constructor that need not wait any more goes on.
LogSpec ==
    /\ LogInit /\ [][LogNext]_logVars
    /\ WF_logVars(~ fault /\ WorkerTakes)
    /\ \A w \in Writers : WF_logVars(~ fault /\ Written(w))
    /\ \A lg \in Users : WF_logVars(~ fault /\ PoolReplaced(lg))

-----------------------------------------------------------------------------
(* Properties                                                               *)

Queued  == {queue[i] : i \in DOMAIN queue}
Writing == UNION {job[w] : w \in Writers}
Places(id) == <<Cardinality({i \in DOMAIN out : out[i] = id}),
                Cardinality({e \in overrun : e.id = id}),
                Cardinality({e \in orphans : e.id = id}),
                Cardinality({i \in DOMAIN queue : queue[i].id = id}),
                Cardinality({w \in Writers : \E e \in job[w] : e.id = id})>>

\* Unless a logger's sinks changed while it was writing, each of its messages is
\* in one place only: written once, waiting, being written, overrun, or refused
\* because the pool was replaced.  Asynchronous messages are written in the
\* order of the calls, also across the replacement of the pool, and a message
\* that a full queue lost is older than all that wait.
MessagesAccounted ==
    /\ \A id \in 1 .. Len(sent) : sent[id].lg \notin torn =>
          \E here \in 1 .. 5 : Places(id) = [p \in 1 .. 5 |-> IF p = here THEN 1 ELSE 0]
    /\ \A i, j \in DOMAIN out : i < j /\ sent[out[i]].async /\ sent[out[j]].async => out[i] < out[j]
    /\ \A e \in overrun, f \in Queued : e.id > 0 /\ f.id > 0 => e.id < f.id

\* When a Logger is destroyed and the pool has worked off its entries, nothing
\* it wrote is left unflushed, although the destructor does not wait: only if a
\* full queue dropped the destructor's own flush, or the pool was another's.
GoneIsFlushed ==
    \A lg \in Users :
        /\ logger[lg] = "gone" /\ lg \notin torn
        /\ \A e \in Queued \cup Writing : e.lg # lg
        /\ Entry(lg, Final) \notin overrun \cup orphans
        => lg \notin dirty

\* What the pool has taken is written in the end, or pushed out by newer
\* messages, also if its Logger is destroyed or the pool replaced meanwhile;
\* and the constructor that replaces the pool returns.
PoolWritesAll ==
    /\ \A id \in 1 .. MaxMsgs :
          (\E e \in Queued \cup Writing : e.id = id) ~>
              \/ \E i \in DOMAIN out : out[i] = id
              \/ \E e \in overrun : e.id = id
              \/ fault
              \/ id \in DOMAIN sent /\ sent[id].lg \in torn
    /\ \A lg \in Users : (logger[lg] = "building") ~> (logger[lg] = "async" \/ fault)
=============================================================================
