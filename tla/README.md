# Verification of libqt

libqt is a library of helper classes on top of Qt. This directory holds TLA+
models of its stateful and concurrent parts, the TLC configurations that check
them on small instances, and proofs that TLAPS checks for every instance.
`PROJECT.json` lists components, runs, mutants, the map from definitions to
source lines, findings, hazards and theorems.

## 1. The system

| Component (source under `src/libqt/`) | State | Operations | What is hard |
|---|---|---|---|
| `DBConnPool` (`db/`) | queue of idle connections, mutex, condition variable, factory, thread pool | `acquire`, `acquire(ms)`, `giveback`, `exec`, `setConnNum`, setters | unlocked test, two locks per call, wake-ups, connections that break, ownership across threads |
| `Channel` (`sync/channel.h`), `ObjPool` (`core/objpool.h`) | semaphore, unprotected queue | `enqueue`, `dequeue`, `tryDequeue`, `clear` | token before element, races on the queue |
| `TcpClient`, `NetHandler` (`net/`) | `m_state`, one task with event loop and socket per session | `dial`, `dial(ms)`, `close(ms)`, `write`, `read` | signals that come before anybody listens, timers, two threads |
| `Codec`, `MessageV1` (`net/`) | receive buffer | `consumeMsg`, `consumeBytes`, `encode`, `decode` | arbitrary cuts of the stream, 16-bit length, cap |
| `Uploader` (`net/uploader.cpp`) | current reply, file, multipart, busy flag | `upload`, `cancel`, slots | slots that re-enter, synchronous `abort()` |
| `Downloader` (`net/downloader.cpp`) | current reply and file | `Download`, slots | overlapping downloads |
| `TimedQueue` (`sync/timedqueue.h`) | bounded queue, timer | `enqueue`, `start`, `stop`, `clear`, tick | overflow slots that re-enter |
| `FileChunker`, `File` boundaries (`io/`) | position in a text, chunk count | `chunkFiles`, `chunkFile`, `chunkText`, boundary finders | ends of text and chunk, progress, files that do not open |
| `File`, `JSON` (`encoding/json.h`), `Zipper` (`encoding/zipper.h`) | the disk | create, remove, write, read, zip, unzip | several system calls per operation, any of which may fail, and other processes between them |
| `Crc` (`crypto/`) | registers, tables | `calc16`, `calc32` | tables of 512 and 256 constants |
| `Logger` (`log/`) | spdlog loggers, their sinks, one registry and one thread pool per process | construct, destroy, sinks, levels, flush, log, Qt handler | lock taken by one side only, a pool that is replaced, a destructor that does not wait |
| `AutoGrid`, `Slider` (`ui/`) | geometry; last position | resize, setters, mouse, steps | values used before the next resize, rounding, offsets reported twice |
| `ScreenCapture` (`util/`) | parent, timers, picture, selection | start, press, move, release, escape | event order, deletion, a parent that goes |
| `Dispatcher`, `RWLocker` (`sync/`) | futures and nested event loops; none | `post`, `wait`; lock guards | future against timer, waits inside waits |
| `Event`, `Defer`, `Process`, `CrashHandler`, `LineEdit`, `Sha`, `Ip`, ... | none of their own | wrappers | not concurrent, no protocol |

How they interact: `TcpClient` runs a `NetHandler`, and for message sessions a
`Codec` between the two, in a task of a `QThreadPool`; received data reach the
readers through two `Channel`s. `Codec` serialises itself with `RWLocker`.
`DBConnPool` hands connections to tasks of a `QThreadPool`. `Uploader`,
`Downloader` and `TimedQueue` live in one thread and talk to their clients by
signals, so a client's slot runs inside them. `File`, `JSON`, `Zipper` and
`FileChunker` meet on the disk. All `Logger`s of a process share spdlog's registry
and thread pool.

What makes each component correct:

- pool: one owner per connection, no connection lost, no wake-up lost, calls
  return;
- channel: a token for every element, first in first out, readers are served;
- client: waits end, told tasks end, `state()` says connected only on the word of
  a session that can still take it back, success of `dial(ms)` can be relied on;
- codec: frames arrive whole, once and in order, the buffer is bounded;
- uploader, downloader: each transfer is reported once and truthfully, old
  transfers do not touch new ones;
- timed queue: bounded, every task runs once or is reported dropped;
- chunker: progress, nothing skipped, cuts at the last boundary, the count is
  what was handed out;
- files: what was reported as written can be read until somebody changes it, and
  what `zip()` could come to and read comes out again;
- checksums: the remainders of the polynomials the tables stand for;
- logger: each message is written once and in order or accounted for, and
  nothing stays unflushed;
- widgets: lines inside the frame and labels beside them, offsets that add up to
  the position, a captured image that is the selected rectangle to within a pixel of
  the device, a hidden parent that is shown again;
- dispatcher: waits return, in time or with the task.

## 2. Modules and how they correspond to the code

Each component has one module; the small file helpers share `Files`. Variables keep the members' names where there
is one. An action is a handler, or the part of a handler between two points
where another thread, or a client's slot, can run. History variables (marked
so) feed properties only. Definitions whose comment starts with *Mutant of* are
the deliberately wrong variants listed in `PROJECT.json`; no specification
uses them.

**DBConnPool.** A critical section without a loop is one step, guarded by a
free `m_lock`; the scan of `acquire` and the loops of `setConnNum` hold it over
several. `Call`, `Check`, `WaitFor`, `Expire`, `Spurious`, `Expired`, `Take`,
`ScanOpen`, `ScanClosed` are `acquire` in program order; `Check` reads the queue
without the lock, and gets either answer while somebody is inside a critical
section. `ExecCheck`, `ExecGiveback`, `TaskGiveback` are `exec`. `SetConnNum`,
`Grow`, `GrowFails`, `Shrink`, `Resized` are `setConnNum`. `ExecCheck` merges the
test of `m_threads` (line 78) with its use (line 89); unsetting the thread pool in
between is left out. `Drop` is the
outside: a server, or a client with a copy of the handle, closes a connection.
Clients give back what they acquired, once, as in `examples/db`.

**ConnLedger** is what the pool promises of a connection, without queue, lock and
waiting: it belongs to nobody, the pool, a thread or a task, and passes between
them only in the ways the interface allows (only open connections are lent, only
idle ones removed, only closed ones left behind). `ImplementsLedger` in
`DBConnPool` maps the places of a handle (`m_conns`, `db`, `held`, `tasks`) to
its owners and says that every step of the pool is a step of the ledger or
changes nothing of it.

**Channel.** `Enqueue` is the release, `EnqueueBegin` and `EnqueueEnd` the
insertion; `Ask`, `Acquire`, `GiveUp`, `DequeueBegin`, `DequeueEnd` the reading
calls. A queue operation reads the container and later writes it back, so
overlapping operations overwrite each other; `raced` records the overlap, and
nothing is claimed after it. `fault` is a dequeue from an empty queue.

**TcpClient.** One user thread (`upc`) and one task per dial (`hpc`). A signal
emitted across threads is queued if its receiver is connected at that moment;
`owed` holds the part of an emission of `finish()` that is still to be posted,
so that a task can be caught between its two `connect` calls. `evq` holds the
calls queued for the task's loop, `uquit` the one for the user's nested loop.
The socket changes its state in one step (`Change`), and the slots that pass the
change on to `m_state` and to the nested loop run in another (`PassOn`; `news` is
what they owe), so that the user's thread can look in between, a session can end
with a change not passed on, and `m_state` is what the last of several sessions
wrote. The constructor connects before anybody listens: `Build` leaves the socket
in any state a connection attempt may have reached by then. `missed` marks a
session whose loop ended before `h.quit()` was queued: its socket dies connected.

**Codec.** A message is its payload size. The module comment says why counting
bytes is enough: `m_buf` is always a prefix of the stream, and decoding always
starts at its first byte. `Narrow` is the assignment to `qint16`.

**Uploader.** Single thread, but every `emit` runs client code. `stack` holds
the emissions in progress with the place where the code goes on; in between the
client may call `upload` or `cancel`, and `Return` goes on. `abort()` is
modelled as Qt does it: `errorOccurred`, then `finished`, before it returns,
each at most once per reply.

**Downloader.** Every `emit` is the last thing a slot does, so no stack is
needed. `content[f][r]` counts the chunks of reply r in file f. `write` and `flush`
may keep less than they are given (`Keep`), which nobody asks about; `short`
remembers the files.

**TimedQueue.** `Enqueue` goes up to the overflow signal, `EnqueueEnds` is what
follows it; in between, slots may call anything.

**TextChunker.** `SentenceHit` and `ParagraphHit` are the loop bodies of the
two finders, `FindBoundary` the loop; `ChunkFiles`, `ChunkFile`, `ChunkText`,
`Callback`, `Loop` the chunker. Characters are classes. The callback is any
`std::function`: of the kind "any", it leaves `startPos` at any of `Positions`,
also where it was, before the text or past it, at most `MaxChunks` times. The other
kinds use the finders on the whole text, which the chunker does not hand out: such a
client has it from elsewhere.

**Files.** The disk is the set of paths that exist and the blocks of each file.
An operation is split at its system calls (`CreateIfNotExists` and
`CreateOpens`, `RemoveIfExists` and `RemoveStep`, `WriteFile` and `WriteData`,
`ZipOpens`, `ZipAdd` once per entry, `ZipCloses`), each of which may fail, and
two processes interleave between them. A file that was removed while open is no
longer the one at its path (`linked`). Directories nest: `Ways` are the paths
down the tree, and the recursion of `addDirectory` is the list `work` of what
`zip()` has still to add, in the order it will. A source is first asked whether
it exists and added in a later step; a directory that is gone by then lists
nothing, a file makes `zip()` fail. A listing leaves out what is hidden (`Listed`);
a listing that fails is empty and a `readAll` may fall short, both without a word from
`zip()`, and `unread` remembers where. `UnZip` may fail at each of its tests.
`Extracted` is what Qt's `extractAll` writes; that it, and `QZipWriter::status`, report
their own errors is taken from Qt's interface, although not every write inside them is
looked at. `removeRecursively` is one step. `kept`, `zipped` and `unpacked` are the
history the properties compare with.

**Crc.** The tables are the code's, constant for constant; `Feed` gives one byte
to both checksums and to two long divisions, bit by bit.

**Logger.** spdlog is external and modelled from its use: a queue with
`overrun_oldest`, one worker, a pool that finishes its queue before it is
replaced, loggers that hold their pool weakly, `drop_all` that drops the default
logger too. Writing a message takes two steps, so that the sinks may change
under it (`torn`: undefined behaviour from then on). `NewAsync` replaces the pool and
builds the logger without another asynchronous constructor in between
(`logger.h:66-72`), as when one thread sets the loggers up. `fault` is a call through a
null `m_base`.

**AutoGrid.** One record per direction with the members' values; the distance
of two lines is a fraction, and the places of lines are the sets of pixels that
a double near a whole number may be truncated to. `LabelAt` is the example's
`MyGrid`.

**Slider.** Values, the last position, the sum of the reported offsets. A slot
of the report may set the value within the same event.

**ScreenCapture.** `CaptureStart`, the timer (`CaptureShow`), the mouse and key
handlers, `CaptureDeleted` for the event loop's deletion after `close()`. `Scaled` is
`int(x * ratio)` with a double ratio: truncation towards zero, of a product that may
lie just below a whole number which the exact one reaches. Ratios are in hundredths,
and coordinates may be negative.

**Dispatcher.** `waits` is the stack of nested event loops of the calling thread. In
a debug build `wait` asserts (`dispatcher.h:33`) that this is not the main thread; the
component shares the run `gui` with objects of the main thread, and nothing else.

`MCHttp`, `MCGui` and `MCFiles` put components that share nothing into one run:
a variable (`client`, `object`, `part`) says which of them a behaviour
exercises, so the state spaces add up and do not multiply, and each component is
checked as if alone.

## 3. Runs

| Run | Instance | States | Shows |
|---|---|---|---|
| `dbconnpool` | 3 threads, 2 connections, resize to 0 or 2, factories that open or fail, 1 break; symmetry of threads and connections | about 431 000 | ownership, population, wake-ups, refinement of `ConnLedger` |
| `dbconnpool_live` | 2 threads, 1 connection, factory that opens | about 15 000 | calls return, tasks give back |
| `channel` | 3 threads, 2 elements | about 50 000 | tokens, order, window, service |
| `channel_empty` | same | violation | an empty queue is dequeued |
| `tcpclient` | 2 dials, pool of 2, sessions of bytes (of messages, only other writes reach the task) | about 247 000 | waits and tasks end, state |
| `tcp_dial` | 1 dial | violation | a dial that succeeded is being closed |
| `codec` | 2 messages of size 0, 1, 5 or 6, 4 chunks, length limit 8, cap 9 | about 14 000 | first frame, bound |
| `codec_order` | 2 messages, 3 chunks, real limits | violation | half a length is delivered as a message, frames repeat |
| `http` | 4 uploads; 4 downloads, replies of 2 chunks | about 843 000 | re-entrancy, overlap, writes that fall short |
| `gui` | queue of 2, 7 tasks, nesting 1; 3 widget sizes, 2 setters between resizes; slider 0..5, 3 steps; 3 coordinates, two of them negative, ratios 1.15 and 1.25, 2 starts; 2 tasks, 3 waits | about 588 000 | bound and order, geometry, offsets, selection, waits |
| `logger` | 2 loggers and the instance, 1 thread, queue of 2, 3 messages | about 267 000 | accounting, flush, replaced pool |
| `files` | 2 processes, 3 files, one of them hidden, 2 directories one in the other, 4 calls, 1 failure or shortfall; texts of up to 5 or 6 characters, sizes 0, 1, 2, 3, 5, callbacks that go to 5 places; messages of up to 4 bytes; symmetry of processes | about 1 363 000 | documents, archives, boundaries, checksums |

Why the bounds are enough. In the pool the third thread is needed so that one
can sleep, one give back and one steal; two connections so that a queue can
hold both a good and a broken one. Two elements and three threads give the
channel two writers and a reader, and two readers and a writer. In the
downloader a null file needs three overlapping calls, and a call that fails
early after them is the fourth; the uploader needs two uploads, a refused one
and a failing one in a slot. The texts are longer than the longest mark plus one
character on each side. The grid sizes and minima give lines at exact and at rounded
places, too few lines, and a minimum of zero; a slider of 5 with steps of 2 meets both
ends unevenly; a queue of two messages overruns with the third. Two processes and four
calls give every pair of file operations an overlap and a reader after it; of the
sources, one file comes twice and so has two names, another has one of these, and one is
hidden in its directory and a source itself; one directory is inside another. At ratio
1.15 the doubles miss whole pixels that the exact products reach, on both sides of zero. The second byte of a checksummed message
takes all 256 values, so every table entry is used. In the codec the limits are scaled down (length field
to 8, cap to 9) so that payloads overflow both; the theorems cover the real
ones.

Deadlock is checked in the pool and TCP runs. It is not in the runs of the channel
(bounded number of elements, readers may wait for ever) and the codec, `http`, `gui`,
`logger` and `files` (the bounds on calls are used up, or the object is destroyed or
has failed).

Fairness. Pool: strong fairness of a thread's steps (mutexes do not starve
waiters) and of its deadline, weak fairness of a factory that eventually opens a
connection, strong fairness of tasks. Without the fairness of the factory
`setConnNum` need not return, and with the default factory it does not: see the hazards.
Channel: strong fairness of a thread inside a call; no thread has to call.
TcpClient: both threads are scheduled and timers expire; the network owes
nothing. Uploader: slots return. Screen capture and dispatcher: the event loop
deletes what was closed, time passes and events are delivered; users and tasks owe
nothing. Logger: the pool's thread runs, a writer gets to the end of the sinks, and a
constructor whose old pool has ended goes on; nobody has to log or flush.

Every property of a passing run has a mutant: a variant of one definition, as a
slip in that code would make it, under which TLC finds the property violated.

## 4. Findings

- `Channel::enqueue` and `ObjPool::giveback` release the token before the
  element is there (`channel_empty`). `EmptyOnlyInWindow`, which is also proved,
  says that this window is the only cause besides a data race.
- The timer of `dial(ms)` may run out while the task is still wiring its signals; the
  task goes on, connects and writes `ConnectedState`, and `dial` returns with a session
  that has been told to end (`tcp_dial`).
- `Codec` decodes with every chunk, complete frame or not: a chunk of two bytes, the
  length alone, is delivered as a message without payload (`codec_order`). It also never
  removes a frame from its buffer, so the first one is delivered again with every later
  chunk. A frame on the wire is four bytes longer than its comment says.
- An `upload()` from a slot of `signalUploadFinished` is accepted and silently
  destroyed; one from a slot of the signals for a file that does not open loses
  its file. The model marks such uploads as `chained`, and `EachReportedOnce`
  and `SendingHasFile` hold for all others.
- Destroying any `Logger` drops spdlog's default logger; if that happens before the
  first `Logger::instance()`, the instance is null for ever (`LogNull`). An older
  asynchronous `Logger` writes into nothing once a newer one replaced the pool:
  `MessagesAccounted` counts these messages as `orphans`.
- `AutoGrid` in a small widget has no lines, and the example then divides by zero;
  a minimum of zero hangs the resize. With rounding, the last line may lie a pixel
  before the frame's end, which `LinesFit` allows.
- `valueInc` and `valueDec` make the next mouse move report the step a second time:
  `OffsetsAddUp` says by how much the sum may be off.
- A write that fails half-way, or overlaps another call on the file, loses the old
  document and still returns true; `DocumentKept` says that nothing else does.
- `zip()` returns true although hidden files are not listed, a directory that cannot be
  read is taken for an empty one, and a file that cannot be read in full is stored as far
  as it was. Two sources with one file name share a name in the archive, and only one of
  them survives the extraction; a source file with the name of a source directory makes
  `unZip()` fail. `ZipRoundTrip` says that nothing else is lost.
- Overlapping downloads: the older one ends the newer one and reports its
  truncated file as a success; with three, a null pointer is used.
- A download that a full disk cut short is reported as a success, as nobody looks at
  what `write` and `flush` return. The model marks such files as `short`, and
  `SuccessIsComplete` holds for all others.

## 5. Proofs

Every safety property that a run checks is also a theorem, for arbitrary sets of
threads, handlers, connections, loggers, paths and documents and arbitrary
values of the other constants, except `ChecksumIsRemainder`. Each
`...Proofs` module extends the module it is about, states the inductive
invariant first, then one lemma per action or group of actions, then the
theorems, whose last step is temporal logic only.

**Assumptions.** The named `ASSUME`s of the modules, which TLC evaluates in every
run: bounds are natural numbers, queue, pool and chunk sizes positive, sets of
threads and connections finite. Beyond that: a pool or task is not a thread
(`OwnersAssumption`), the pool's thread is none of the program's and the object
behind `instance()` none of the clients' (`ActorsAssumption`), files are not
directories, there are finitely many of both, and a path that is not at the top
is in a directory (`PathsAssumption`), some depth is that of no directory
(`DepthAssumption`), different documents have different texts
(`BlocksAssumption`), geometry is in whole pixels (`GridValuesAssumption`,
`CapturePosAssumption`), the device ratio in hundredths
(`CaptureRatioAssumption`), a slider's step is positive
(`SliderStepAssumption`), and positions in texts are integers
(`PositionsAssumption`).

- `DBConnPoolProofs`. `TypeCorrect` (`Spec => []TypeInv`): the inductive invariant `TypeInv` is
  `TypeOK` with `ScanIsSafe`; the scan is safe because the lock is held from the
  test of line 114 on and every turn puts one handle back. `OwnershipSafe`
  (`Spec => []Ownership`): ownership, existence and no loss are inductive only together. That a
  connection `setConnNum` closes is in nobody's hands follows from exclusive
  ownership of the queue's head; that a connection a factory creates has no
  owner follows from `OwnersExist`. `WakeupSafe`:
  each `giveback` adds one handle and moves one sleeper to the contenders, and
  each thread that leaves the contenders either takes a handle or finds none;
  the proof counts both with cardinalities. `LedgerImplemented`
  (`Spec => ImplementsLedger`): `OwnerIs` reads the owner of a connection off the
  place of its handle, and each action then is one action of `ConnLedger`, or
  leaves owners and states alone. `PopulationIsKept`: each action moves a handle
  from one of the four places to another, and the four cardinalities are
  compared.
- `ChannelProofs`. `ChannelSafe`: the strengthening says that, before a race, at
  most one thread is inside the container and its snapshot is the container;
  then each step keeps the balance of tokens and the order. `WindowIsTheCause`
  follows: a thread that holds a token and finds nothing needs a thread that has
  released one and not delivered.
- `CodecProofs`. `RoundTrip` is the arithmetic of `Narrow`, `Size` and `Decode`.
  `CodecSafe` and `FirstFrameSafe` use an invariant that ties `total` to the size of the first frame
  and the last delivered message to the buffer.
- `TcpClientProofs`. `TcpInv` adds to the properties what the queued calls stand
  for: the handler's quit alone is owed only where its loop's is queued or was
  handled (`Owing`), what the slots have still to pass on is a state the socket is
  still in, and a session that ends connected was missed (`Reporting`), and a quit of
  the user's nested loop was caused by the change of state it reports
  (`QuitIsDeserved`). Theorems `QuitsOrdered`, `ConnectedSafe`, `SignalsAreTrue`.
- `HttpProofs`. The uploader's properties are inductive only together with what
  the frames of `stack` entitle their code to do when the client's slot
  returns: `ReleasingIsDue` says that a frame below which a clean-up is still to
  come finds the reply spent, or one that was started below it.
  `UploaderIsBusyRightly`, `SendingKeepsFile` and `UploadsReportedOnce` follow.
  For the downloader, `FileOfReply`, `Fresh` and `OneAtATime` say which replies
  and files can still meet, and `KeepStep` what a write that falls short leaves:
  `FilesKeepApart`, `SuccessSafe`, and the action property `ReportsAreFinal`.
- `GuiProofs`. `QueueInv` makes the tasks in the four places distinct and ordered,
  from which the counts and the order of `EachOnceInOrder` follow
  (`TasksOnceInOrder`, `QueueIsBounded`). `SliderInv` says that the error is a
  multiple of the step (`SliderOffsets`); `CaptureInv` with `Cut` and `SpanCovers`, on products
  truncated towards zero that may miss a whole number, gives `CapturesSelection`; `GridInv` says that a resize leaves the
  distance of the lines as the fraction it computed, and `GridLinesFit` is
  arithmetic with quotients.
- `LoggerProofs`. `MsgInv`: a message is in at most one place (`Apart`), nowhere
  only if its logger is torn (`NoneLost`), the worker has the asynchronous
  messages and the threads the others (`Divided`), and asynchronous numbers grow
  from what is written over the worker's message to the queue, those overrun
  below the queue (`InOrder`). Without that order the entry a full queue drops
  might be in the queue twice. `MessagesKept` then counts. `DestroyedIsFlushed`:
  `LastFlush` says that a destroyed logger's last flush was dropped, has been
  done with none of its entries left, or is the last of its entries in the
  queue; entries of synchronous loggers are never in the queue (`Stands`).
- `FilesProofs`. `DocumentsAreKept`: a call that was not overlapped has its file
  to itself (`AloneAtFile`), so a write that says it was alone found the file
  empty (`OpenedEmpty`), and once it is through no call is left that would empty
  the file or write to it (`KeptIsSafe`). `CountIsRight`: `CountInv` compares the
  counts at each point of the loop. `CutsAreLast` and `ChunksGoForward` need what
  the loop of `FindBoundary` returns for every text. `LoopDown` shows it without
  an induction rule: the least position where the loop's function differs from
  what is claimed (`LeastNat`, from the well-foundedness of the naturals) would
  have one before it. `LoopDownExists` shows that there is such a function, so
  that the recursive definition has its meaning. `HitEnds` and `EndsAreOrdered`
  then connect the tests of the loop body with the reference definition
  `Boundaries`, and `FoundIsLast` is the result for one call.
  `ChunkInv` also says where `startPos` may be after a callback that does as it likes.
  `ZipGivesBack`: `ZipInv` says that, while `zip()` runs, each way to a file that
  has not changed, and on which nothing fell short (`Sure`), has its entry in the
  archive or is awaited, that is, some item of `work` is at a path of the way under the
  names so far (`Awaits`, `Running`); that entries are of a file or directory that can
  have their name, and current if the file has not changed and was read in full
  (`EntriesRight`); and that what is there is in a directory that is there
  (`Rooted`), without which a file could be there and its directory list nothing.
  `AllTheWay`, `Longer` and `NameAppend` are the facts about ways that the step of
  `addDirectory` takes, `Listing` says that `SetToSeq` lists a finite set, and
  `FirstIsRight` that `extractAll` finds the file's entry under its name.

Only model-checked:

- all liveness properties, which are out of the prover's reach: `CallsReturn`,
  `TasksGiveBack`, `ReadersServed`, `ToldTasksEnd`, `FailureIsCleanedUp`,
  `ParentComesBack`, `WaitsReturn`, `PoolWritesAll`;
- `ChecksumIsRemainder`: `Crc` uses bit operations the prover does not know, and
  each entry of its tables would be a case.

## 6. Not modelled

- `~DBConnPool`: right only when all threads have stopped.
- Automatic reconnection of `NetHandler` (off by default) and `read` of `TcpClient`
  beyond the channel.
- Progress signals, SQL, painting, log patterns, rotation of log files, the formats
  of JSON and zip: no property tells them apart.
- `File::walk`, `md5`, `size`: they only read.
- `LineEdit`: regular expressions installed by constructors.
- `CrashHandler`: one handler, replaced by `setLocalPath`; a callback set later has
  no effect until the next `setLocalPath`. The dump is breakpad's.
- `Process`, `Sha`, `Ip`, `StrUtil`, `AudioStreamReceiver`, `Event`, `Defer`,
  `NotNull`, `Application`, macros: stateless wrappers.

## 7. Plan

The components with state are modelled, and the safety properties in the
prover's reach are proved. What could follow is `ChecksumIsRemainder` for
all messages: that both sides are linear in the bits of the message, in a module
without bit operations.
