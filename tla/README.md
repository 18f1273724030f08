# A TLA+ verification of CppWebServer

CppWebServer is a static-file HTTP/1.x server for Linux: one event-loop thread around `epoll`, a fixed
pool of worker threads with a bounded queue, and an `eventfd` over which the workers' responses come
back. These modules model the parts of it where a mistake would be hard to see and hard to test: the
hand-over between threads, the life of a connection, plain and TLS, the requests for files and the cache
behind them, and the life of the process. TLC checks them on small instances. TLAPS proves every safety property
of the passing runs for every instance (some under an assumption that section 7 names): of the thread pool, the completion channel, the event loop and its
connections, plain and TLS, the cache and what is answered from it, the settings, and the order of destruction;
and, for input of any length, how numbers, ranges, heads, configuration files and command lines are read.

Paths below are relative to the repository; `Server.cpp` is `src/Server.cpp`.

## 1. Inventory

| Component | State | Operations | Talks to | What makes it correct |
| --- | --- | --- | --- | --- |
| `ThreadPool` | `tasks_`, `stopping_`, workers, one mutex and condition variable | `enqueue`, `workerLoop`, destructor | called by the loop (`enqueue`), runs the loop's lambdas | no lost wake-up, each accepted task runs once and in order, a refused one never, the destructor drains and returns |
| Completion channel | `completions` deque, `completionEvent` | `queueResponse`, `notifyCompletionEvent`, `handleCompletionEvent` | workers to event loop | every response is delivered once, in order, without another wake-up being needed |
| `Server` event loop | `connections`, `nextConnectionId`, `running`, epoll masks | `acceptLoop`, `acceptReadyClients`, `handleConnectionEvent`, `readFromConnection`, `processReadBuffer`, `writeToConnection`, idle scan, `stop` | kernel sockets, pool, channel | a connection's flags, buffers, mask and outstanding task agree; a client gets the answers to its own requests, in order, in full |
| TLS sessions | `ssl`, `pendingTlsOperation`, handshake flag, `tlsBuffer` per connection | `driveTlsHandshake`, the SSL branches of reading and writing | OpenSSL, epoll mask | decrypted bytes and wanted directions are never forgotten; a write is repeated unchanged |
| `FileCache` | `entries_`, `lru_`, `currentSize_`, one mutex | `get`, `remove` | called by workers through `StaticFileHandler::handle`; reads files that others change | exact accounting, LRU eviction, never an entry older than what was asked for |
| `StaticFileHandler` | none (the cache apart) | path resolution, `handle`, ranges, ETags, gzip, listings | file system | a path stays under the root; what is announced is what is sent; a 304 is true |
| `HttpParser` | none | `parse`, `shouldKeepAlive` | called by the loop | where a request ends and whether the connection is kept |
| Life cycle | signal flag, `shutdownEvent`, `running`, member order | `main`, `start`, `stop`, signal handler, destructors | signals | a stop is never lost; nothing outlives what it uses |
| `Config`, `CommandLineOptions` | option values | `load`, `parse`, overrides | `main` | ranges of values, fallback to defaults |
| `HttpResponse`, `Router`, `WebSocketHandshake` | none | formatting, a table, the handshake | called by a worker | keep-alive rules, Content-Length |
| `Logger`, `ServerUnsupported` | none | output, a stub | | |

What is hard here: two kinds of threads and a kernel between them (pool and channel); handlers that act
on a batch of events taken earlier, after other events of the batch have closed, reused or changed
connections; a descriptor number that is reused while a response for its last owner is on its way;
epoll registration that several handlers change and that must fit the connection's state, since epoll
does not report bytes already read, and, with TLS, not those already decrypted; limits checked after the
fact; files that change between two looks at them; signals on any thread and shutdown at any point.
`PROJECT.json` lists these hazards at their lines with the properties that cover them.

## 2. Modules

| Module | Models | Composed from |
| --- | --- | --- |
| `TaskQueue` | what the pool promises: a bounded FIFO queue that workers drain | |
| `ThreadPool` | `ThreadPool.cpp`, one action per critical section and per notification | refines `TaskQueue` |
| `Mailbox` | what the completion channel promises | |
| `CompletionQueue` | push, eventfd write, drain, swap, delivery | refines `Mailbox` |
| `Decimal` | numbers in headers, in integers of a fixed width | |
| `RequestHead` | what the loop takes from a request's head: `HttpParser`, and where `Router` and `WebSocketHandshake` send it | `Decimal` |
| `Connection` | a connection and the decisions of the handlers about it, shared by plain and TLS connections | `RequestHead` |
| `Server` | the event loop of a plain-text server with its clients and workers | `Connection`, `INSTANCE TaskQueue` as its pool |
| `TlsConnection` | one TLS connection with OpenSSL, its socket and its client | `Connection` |
| `FileCache` | `FileCache.cpp` and the steps of `StaticFileHandler::handle` around it | |
| `ByteRange` | the Range header | `Decimal` |
| `PathResolution` | `resolveRequestPath` and listings over a tree with links | |
| `StaticFiles` | `handle` from the parsed headers to the response | `FileCache`, `ByteRange`, `PathResolution` |
| `Settings` | command line, configuration file, corrections in the constructor | |
| `Process` | `main`, `start`, signals, the end of the loop, destruction | `Settings` |
| `MCServer`, `MCTls`, `MCFileCache`, `MCStaticFiles`, `MCProcess` | inputs and symmetry for TLC | the module each is named after |
| `ThreadPoolProofs`, `CompletionQueueProofs`, `DecimalProofs`, `ConnectionProofs`, `ServerProofs`, `TlsConnectionProofs`, `StaticFilesProofs`, `ProcessProofs` | theorems | the module each is named after, TLAPS; `StaticFilesProofs` proves about `FileCache` too, and `ProcessProofs` about `Settings` |

Operators whose comment says "Mutant" are deliberate bugs. Each is the counterpart of the definition
that follows it; with it in place some property must fail. They are used by no specification.

### ThreadPool

`tasks` and `stopping` are the members; `worker[w]` says where `workerLoop` is: "check" (about to
evaluate the wait predicate under the lock), "asleep" (in `condition_.wait`), "run", "exit". `Enqueue`
and `Refuse` are the two outcomes of `enqueue`'s critical section, `NotifyOne` the `notify_one` after
the unlock, which is a step of its own because others may run in between. `BeginDestroy`, `NotifyAll`
and `Join` are the destructor. Spurious wake-ups are steps. `accepted`, `refused`, `started` and
`executed` are history. `Finish` covers a task that throws: both catch clauses only log.

### CompletionQueue

`Push` is the critical section of `queueResponse`, `Notify` the write to the eventfd; `Drain`, `Swap`,
`Deliver`, `Return` are the steps of `handleCompletionEvent`. The eventfd is a Boolean: the handler reads
until the counter is zero and only "nonzero" is ever looked at. Failing system calls on the eventfd are
left out.

### RequestHead, Decimal and Connection

A byte stream is a sequence of tokens: a piece of a header, a piece of a body, or the end of a header.
The end stands for the whole head, a record of `RequestHead`: the words of the request line and the header
lines that matter, with `Connection` cut at its commas and `Content-Length` as characters. `KindOf` is what the
loop then acts on: `HttpParser::parse`'s verdict, the length of the body, whether the connection is kept,
whether the method is allowed, and whether the target is the WebSocket endpoint or a file to be sent by the
loop. Repeated headers are joined as the parser joins them. Numbers are parsed digit by digit with the
code's overflow test and `% (MaxUnsigned + 1)`.

Left out of the parser: character classes; and its own limits of a line and of all header lines, which
`maxRequestHeaderSize`, checked first by the loop, already implies.

`Connection` holds `Impl::Connection` with the mask registered in epoll (`interest`) and history: requests
taken from the buffer (`parsed`), responses written out (`answered`), announced file pieces not yet sent
(`owed`), and the last head (`last`). Its operators are the handlers' decisions, each as a function from
a connection to the one it leaves: `AfterRecv` (limits, then what is complete), `ProcessReadBuffer` with
`ParseHeader` and `ServeRequest` (400, 413, 405, 503 or a submission), `Install` (the response, or 500 if `open`
fails) and `NextRequest` (after a response: look at the buffer, or wait).

### Server

One action is one handler, or one turn of a handler's loop where a client or a worker can act between
two turns and the handler can tell (`accept4`, `recv`, delivering a completion). `pc` says which handler
is running and `batch` holds the events of the last `epoll_wait` that are still to be handled, so
that they may be out of date. `connections[fd]` is a record of `Connection`, `sockets[fd]` the kernel's and the
client's side. `Commit` installs what a handler decided and submits a task or, if `epoll_ctl` fails, closes the
connection.

Abstractions:

- A body piece inside a header makes it malformed. Clients end all lines of a head alike: the loop and the
  parser decide separately where a head ends (`Server.cpp:346`, `HttpParser.cpp:204`) and would disagree on an
  empty CRLF line after a line that ends in LF.
- Sending a response's text or a file takes any number of pieces. Less than was offered means a full
  socket buffer, until the client reads. One handler call sends at most `SendfileBudget` pieces of a file.
- Arrivals are placed right before a step that looks at the sockets, and the clock's advance right before
  the idle scan. Both lose no behaviour of the loop: nothing else reads them.
- The eventfd of the channel is left out: `ServerEvents` reports completions while the deque is
  not empty, which `CompletionQueue` justifies (a wake-up is always on its way).
- `open` of the file to send may fail (answered 500), `epoll_ctl`, and a `send` or
  `sendfile` on a connection that is not broken, may fail if `CallOutcome` says so (`server_one`), and a file
  may become shorter while it is sent if `FileShrinks` says so. A failing `epoll_wait` is in `Process`. That
  one batch holds at most 64 events is left out.
- A task reaches its completion: an exception outside `buildResponse`'s own try block, which takes a
  failed allocation, is not modelled.
- SIGPIPE is taken to be ignored, so that a write to a dead peer fails and closes the connection. Neither
  `Server` nor `main` sets its disposition.
- The branches for a body that is being read while a response is finished are kept, and
  `BodyFraming` shows them to be dead. The body of a GET or PUT is left in the buffer, as in the code, and
  read as the next request.

### TlsConnection

A step is one call of an SSL function inside a handler. `pc` is the handler: "accept" (`driveTlsHandshake`),
"read", "flush" or "wait". OpenSSL is modelled from its use: `ssl.steps` is what is left of a handshake, as a list
of directions; `ssl.plain` what is decrypted and not yet read; `ssl.unsent` the record a failed `SSL_write` has
begun. `ProtocolStep`, `Later` (a key update or renegotiation meets a call of `SSL_read` or `SSL_write`) and the outcomes of
`Record` are its choices. `AcceptWants`, `ReadWants` and `WriteWants` are the WANT_READ and WANT_WRITE branches with the
mask they register; `ReadFile`, `Write` and `Counted` fill, write and account for `tlsBuffer`. `Breaks` is any
other SSL error or a failing `epoll_ctl`. The pool is `Commit` and `Deliver`, and may refuse. The idle timer and
`stop` are in `Server` only.

### FileCache

A worker's call of `handle` is `StatSize`, `StatTime` and then one of `AnswerFromStat` (304, 416), `Bypass`
(too large, `remove`), `Hit`, `Load` or `LoadFails` (the outcomes of `get`, each one critical section of `mutex_`).
`Write`, `Delete` and `Tick` are the file system. The content of a file is known by the clock tick of the
write that left it; a file is read at one instant. `EvictUntilFits` states what the loop leaves: the longest
front part of `lru_` that fits, by the code's own `currentSize_`, so that a wrong count would evict wrongly.

### StaticFiles, PathResolution, ByteRange

`Begin` parses and resolves: `ResolveRequestPath` follows the segments of a target through directories and
links as `weakly_canonical` does, refuses "..", looks for `index.html` and checks what it found against the
root. `LookAtSize` and `LookAtTime` are `handle`'s two stat calls; then `NotModified`, `RangeNotSatisfiable`,
`FromCache`, `CacheFails` or `BySendfile` builds the response, with its Content-Length, Content-Range, ETag and
Content-Encoding, each a step of `FileCache` with the headers' conditions added. `Deliver` is the loop's `open` and sending;
a client may keep the copy and send its ETag later. The worker stays occupied until then, so that the
state holds one response per worker.

Abstractions: targets are decoded segments, a header value its list of elements; quality values, MIME types (but
for "is compressed"), and the HTML of a listing are data. Path resolution is one step, and besides what it
finds may always end in `Error` (`Resolutions`: no root directory, or an error of the file system), which is answered 500;
that other processes change links during it is not modelled. The clock is not set back, and writes within one tick that keep the size
are not told apart by the cache or the ETag.

### Settings and Process

`Settings` translates `Config::load` line by line with its fallback to all defaults, the command line parser,
the overrides, the corrections in `Server`'s constructor, and the comparison of the idle time in nanoseconds.
A text is itself and the number it spells. Integers wrap at `MaxSize` as `size_t` does, and seconds are
signed.

`Process` runs `main` with it: each step of `start`, which may fail; `installSignalHandlers` as two `sigaction` calls; the loop as
far as it ends (`WaitReturns`, `WaitInterrupted`, `WaitFails`, the shutdown event, an interrupted `accept4`); and `~Server`,
where the pool is joined before `impl_` goes. Signals may be taken by main or by a worker at any point; a worker's
handler is two steps, the flag and the eventfd. `shutdownSignalRequested` is `volatile`, not atomic: after a
worker has written it ("racing") main may see either value at each look. `restoreSignalHandlers` is two steps
(`RestoreSigint`, `RestoreSigterm`), between which the second signal is still caught. A thread of the pool that cannot be created ends
the process (`CreateThreadFails`), since nobody catches that exception. An early
return of `acceptLoop` leaves the exit status at 0, as in the code.

## 3. Runs

| Run | Instance | Shows |
| --- | --- | --- |
| `pool` (`ThreadPool.cfg`) | 3 workers, 2 submitters, 3 tasks, queue of 2 | no lost wake-up (`WorkConserving`), no sleeper at the joins, FIFO, exactly once, drained before destroyed, the destructor returns, `TaskQueue` implemented with its fairness |
| `completions` (`CompletionQueue.cfg`) | 3 workers, 4 completions | no lost wake-up, order, `Mailbox` implemented with its fairness |
| `server_one` (`MCServer_one.cfg`) | 1 descriptor, 2 clients in turn, nine scripts, `epoll_ctl`, `send` and `sendfile` may fail | the connection's invariants over every branch of request handling |
| `server_two` (`MCServer_two.cfg`) | 2 descriptors, 3 clients, 1 worker, queue of 1 | descriptor reuse with responses under way, refusals, stale events of a batch; nobody is cut off as long as calls on a live connection succeed |
| `server_live` (`MCServer_live.cfg`) | 1 client pipelining a file, a POST and a GET | every request is answered, every byte is read, idle connections are closed, `stop` ends the loop |
| `tls` (`MCTls.cfg`) | records no larger than the read buffer, up to two later handshakes | writes are repeated unchanged, responses arrive whole and in order, the mask is what OpenSSL wants |
| `file_cache` (`MCFileCache.cfg`) | 2 workers, 3 files, one changing, sizes 1 to 3, capacity 3 | accounting, freshness, LRU eviction |
| `static` (`MCStaticFiles.cfg`) | 1 worker, 2 files of which one changes, a tree with links out of the root, 17 targets, 54 Range headers | lengths and ranges are what is sent, 304 is true, nothing outside the root is served |
| `process` (`MCProcess.cfg`) | some 120 command lines and files, every failure of `start`, 2 signals, 1 worker, 1 request | settings as documented, nothing used after its destruction, a signal always ends the process |
| `file_shrinks` (`MCServer_shrink.cfg`) | as `server_live`, files may shrink | finding 1 |
| `unlogged` (`MCServer_log.cfg`) | 1 client, 1 request | finding 2 |
| `tls_record` (`MCTls_record.cfg`) | a POST in one record larger than the read buffer | finding 3 |

Why the bounds are enough. In the pool, a lost wake-up needs a sleeper, an awake worker and two
notifications that overlap; three workers, two submitters and three tasks give that and one to spare, and a
queue of two is both filled and refused. In the channel, two completions cover a push before and one after
the swap; four let a second round overlap. For one connection, limits of two tokens make header and body
exceed them, and the nine scripts hold one head for each branch of the parser and of request handling,
pipelining behind a plain request and behind a body, and the body of a GET; with `Base` 3 and `MaxUnsigned` 7 two
digits are enough to overflow. Two descriptors and three clients let a descriptor be reused
while the other is busy and a completion for its last owner is in the queue, on the worker, in the deque or
in the loop's hands. With TLS, a text of three units and a file of four exceed the record size of two and the
file buffer of three, so that every write may be cut at every place, and two later handshakes can meet one
request twice. In the cache, three files of which two small ones or one larger one fit let one load
evict two, and two workers let any call fall between another's stat calls and its `get`. For a single request the
other workers matter only as readers of the same cache, so `static` has one worker, one changing page and one kept copy, with
sizes that are empty, cached and sent by the loop. In `process` four-bit sizes and a second of two nanoseconds let
every number cross every limit, and two signals let a second come while the first is handled or during the
destruction.

Symmetry is used for descriptors in `server_two` and for workers and unchanging files in `file_cache`; neither
run checks liveness. Deadlock is checked except in the two TLS runs, where the connection may end or wait for its
client for ever.

## 4. Fairness

- Pool: each worker's step, each notification and the destructor's steps are weakly fair, because threads
  are scheduled and `std::mutex` is released after bounded work; tasks are assumed to return. Submitting, destroying
  and spurious wake-ups are never owed.
- Channel: the loop runs, and a worker that pushed goes on to write.
- Server: the loop runs (WF); the idle scan is not skipped for ever, because time passes (SF, since the scan and
  its omission alternate); workers take and finish tasks, which is `TaskQueue`'s fairness and checked for `ThreadPool`
  by the run `pool`; clients read what is sent. Clients owe no request and may leave at any time. The order in which a batch is
  handled is arbitrary.
- TLS (`tls_record` only; `tls` checks safety): the loop and the delivery of responses run, and clients read and answer
  in a handshake. They owe no record, which is what makes the hidden rest of one a hang.
- Process: main and each worker run. Nobody owes a signal or a request; `epoll_wait` returns after a second at the latest,
  so main's step is always enabled in the loop.

## 5. Properties

Each is stated with the code behaviour it is about in its module.

- Server: `OneTaskWhilePending` (the flag `responsePending` and the one request in queue, worker, deque or local deque),
  `AnswersOwnRequestInOrder` (the id check of `handleCompletionEvent` and pipelining), `KeepsConnectionPromise`
  (the response's Connection header against `closeAfterWrite` and against what the client's head asked for),
  `NothingStranded` (epoll mask against state, and no complete request left where nobody looks), `BodyFraming` (the body
  handed to a worker is what the head announced, in one way, and holds none of the next request),
  `ReadBufferBounded`, `ContentLengthHonoured`, `NotCutOff` (an action property: a busy connection ends only by a
  broken connection, by `stop`, or with its last piece; it assumes that calls on a live connection do not fail), and four liveness properties.
- TLS: `RetryUnchanged`, `ResponsesInOrder` (each byte once, and the text of a response complete before the next response
  starts and before the loop waits for the next request), `WatchesWhatItWants`. The last one excepts a state the code really
  reaches: a read that wanted to write leaves EPOLLOUT registered if it ends in the middle of a body. The client is then not
  read again, while the loop spins on a socket that stays writable, until the idle timeout: the second half of finding 3.
- Files: `Accounted`, `NeverStale`, `EvictsOldestWhenFull` of the cache; `AnnouncesWhatIsSent` (against `Wanted`, the range in
  exact arithmetic), `NotModifiedIsTrue`, `ServedFromRoot`. A number of 2^64 or more in a legal Range is answered 416, although
  `README.md:177` has 206 for it; `AnnouncesWhatIsSent` excepts such numbers (`Representable`).
- Process: `SettingsHonoured` (against `Promised`, stated from the documentation), `NothingTouchesClosed`, `StopHonoured`. A timeout from
  the file that does not fit signed seconds counts as the default, and one that overflows only in nanoseconds is excepted,
  since that overflow is undefined.

## 6. Findings

1. `file_shrinks`: a file truncated after it was looked at ends its transfer early, and a kept connection then waits for
   the next request with fewer bytes sent than `Content-Length` announced (`Server.cpp:1330`). The client takes the next
   response for the rest of the body. `README.md:203` equates the two lengths. The TLS branch does the same
   (`Server.cpp:1282`).
2. `unlogged`: a response whose client is gone is dropped before its access log line (`Server.cpp:988`), while
   `README.md:37` promises one for every response that was built.
3. `tls_record`: `readFromConnection` returns once a header is complete, although `SSL_read` may have left the rest of a record
   decrypted inside OpenSSL (`Server.cpp:1151`). A POST whose header and body come in one record larger than 4096 bytes is not answered
   until its client sends something more, and at last times out, while `README.md:269` and `:289` say that TLS mode serves the same
   protocol. A connection also hangs if an `SSL_read` in the middle of a body wanted to write (`Server.cpp:1080`): EPOLLOUT alone is
   registered, and when the next read ends for want of data nothing registers EPOLLIN again. The run has no later
   handshake and shows the first half; the same property finds this one too, with small records and one later handshake (`SmallRecords`, `KeyUpdateAndRenegotiation`, `MaxLater` = 1).

## 7. Proofs

`ThreadPoolProofs`, for every finite set of workers, every set of tasks and every bound (`ThreadPoolAssumption`):

- `TypeCorrect`, and `NoSleeperAtJoin` from an invariant that ties `stopping` to the destructor's progress: a worker
  can only fall asleep while `stopping` is FALSE, and the notification comes after it was set.
- `NoLostWakeUp`: `WorkConserving` is inductive with the types. The argument counts: an `enqueue` adds a task
  and a notification; a notification that wakes a sleeper becomes a checking worker; one that finds no sleeper leaves
  nothing to show; a worker that takes a task removes one of each; a worker falls asleep only on an empty queue. The lemma
  `Countable` gives the finiteness the cardinalities need.
- `FifoOrder`: `accepted = started \o tasks` is inductive; it is also what `ExecutedExactlyOnce` rests on, because the
  head of the queue can then not have been started before (`HeadIsNew`).
- `DestructorDrains` combines them: all workers have ended, so the queue is empty and nobody holds a task.
- `Refinement`: every step is a step of `TaskQueue` or leaves its variables alone.

`CompletionQueueProofs`, for any sets of workers and completions: types, `WakeUpNotLost`, `InOrder`, and `Refinement`
to `Mailbox`. The type invariant says that the local deque is empty outside delivery, without which a swap
could overwrite undelivered responses.

`DecimalProofs`, for any base, width and text: `OverflowTestExact`, that the test before a digit is added refuses exactly what
does not fit, and `ParsedExactly`, that a number is parsed to the value of its digits or refused if it is empty, has another
character or does not fit. `FoldLeft` is defined by choosing a function on sets of places. `FoldExists` builds
such a function up to each place, by induction over a set of numbers (`SetInduction`, from the well-founded order of the
naturals), and `FoldRuns` lays the results of the steps out in a row; what a fold computes is then shown from one place to
the next. The other modules use these lemmas for heads, configuration files and command lines.

`ConnectionProofs` and `ServerProofs`, for any descriptors, clients, scripts, workers, heads and limits (`ServerAssumption`,
`ConnectionAssumption`):

- Heads. `StayAsked`: a connection is kept only if the joined Connection headers and the version ask for it. `LengthAnnounced`: an
  accepted length is the exact value of the only Content-Length header, since joining two of them leaves a comma in the number.
- One connection. `Sound` says that flags, buffers, counters and mask agree; `Ready` that a handler may look at what has
  been read. Each decision leaves a `Fine` outcome: a sound connection that is pending exactly if a request is to be submitted
  (`AfterRecvFine`, `NextRequestFine`, `InstallFine`). `Bounded` is what its buffer may hold; it survives because a header that was not complete
  before ends in the newly received chunk (`HeaderFound`). `Left` says what each decision leaves of promises and bodies.
- The loop. The inductive invariant `IInv` is `TypeOK`, `Core` and `Loop`. `Core` says that every open connection is sound, that
  ids are below `nextConnectionId` and distinct (`IdsOK`), that no id is twice on its way through queue, workers and deques
  (`OnceEach`), and that what is on its way for the id of an open connection carries its descriptor and the number of its
  last request, and is there exactly while it is pending (`Belongs`). `Loop` says what each `pc` implies of `taken`, `current` and `batch`. Without ids
  that are never reused a completion for a descriptor's last owner would satisfy `Addressee`; this is where the proof uses
  the counter.
- `TypeCorrect`, `OneTaskAlways`, `AnswersInOrder`, `NeverStranded` follow from `IInv`, whatever `epoll_ctl` and the writes do. `BuffersBounded` adds
  `Limited`. `WrittenInFull` assumes that files keep their size, which finding 1 shows to be needed.
- `PromisesKept` adds `Meant`: a request on its way is the last one its connection took (`last`) with a body of the announced
  length, and a response on its way is only kept open for a head that asked for it.
- `BodiesFramed` adds `Streams`, that buffer, socket and unsent input of a client are consecutive parts of its script, and
  `Bodies`. It assumes of the scripts that a client sends body bytes where its head announces a body (`Aligned`), as those of the
  runs do; of other clients no server could tell what they meant as a body.
- `NeverCutOff` assumes that files keep their size and that `epoll_ctl`, and writes on a live connection, do not fail. Then an event of a batch is never out of date (`Exact`): a connection
  is only closed by its own event, by the idle scan after the batch, or by the stop (`WhoCloses`), and broken sockets stay
  broken (`StaysBroken`).

`TlsConnectionProofs`, for any scripts, records, handshakes, chunk and buffer sizes, from an invariant whose parts need each other:
`Control` ties `pc` and the pending TLS operation to the connection's flags; `Session` ties the mask to what is left of a
handshake, in which the client sends no request (`Inbox`); `Files` says that `tlsBuffer` holds what follows in the file, at
`Position`; `Order` that what was written ends just there, after a complete text (`Ended`) where another response may start; `Retry` that the record OpenSSL keeps is a front part of what will
be offered again; `Submitted` that the pool has the one request of a pending connection.

- `TypesHold`, `RetriesAreTheSame` follow as they are. `EveryByteOnce` assumes that files keep their size (finding 1).
- `WatchesWhatBlocks` assumes that every record fits one read (finding 3), so that OpenSSL keeps nothing decrypted (`Drained`).

`StaticFilesProofs`, about the cache, for any workers, files, sizes and capacity:

- `Freshness`. A time a worker has found is never ahead of its file's (files are only written at the present, and the clock does
  not run back), so what `get` reads later is at least as recent as the time it stores it under. The invariant `IInv` therefore adds to
  `NeverStale` that no file's time is ahead of the clock, that every entry's content is at least as recent as its time, and that a
  worker between its look at the time and `get` holds a time no later than the file's (`Times`).
- `CacheTypes`, `BytesAccounted`, `OldestEvicted`. `Sound` says that `lru_` lists each entry once and that the count is the sum of the sizes.
  The sum is a fold over a set, and is shown to be a cardinality (`Total`), so that adding and removing entries are facts about
  finite sets. `Recency` says that `lru_` is in the order of the last requests; what `EvictUntilFits` drops is then what was
  asked for least recently, and without the last entry it drops there would not have been room.

and about the handler, for any tree, requests and widths as well:

- `RangeParsedExactly`: `parseRange` against `Wanted`, the range in exact arithmetic. It is refused, too, for numbers that do not fit.
- `UsesTheCache`: every step of the handler is a step of `FileCache` or leaves its variables alone, so that what is proved
  of the cache holds here.
- `NotModifiedSound`: the invariant adds to the cache's `IInv` that an entry's content is no newer than its file (`EntriesInPast`), that
  the content of a kept copy is no older than its tag's time and no newer than its file (`Good`), the same of a response before it
  is kept (`GoodReply`), and that the copy a client names is no newer than the time the worker has found (`HeldBefore`). Equal tags
  then leave the content no other time than the tag's.
- `RootHolds`: what is resolved to a file or a listing is inside the root, whichever way the links lead.
- `AnnouncesTruly`: each way of answering says what is true of its body (`Told`), and nothing changes it before it is delivered (`Announced`).

`ProcessProofs`, for any workers, signals, command lines and files:

- `ImplOutlivesItsUsers`. `PInv` ties where main is to what is open (`OpenOK`), to who may hold a task (`TasksOK`) and to who may be inside the
  handler (`HandlerOK`). The point is that the pool is declared after `impl_`, so that the joins come first, and that a worker inside the
  handler has not ended.
- `FileRead` and `CommandLineRead`: what the two folds compute, from one line or argument to the next. After an odd number of arguments an
  option is waiting for its value, so that options and values can only be found at odd and even places (`ReadTo`).
- `SettingsKept`. Each setting comes from the last option, the last line or the default (`Sources`), and the constructor corrects
  just the timeouts that became negative when they were stored in signed seconds (`Honoured`, `SignedIs`). The invariant `SInv` says that only a
  good command line leads to a server. `SettingsAssumption` has `MaxSize` odd because it is 2^w - 1, and `ProcessAssumption` says what
  a text and a line are.

Only model-checked: everything under fairness (TLAPS proves no liveness here and no ENABLED): the six liveness properties and the
liveness halves of the two refinements.

## 8. Not modelled, and what is left

Not modelled on purpose: `Logger`, the formatting in `HttpResponse`, `Router`'s table of three handlers, the header checks, base64
and SHA-1 of `WebSocketHandshake` (its verdict does not change what becomes of the connection: both 101 and 400 close it), MIME types,
the decoding of targets, the HTML of a listing, `ServerUnsupported`. SIGPIPE, failing allocations and a call of `stop` from
another thread before `start` has set `running`, which nothing in the repository makes, are left out as well.

What could follow: path resolution in several steps, between which another process may change links; and TLS connections in
`Server`, with its idle scan and its batches, where `TlsConnection` has one connection alone.
