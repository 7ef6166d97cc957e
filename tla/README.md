# A TLA+ verification of afire

`afire` (the crate in `src/`, version 2.2.1) is a synchronous, multithreaded HTTP server
framework. This directory models the parts of it whose correctness depends on the order in
which things happen - the server and its thread pool, the request pipeline, the connection loop,
event streams, the rate limiter and the quote book example - and, as operators on texts, what
it reads and writes: requests, responses, forms, cookies, static files. TLC checks
their properties, and TLAPS proves the safety properties of the state machines for every instance.

`PROJECT.json` is the machine-readable index: components, runs, the source lines behind
every definition (`map`), mutants, findings, hazards and theorems.

    tlc -workers 2 -config ThreadPool.cfg MCThreadPool.tla      # a run
    tlapm ThreadPoolProofs.tla                                  # a proof

## 1. Inventory

| Component | Source | State it keeps | Operations | Interacts with |
|---|---|---|---|---|
| Thread pool | `lib/thread_pool.rs` | mpsc channel, mutex around its receiver, one thread per worker | `new`, `execute`, worker loop, `drop` | accept loop (owner), connection loop (job) |
| Server | `lib/server.rs` | routes, middleware, default headers, `keep_alive`, `socket_timeout`, app state | builder methods, `check`, `start`, `start_threaded` | thread pool, connection loop |
| Connection loop | `lib/internal/handle.rs` `handle` | shared `Arc<Mutex<TcpStream>>`, `keep_alive` of the iteration | read, respond, write, end hooks, shutdown | request reader, pipeline, response writer, SSE threads through the socket mutex |
| Request pipeline | `handle.rs` `get_response`, `handle_route`, `error_response`; `lib/middleware.rs` | request result, response result, position in the middleware chain | pre chain, routing, post chain, error response | user hooks and routes (callbacks), error handler |
| Request reader | `lib/request.rs` | a `BufReader` per request | `from_socket`, `parse_request_line`, `keep_alive` | socket mutex (held while it blocks) |
| Response writer | `lib/response.rs` | headers, body, flag | builder methods, `write`, `ResponseBody::write` | socket mutex |
| Routing | `lib/route.rs`, `lib/internal/path.rs` | tokenised paths | `Path::new`, `match_path`, `matches` | pipeline |
| Server-sent events | `lib/http/server_sent_events.rs` | unbounded channel, worker thread, close barrier | `send*`, `set_retry`, `close`, `from_request` | socket mutex shared with the connection loop |
| WebSocket | `lib/http/web_socket.rs` | - | not compiled: no module declares it | - |
| Rate limiter | `lib/extensions/ratelimit.rs` | table of counts, time of last reset | `pre`, `end`, `check_reset` | pipeline, shared by all workers |
| Static files | `lib/extensions/serve_static.rs` | a directory, a path, disabled files, types | post hook for requests that no route matched | pipeline, file system |
| Head, Trace, RequestId, Date, Logger, RealIp | `lib/extensions/*.rs` | little or none (a counter, a log file) | middleware hooks | pipeline |
| Logging | `lib/trace.rs` | global level, colour, formatter behind an `RwLock` | `set_*`, `_trace` | everything |
| Encodings, headers, cookies, query, multipart | `lib/internal/encoding/*`, `lib/http/*.rs` | none | pure functions | reader, writer, handlers |
| Quote book example | `examples/application_quote_book.rs` | a map of quotes behind an `RwLock`, and a file | load, post, show | server state, file system |
| Paste bin example | `examples/application_paste_bin.rs` | a list of pastes behind an `RwLock` | post, post a form, show, list | server state, routing, query |
| Other examples | `src/examples/` | - | - | - |

### How the components interact

`start_threaded` accepts connections and gives the pool one job for each. The job is
`handle`, the connection loop: it locks the socket, reads a request, runs the request
pipeline, writes the response, runs the end hooks, and starts over or closes. The pipeline
calls user code - hooks, routes, the error handler - which may answer, change the request or
the response, stop the chain, or panic. A route may take the socket from its request and
start an event stream on it, which lives on a thread of its own. Extensions
such as the rate limiter are hooks, one instance shared by all worker threads.

    accept loop --job--> pool: worker threads --run--> handle (connection loop)
                                                         |  reads/writes the socket (mutex)
                                                         |  get_response (pipeline)
                                                         |     hooks, route, error handler
                          SSE worker threads --write-----+     RateLimiter: shared table

### What is hard about it

- **Panics as control flow.** Hooks and routes run under `catch_unwind`, the request reader, the error handler,
  the response writer and the job do not. Where a panic stops decides whether one response,
  one worker thread or the process is lost; and one that is caught may leave the socket's mutex poisoned, which
  ends the thread later.
- **Shutdown.** `Drop` of the pool sends one `Kill` per worker through the channel the jobs
  use, joins in order, and panics itself if a worker has died.
- **Locks held while waiting.** The receiver's mutex is held in `recv()`, the socket's mutex
  while waiting for a request, or for the client to take what is written.
- **A byte stream cut into requests.** Requests are read by a `BufReader` that lives for one
  request; the stream may end, time out or be reset anywhere in one.
- **Two threads on one socket.** Event streams and the connection loop write to the same
  socket; closing a stream is a rendezvous at a barrier; a write that times out is given up half done.
- **Threads held.** A kept-alive connection holds its thread; accept failures and some
  panics end threads, or the server.
- **A file rewritten in place.** The quote book saves its whole map after each new quote,
  perhaps in two threads, and is killed at any time.
- **Framing.** Where a body ends is decided by headers that routes, hooks and the writer add
  in turn, and that the client reads by its own rules.
- **Check, then act.** The rate limiter looks at its table before the route and changes it
  after the response, in a hook that some requests never reach.

### What makes each component correct

| Component | Properties |
|---|---|
| Thread pool | jobs start in order, once, on at most as many threads as are left; a job waits only for other jobs; drop waits for the jobs; a worker dies of nothing but its job |
| Pipeline | the chains keep order and stop as documented; a rejected request is not routed; no panic but the error handler's gets out; every response flag is one the connection loop expects |
| Connection | an error response or a closing one is the last; responses keep the order of the requests, one each; nothing a waiting client sent is lost; the thread is released when the client goes, and dies only of causes that can be named |
| Event streams | events keep their order, and only a timed-out write leaves a gap; close flushes and separates streams; if the client reads or there is a timeout, close returns, dropped streams are drained and their threads end |
| Rate limiter | the overshoot in requests that are counted is bounded; resets are a period apart; nobody is locked out for good |
| Server | a stateful route has its state; the server stops only if enough connections panic or a body cannot be allocated; nobody waits but for clients that hold every thread |
| Quote book | a quote that was promised stays; the program starts again after a crash; ids do not collide |
| Texts, routing | decoding is the inverse of encoding; dates are the calendar's; a pattern matches what its documentation says and the right route runs; requests, cookies, parameters and forms arrive as they were sent |
| Static files | the file named by the path, never one outside of the directory, with its type |
| Answers | the client finds the body where the server put it, whatever hooks it went through; HEAD describes GET; TRACE echoes |

## 2. Modules

| Module | Models | State and actions |
|---|---|---|
| `JobQueue` | what a thread pool promises (abstract) | submitted, started, completed and failed jobs; submit, start, complete, fail, close |
| `ThreadPool` | `lib/thread_pool.rs` | the channel as everything sent and a count of what was received, the receiver's mutex, each worker's place in its loop, `drop`'s two loops. `Execute`, `Acquire`, `Recv`, `JobReturns`, `JobPanics`, `SendKill`, `Join` and the failures of each |
| `ThreadPoolProofs` | - | theorems about `ThreadPool`, and that it implements `JobQueue` |
| `Outcomes` | the interface of pipeline and connection loop | response flags, request errors, which of the former may follow which of the latter |
| `ConnectionSettings` | what is fixed during a connection | the parameters of `Connection` and `Handle`: number of requests, settings of server, routes and client |
| `Pipeline` | `get_response`, `handle_route`, `error_response`, the default raw hooks of `middleware.rs`, the end hooks | one request: the `Result`s `req` and `res`, the loop position in the chain, the response returned, a log of the user code that ran. One action for each way out of each loop |
| `PipelineProofs` | - | theorems about `Pipeline`, and about `Handle`, with the proof that it implements `Connection` |
| `Connection` | `handle`, `Request::from_socket`, `Response::write`, and the client | units of requests in flight, the socket's buffer, the `BufReader`, `keep_alive`, the mutex's poison, the responses on the wire. `ReadPanics`, `WritePanics`, `WriteBodyPanics` and the end of `Continue` on a poisoned mutex are the panics that nothing catches |
| `ConnectionProofs` | - | theorems about `Connection` |
| `Handle` | the loop of `handle` with `get_response` and the end hooks in it | `Connection`'s and `Pipeline`'s variables. `FromSocket` starts the pipeline anew, `InGetResponse` is one of its steps, `Respond` takes its outcome, `Write`, `RunEndHook`, `Continue`, the panics of `Connection`, each with the hook that caused it; the client of `Connection` |
| `SseStream` | `server_sent_events.rs` and the connection loop as far as it uses the same socket | per stream: its owner, channel, worker and barrier; whether there is a timeout; the wire, whole or cut writes. A worker locks the socket (`RecvEvent`) and, when the client has taken the event or the timeout is over, is done with it (`WriteEvent`) |
| `SseStreamProofs` | - | theorems about `SseStream` |
| `RateLimiter` | `ratelimit.rs` | the table, `last_reset`, each thread's place in `pre`, `check_reset` and `add_request`; a clock |
| `RateLimiterProofs` | - | theorems about `RateLimiter` |
| `Server` | `server.rs`, with the pool as `JobQueue` and connections as what they make of their thread | the builder's settings, the owner's phase, the clients in the order of connecting, the pool. `Configure`, `StartSingle`, `StartThreaded`, the accepts and their failures, `JobStarts`, `HandleReturns`, `HandlePanics`, `HandleAborts` |
| `ServerProofs` | - | theorems about `Server` |
| `ThreadedServer` | `start_threaded` over the pool of `ThreadPool` | `ThreadPool`'s variables, and `Server`'s but for its abstract pool. `Build`, `Connect`, `Accept`, `AcceptPanics`, `Abort`; the workers' steps, in which a job is `handle` for an accepted connection |
| `ThreadedServerProofs` | - | theorems about `ThreadedServer`: it uses the pool as `ThreadPool` allows, and implements `Server` |
| `QuoteBook` | `application_quote_book.rs` | the map, the file (whole lines, and whether a piece of one is among them), each worker's place in the POST handler, what was promised, what has gone wrong. `Load`, `Insert`, `Collect`, `Truncate`, `Write`, `WriteFails`, `Crash` |
| `QuoteBookProofs` | - | theorems about `QuoteBook` |
| `Codecs` | `base64.rs`, `url.rs`, `imp_date`, `split_boundary` | none: one operator per function; recursive ones only where a loop consumes a varying number of characters or months |
| `Paths` | `path.rs`, `Route::matches`, the choice in `handle_route` | none: a path is tokenised by `NewPath` and matched by `MatchPath`, over texts of code points |
| `Messages` | `request.rs`'s grammar, `header.rs`, `query.rs`, `cookie.rs`, `method.rs`, `multipart.rs`, `Event::to_string` | none: texts are sequences of code points and of words, one for each name that the code knows |
| `Statics` | `serve_static.rs` | none: the file opened for a path, and its type by binary search over the real table |
| `Exchange` | `response.rs`'s builder and `write`, `status.rs`, the hooks of Head, Trace, RequestId, Date and ServeStatic, in the order of `handle.rs` | none: `Answer(server, text)` is the text of the response to the text of a request |
| `PasteBin` | `application_paste_bin.rs` | none of its own: `Handle(pastes, request)` is the list a request leaves and its result |
| `MC...` | - | instances for TLC, and properties that a document states and the code refutes; `MCMessages` also has the client's side of the texts |

**Composition.** `Pipeline` and `Connection` are written apart and meet in an interface:
`Connection` does not run hooks but lets `get_response` return any of
`Outcomes(result)`, and what comes out of the chains of `Pipeline` is proved to be in
`Outcomes(req)` (`ContractKept`). The contract holds for middlewares without raw hooks; a
raw hook sees requests that failed to parse and may end their connection or its thread. `Handle`
puts the two together: its `Respond` takes whatever outcome the pipeline has, and that it implements
`Connection` is checked and proved. In the same way `Server` composes the accept loop with
the pool through the pool's specification `JobQueue`, and `ThreadedServer` puts the real `ThreadPool` in that
place and implements `Server`. What remains between the two halves: the server knows a connection as a
job that returns, panics or is held by its client; `Connection`'s final states `closed` and `dead` are the
first two. `MCServer` runs both servers: the one of `start` as `Server`, the one of `start_threaded` as `ThreadedServer`. `Exchange` composes `Messages`, `Paths`, `Statics` and the extensions;
it runs the chains of `Pipeline` with the hooks that afire comes with. `PasteBin` puts an application with a
state on top of it.

**Abstractions.** A message, event or job is its position in the order of sending. A request
on the wire is two units: the request line with the first headers, and the rest; so
it can be cut in two, and a read can return part of one request, one, or more. Grammar is
abstracted to valid, malformed and truncated in `Connection`, and is in `Messages`. There, a
word stands for one of the names the code knows in its own spelling, or in other letters;
chunks are two characters long. Times
are ages (how long ago something was), so that a clock that never stops has finitely many
states. A thread's step that no other thread can see is joined with the next one it makes:
the SSE worker takes a message and locks the socket in one step, because the channel is unbounded
and its sender never looks at it (until it is written, the message counts as being in the channel); but the write
is a step of its own, since others wait for the mutex meanwhile. The head of a stream and a response are written in
the step that locks the socket, for their threads do nothing else in between.

## 3. Runs

Each passing run has every property broken by a mutant (section 6).

| Run | Instance | Shows |
|---|---|---|
| `thread_pool` | 3 workers, 4 jobs; 23,920 states | `ImplementsJobQueue`: the pool refines `JobQueue`. `DeathsAreJobPanics`: `recv().unwrap()` never fails, although a panicking drop disconnects the channel under running workers. `ShutdownComplete`, `PanicsArePropagated`. `JobsEnd`, `DropReturns` if jobs end; `StartsWhenFree` even if they do not |
| `pipeline` | 3 middlewares, any subset of them raw, which may return an IO or a startup error; 194,268 states | `PanicContained`; `ChainDiscipline`: hooks run once, in order and as far as the chain goes, routes only for requests that were not answered or rejected, end hooks all or none, and what a post hook sends is final |
| `handle` | 1 middleware, 2 requests, 6 of the 32 settings of server, routes and client; 890,780 states | `InOrder`: one response per request in the requests' order, nothing after an error response or a closing one. `NoRequestLost`, `Released`; `ErrorsAreDeserved`: an error response has a client that caused it, and a dead thread a cause. `ImplementsConnection`: the loop with the real pipeline refines `Connection`. `DeathsHaveCauses`: a thread dies of the error handler, of a header at which `from_socket` panics, of a body's panic, or of a hook or route that panicked with the socket locked, in the same request or, an end hook, the one before. `EndHooksFollowReplies` |
| `sse` | 2 streams, 2 events, 2 requests, with a timeout or none; 296,634 states | `StreamInOrder`: order is kept, and only a timed-out write leaves a gap. `CloseFlushes` but for those, `NewStreamIsClean`. `Delivered`, `CloseEnds`, `WorkersEnd` for a client that reads, or with a timeout |
| `rate_limiter` | 2 threads, 2 addresses, limit 3, period 2 s, delay 1 s; 844,133 states | `OvershootBounded` (of requests that are counted, or still may be), `OwnResetsApart`, `Recovers` |
| `server` | no pool, or the real one of 2 threads; 3 connections, all configurations; 248,370 states | `ImplementsServer`: `start_threaded` over the real pool refines `Server`. `StatefulRoutesHaveState`, `StopsOnlyForCulprits`; `NobodyStarves`, although connections wait in a channel whose mutex is not fair |
| `quote_book` | 2 workers, 3 quotes, 2 crashes; 56,773 states | `PromisesKept`, `StartsAgain`, `NothingReplaced` |
| `codecs` | 32,714 inputs | `Base64RoundTrip`, `DateIsCalendar`, `EventRoundTrip`, `RoutesAsDocumented`, `RequestRoundTrip`, `MultipartRoundTrip`, `ServesNamedFile`, `AnswerRoundTrip` |
| `broken_response`, `rate_limiter_one`, `base64_inverse`, `static_path` | small instances | violations, section 5 |

**Bounds, and why they are enough.**
`Size = 3` gives drop a worker before, at and after the one that died, and `MaxJobs = 4`
more jobs than workers. The theorems of section 4 remove the bounds of the state machines; the runs
are what shows liveness, and that the cases which the theorems speak of do occur. With three middlewares a hook can stop the chain before, at and after
another one. Two requests are enough for each property of a connection, which all relate a
response to the one before it. A setting is chosen in `Init`, with one of its five fields TRUE or all of them, so that any
two fields have each combination of values; one middleware is enough for an end hook to be due when the next request
might be read. Two
streams show every mixture of one with a later one, and two events that they keep their
order; `MaxEvents` is the total of both streams. In the rate limiter the limit must exceed the number of threads for
`Recovers` (with a limit of 2 and two threads, two rejected requests that are counted right after each reset
lock the address out for ever), so 2 threads and limit 3 are the smallest instance; the
count is kept only up to the limit, since nothing asks by how much it is exceeded.
The inputs of `codecs` are all sequences of up to four of the bytes at the digits' boundaries, all
multipart bodies of up to seven characters over one that is in every boundary and one that is not, every
pattern of up to three segments with all paths of up to five characters, each first and last
day of the months of ten years around the leap years and the ends of the range.
Requests and forms have up to two headers, parameters, cookies or entries, with values of
up to four characters among those that a grammar gives a meaning; static paths are all texts of
up to six of `/ \ . a`; exchanges go through every sequence of up to three of the five extensions (Head in both of its settings); pastes come one, two
or three at a time, in both ways, among refused and failed ones.
Three connections are one more than the threads of `server`, so that one waits, and enough to end
both workers before it; every configuration is reached by `Configure`, and with a pool `PooledServers` leaves out stateless
routes and a state that no route uses, at which no thread looks. Two workers and three quotes
are enough for a save to be overtaken by a later one and for a third quote to get an id after
a restart; the second crash hits a program that was already restored.
`MaxDelay` bounds how long a thread may be inside `check_reset`; without it a thread that
sleeps for a period between reading the clock and storing it would make last_reset as old as
it likes.

**Fairness, and why the code justifies it.**
- Threads that can run do (weak fairness of each thread's own steps).
- A free mutex is given to some waiting worker, not to each: `std::sync::Mutex` is not
  fair, so `ThreadPool` has one weak fairness condition for all `Acquire`s together.
- Jobs, routes and owners of streams need not end. Properties that need it say so
  (`EveryJobEnds => ...`, `<>(conn = "ended") => ...`).
- In `Connection` user code returns, and a client that has not reset the connection reads what it is sent (a write does
  not block for ever); nothing is assumed of what the client sends. A socket timeout that is set
  expires.
- In `SseStream` a worker receives when it can, and a write ends when a timeout that is set is over. Without one nothing makes a
  write end: a client that does not read blocks the worker in `write_all`, which has the socket's mutex, and with it close and the
  other streams. `Delivered`, `CloseEnds` and `WorkersEnd` are therefore stated for clients that read on (`WritesEnd`),
  a premise and not part of the specification. That a worker which waits for the mutex gets it is assumed; the bounds on events
  and requests leave out a stream or a client that keeps the mutex busy without end.
- `Handle` has the fairness of `Connection`, since hooks are user code that returns, and `MCServer` that of `Server`
  and `ThreadPool`: one condition for all `Acquire`s, one for each worker's other steps.
- In `Server` the accept loop goes on, a queued job starts when a thread is free, and a connection whose
  client leaves, or pauses with a timeout set, ends; owners need not start and clients need not
  connect. `QuoteBook` has no liveness property and no fairness.
- In `RateLimiter` time passes; clients need not send anything, and `Recovers` speaks of
  those that go on sending and whose requests reach the end hook.

**Deadlock** is checked in every run. Each model names the states in which nothing is left to do
(`Stopped`, `Finished`, `Done`).

## 4. Proofs

Every safety property of the nine state machines is proved, for every value of the constants, and so are the three
refinements between them. Each state machine has an inductive invariant, `Invariance`,
and its other theorems follow from that; the refinements and `PromisesAreKept` need one more each, named below.

**`ThreadPoolProofs`**, for every `Size > 0` and every number of jobs: `TypeCorrect`,
`WorkersDieOfTheirJobs`, `DropWaitsForJobs`, `PanicsHaveACause`, `Refinement`. The properties are not
inductive: that a worker never finds the channel
disconnected depends on how many workers have exited. `IInv` adds `OwnerInv` (drop's loop
counters agree with where the owner is, workers joined have exited), `ChannelInv` (jobs were
sent before Kills), `JobsInv` (a job that was received ran or runs on some worker),
`DeathInv` (a dead worker's last message is a panicked job) and `KillCount`: the number of exited
workers is the number of Kills received. A worker that saw a disconnect would be one that
has not exited after `Size` Kills were received by others, one worker too many.
`Refinement` (`ImplementsJobQueue`) has one step per action of the pool: `Execute` submits, `Recv` of a
job starts it, a job's return or panic completes or fails it, drop's first step closes, and all others
stutter. Besides `IInv` it needs that a job runs once (`OnceInv`), so that the running jobs and the workers that
run them are equally many (`JobsOnWorkers`) and the abstract limits on running jobs and failures hold.
What `Server` assumes of the pool is thereby proved for every pool. `JobsRunOnce` states `OnceInv` for the server below.

**`ThreadedServerProofs`**, for every `Size > 0` and every number of connections. `UsesThePool`: each step of the server is one of
the pool or leaves it alone, so that the pool's theorems hold of it. `ServerRefinement` (`ImplementsServer`): the lemmas of
`Refinement` say which step of `JobQueue` a worker makes, and the accept loop submits. What is new is that the pool's owner is
that loop: `LoopInv` has that it sends no Kill before it unwinds, and that it unwinds only after every worker has ended.
No Kill was received, so all workers are dead; by `DeadInv` no two died of one
job, and `AllPanicked` concludes that as many connections have panicked as there are threads, which is when `Server` lets
`execute` abort the process. A worker that cannot allocate a body aborts it in a step of `Server`'s own (`HandleAborts`). `ServerKeepsItsPromises` takes `StatefulRoutesHaveState` and `StopsOnlyForCulprits` over from `ServerProofs`.

**`PipelineProofs`**, for every number of middlewares and every set of errors that raw hooks may return:
`OrderOfHooks` (`ChainDiscipline`), `ContractIsKept` (`ContractKept`), `PanicsAreContained`
(`PanicContained`). About the order, `ChainInv` says for each place of
the control what the log holds: entries of the chains up to the one that runs, of that one only middlewares above
`pos`, with verdicts that let it go on; hence the entry of whatever runs next may follow each one
before it. About errors, `ErrorInv` says that `Err(None)`, with which `res` starts, is replaced by routing before anything
looks at it, and that without raw hooks a request that failed to parse is seen by nobody.

The same module proves `Handle`, for every number of middlewares and requests and every set of settings. `CallInv`: a call of `get_response` starts in an
initial state of `Pipeline`, so that `Pipeline`'s invariant holds at all times, and without raw hooks `req` stays what
`from_socket` returned. With it `OutcomeKept` shows that an outcome is one that `Connection` expects of that request, and
`LoopRefinement` (`ImplementsConnection`) follows; `LoopKeepsOrder`, `LoopAnswersRequests` and `LoopErrsWithCause` take over what
`ConnectionProofs` has proved of `Connection` (its assumption on outcomes is none any more). `LoopInvariance` adds
`StageInv` (where the pipeline is at each place of the loop; who poisoned the mutex, if it is: a hook or route of this request at a
write, which is about to panic, an end hook between two requests, so that poison is never older than the request before)
and `EndInv` (the end hooks above `pos` have run, for a request that was read and
that the last reply is to), and `DeathsAreExplained` (`DeathsHaveCauses`) and `EndHooksAreInTime` (`EndHooksFollowReplies`) follow.

**`ConnectionProofs`**, for every number of requests and every set of configurations: `RepliesInOrder` (`InOrder`),
`EveryRequestAnswered` (`NoRequestLost`), `NoUndeservedError` (`ErrorsAreDeserved`). The stream of units is
cut by a `Cursor`, the number of units the server has taken. `StreamInv`: the reader's
buffer and the socket hold the units after the cursor, in order, until a reset. `OrderInv`: replies were to
requests that end before the cursor, each let the loop go on, and the request at hand is later than all of them. `WaitInv`, for
clients that wait for each reply: between two reads the cursor is between two requests and all those
before it are answered, so that the buffer which `from_socket` drops is empty. `DeservedInv` follows the request of an
error to the reply, and has for a dead thread the cause: the error handler's flag, the request at which `from_socket` panicked, the
unfinished reply, or the poison and a setting in which users may leave it.

**`SseStreamProofs`**, for every number of streams, events and requests: `EventsInOrder` (`StreamInOrder`),
`CloseIsAFlush` (`CloseFlushes`), `StreamsDoNotMix` (`NewStreamIsClean`). `ChannelInv`: a channel holds the events after those
that the worker is done with, in order, and a `Close` after them; what a worker is writing is still in it. `WireInv`: while the socket is
whole, each event that a worker is done with is on the wire, whole or, with a timeout, cut, and it came after exactly those with
smaller numbers; a stream whose head was cut was never used; a broken socket takes no more. Errors of writes are ignored as in the
code, so nothing here rests on writes that succeed. `WorkerInv` and `CleanInv`: a worker whose close has returned has ended.

**`RateLimiterProofs`**, for every finite set of threads, every set of addresses, limit,
period and delay: `TypeCorrect`, `OvershootIsBounded`, `ResetsAreApart`.
`OvershootBounded` needs `CountInv` (every admitted request that was counted is in the
table, or the table has reached the limit): an admission then finds fewer than `Limit` counted
and at most one per thread pending. That is all the bound speaks of: a request whose end hook is skipped is neither counted nor
pending any more (`EndSkipped`), and of those there is no bound. `OwnResetsApart` needs `StoredInv` (after a thread's own
reset, `last_reset` is at most `MaxDelay` older than that reset, whatever other threads store)
and `DueInv` (a thread that decided to clear has not cleared for a period).

**`ServerProofs`**, for every positive number of threads and every number of connections:
`TypeCorrect`, `StateIsThere` (`StatefulRoutesHaveState`), `StopsHaveCulprits`
(`StopsOnlyForCulprits`). What `check` looked at is gone when a connection
is handled, so the invariant has that a server that runs, or has run, still satisfies `Check`,
that connections are submitted only then, that a failed connection has a client that panics
(with the timeout not zero, that is one of the culprits), and that the owner stopped with one
culprit at the head of the queue, with as many failed connections as threads, or with a client that announced a body which
cannot be allocated; failed connections
are among the culprits, and cardinalities are compared. Culprits are connections that panic, through user code or through what
their client sends alone, and failed accepts.

**`QuoteBookProofs`**, for every set of workers and any number of quotes and crashes: `Restarts`
(`StartsAgain`), `IdsHaveNoGaps` and `NothingIsReplaced` (`NothingReplaced`), `PromisesAreKept` (`PromisesKept`).
`load` panics only over a piece of a line, and `PieceInv` says that one comes into
the file only by a mishap. `GapInv`: while there was no mishap that damages the file, the map, every
text that a worker is about to write and the lines of the file are beginnings of the sequence
of ids; each is empty, a copy of another one, or has the next id added. Two saves that cross, of which one is
short, would break that, and are mishaps. `PromiseInv`, for runs without a mishap: everything that was promised is in the
file or in one text that is about to be written (`Safe`); the map has it too and agrees with the file and all texts; a
worker's own quote is in the map and in its text, so that its write promises nothing it did not save.

The assumptions are the ASSUMEs of the modules (pool sizes, limits and the number of middlewares are
numbers, sizes and limits are positive, sets of threads finite, `MaxDelay` no longer than the period);
TLC evaluates them on every run.

**Only model-checked:**
- liveness, since the prover does not reason about ENABLED: `JobsEnd`, `DropReturns`, `StartsWhenFree`, `Released`,
  `Delivered`, `CloseEnds`, `WorkersEnd`, `Recovers`, `NobodyStarves`, also where the refinements have them;
- the operators on texts (`Codecs`, `Paths`, `Messages`, `Statics`, `Exchange`, `PasteBin`): they consume a text by recursion, and what
  they compute for every text would be shown by induction over it, which the prover cannot instantiate. So `Base64RoundTrip`,
  `DateIsCalendar`, `EventRoundTrip`, `RoutesAsDocumented`, `RequestRoundTrip`, `MultipartRoundTrip`, `ServesNamedFile` and
  `AnswerRoundTrip` hold for the inputs of `codecs`.

Not proved either, but read off the two modules: that a job of `ThreadedServer` is a `Handle`, whose end the server
knows as `Ends` or `Panics` of its client.

## 5. What the runs found

| Run | Where | What |
|---|---|---|
| `broken_response` | `handle.rs:59` | after a body whose `Read` fails, a keep-alive connection goes on behind half a response |
| `base64_inverse` | `base64.rs:59` | decoding an encoded byte slice gives other bytes if the code contains `+` or `/`, whose bits are shifted from the wrong end |
| `rate_limiter_one` | `ratelimit.rs:176` | with a limit of 1, the example's setting, a client that goes on sending is rejected for ever: the request that resets the table is counted in it |
| `static_path` | `serve_static.rs:58` | a static server whose path is set to anything but the root serves nothing: its path loses the leading slash that requests have |

The models have these divergences too, which no run of its own states: a pre hook's `Send` still
passes the post chain (`handle.rs:117`; `examples/basic/middleware.rs:19` says it is sent
immediately); no end hook runs for requests that match no route or whose route panics, and `end_raw`
is never called (`handle.rs:138`; `middleware.rs:10` of the examples); a route that panics while it
holds `req.socket` takes its thread along, since the writer unwraps the poisoned lock
(`response.rs:321`; `examples/basic/error_handling.rs:9`); an error response to HEAD keeps its body,
because Head's post hook does not see it (`handle.rs:129`; `head.rs:9`);
with `streaming(false)`, Head leaves an answer to HEAD an empty body, which `write` then gives a `Content-Length: 0` (`response.rs:297`;
`head.rs:13, 25` say that the option is whether the header is added to streams); closing an idle connection is
taken for a bad request (`request.rs:108`; `Changelog.md:54`); the paste bin decodes the fields of its form twice, so that a text with `%`
changes or panics (`application_paste_bin.rs:77`); requests whose end hook is skipped are not counted by the rate limiter,
so of those any number is let through between two resets (`ratelimit.rs:177`, `EndSkipped`; `ratelimit.rs:21` calls the limit
that of the requests that can be made, and `OvershootBounded` is about the counted ones only).

These behaviours contradict no document, but a user should know them. They are in the models too:
- A panic in `from_socket` ends the thread, since nothing catches it: the line of a header is cut two bytes before its end, which
  may be in the middle of a character (`request.rs:127`), and a `Content-Length` beyond the address space cannot be a `Vec`
  (`request.rs:141`; one that cannot be allocated aborts the process). So a client alone can end a worker, and as many as there are
  threads end the server (`ReadPanics`, `Panics`, `Aborts`).
- A hook that panics with `req.socket` locked poisons the mutex like a route does; the next response, or the shutdown
  (`handle.rs:74`), panics then.
- With a `socket_timeout`, a slow client makes the write of an event fail half way; the error is ignored and the next event
  follows the torn one (`server_sent_events.rs:114`). Without one, a client that does not read blocks the worker, `close`
  and everybody else who needs the socket.
- Percent-encoded UTF-8 is decoded byte by byte into characters (`url.rs:18`), so that `%C3%A9` arrives as two of them; `encode` takes
  the low byte of a character (`url.rs:42`). `RequestRoundTrip` sends what clients send and has this as its one exception.
- A 204 or 304 that is given no body keeps the default one, "OK", and is written with it (`response.rs:72, 297, 359`), which the client
  takes for the start of the next answer. `AnswerRoundTrip` has it as an exception.
- In `ServeStatic`, the examples of two docs have no effect: `disable("index.scss")` (`serve_static.rs:104, 116`) is compared with a
  path that has a slash in front (line 322), and `mime_type(".3gp", ...)` (line 210) with an extension that has no dot (line 335).
  `Statics` has `Disable` and `MimeType` as they are; the runs use `mime_type` with a bare extension and no disabled file.

## 6. Mutants

A definition named `...Mutant` stands before the definition it would replace and is a
plausible bug in that code: a guard dropped, a loop that runs once more, a reset forgotten,
the wrong end of a queue. No specification uses it. For every property of every passing run, `PROJECT.json` names one with
which TLC finds the property violated under the run's own configuration.

## 7. Plan

The models are complete as far as section 8 says, and their safety properties and refinements are proved. Left to do:

1. **Connections in the server**: `Server` knows what a client makes of its thread (`Ends`, `Panics`). One `Handle` for each job of
   `ThreadedServer` would make that a theorem, too, for the clients that `Server` tells apart.
2. **Lemmas about operators without recursion**: single steps of the codecs, such as a base64 block of three bytes, whose
   decoder needs bit operations that the prover does not have.

## 8. What is not modelled

- `web_socket.rs`: no module declares it, so it is no part of the crate; its reading side is a `todo!()`.
- `trace.rs` (global level, colour and formatter) and `Logger`: formatted lines for a console or a file, on which nothing
  depends. `RealIp`: a look-up of one header.
- SHA-1: 80 rounds on 32-bit words are beyond TLC as a check of anything but single vectors, and only the
  WebSocket uses it.
- Accessors that change a header, cookie or query in place, `Deref`s, conversions of addresses and errors, `Server::app`.
- ServeStatic's own middleware, and files that change while they are read.
- The time of day in the date header, reason phrases and MIME types as texts: each is named by its key.
- The ages that the paste bin's list shows, and pastes beyond ASCII.
- Threads that cannot be created: `ThreadPool::new` (`thread_pool.rs:74`) and `from_request` (`server_sent_events.rs:128`)
  panic then.
- Threads that a user starts with `req.socket` and that are no event streams: what they write, and the lock they may hold or poison.
- In `SseStream`, panics at a poisoned mutex (`response.rs:321`, `handle.rs:74`), which are in `Connection`; the streams themselves
  ignore poison (`force_lock`).

Undefined behaviour: the crate has no `unsafe` code.
