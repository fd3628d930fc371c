# HTTPageboy, in TLA+

A verification project for `httpageboy`, a small HTTP/1.1 server library (sync
and async runtimes). It consists of TLA+ modules translated from the source,
TLC runs on small instances of them, and theorems about them that TLAPS checks
for every value of the constants. Paths below are relative to the repository.

## 1. The system

| Component | Source | State it keeps | Operations | Interacts with |
|---|---|---|---|---|
| Worker pool | `src/runtime/sync/threadpool.rs` | worker threads and their `JoinHandle`s, an mpsc channel, a mutex around its receiver | `new`, `run`, `stop`, `Drop`; each worker's receive loop | the sync server (through a mutex around the pool), the jobs it runs |
| Request framing | `src/core/request.rs:57-258` | none: works on a connection's buffer | `take_framed_request`, `extract_body_headers` | called by the readers of all runtimes |
| Connection loop (sync) | `src/runtime/sync/server.rs:141-257`, `src/core/request.rs:599-715` | buffer, count of requests, timer of the current request | read, parse, route and handle, respond, hand over, end | socket, framing, router, handlers, upgrade handlers |
| Sync server | `src/runtime/sync/server.rs:20-139` | listener, routes, file sources, CORS policy, limits, the pool | setters, `run`, `run_until_shutdown`, `stop` | the pool; a shutdown channel |
| Async servers | `src/runtime/async/*.rs`, `src/core/request.rs:261-437` | the same, shared in `Arc`s; one task per connection | the same, with `accept` under a timeout | the runtime's executor |
| Routing | `src/core/request.rs:541-596,732-898`, `route.rs`, `handler.rs` | a `HashMap` from method and pattern to handlers | `parse_raw_only`, `extract_params`, `route_*`, `upgrade_handler` | connection loops |
| Response head, CORS | `src/runtime/shared.rs`, `src/core/cors.rs` | a policy | `response_head`, `response_or_default`, `header_lines` | connection loops |
| Static files | `src/core/utils.rs`, `request.rs:898-915`, `runtime/shared.rs:28-32` | the server's list of file sources; the file system | `add_files_source`, `secure_path`, `serve_file` | routing, the file system |
| OpenAPI generator | `src/bin/openapi_from_code.rs` | what it has read of the sources | reads sources line by line, sorts, writes one or two documents | none |
| Rest | `status_code.rs`, `lib.rs`, `main.rs`, tests, CI | none | tables, re-exports, a demonstration | - |

How they fit: the accept loop hands each connection to the pool as a *job*,
under a mutex that `stop()` also takes. A job runs `handle_stream`'s loop:
`parse_stream_sync` reads into the job's buffer until `take_framed_request`
finds a request in it, the request is parsed, routed and handled *inside*
`parse_stream_sync`, and the response is written. The loop ends on silence, on
an error, on a closing response, at the `max_requests`-th request, or when an
upgrade handler takes the stream over. The same worker serves a connection from
its first byte to its end.

What is hard to test here:

* *Concurrency*: several workers on one channel and one lock; `stop()` racing
  with `run()`; handlers that panic and take their thread with them; jobs that
  never end.
* *Segmentation*: the same bytes in any number of reads, several requests in
  one read, a request cut anywhere.
* *Time*: an idle timeout, a total one and a keep-alive one, of which the idle
  timeout is also what ends a body without framing.
* *Boundaries*: limits on heads, bodies, chunk lines and the number of
  requests; sizes up to `usize::MAX`.
* *Endings*: what is written last, what is left unread, who owns the stream; a
  client that does not read, writes that fail, a task dropped at an await.
* *A file system that changes* between the questions asked about one path.

`PROJECT.json` lists these as hazards, each at its line, with the properties
that would catch it going wrong, or a note on why none does.

What makes each component correct:

* *Pool*: an accepted job is run exactly once, in order, unless all workers have
  died; jobs do not wait behind long ones; `stop()` drains the channel and
  returns.
* *Sync server*: a shutdown lets in one more connection at most, serves what was
  accepted, in order, and ends; other callers of `stop()` do no harm.
* *Async servers*: a shutdown ends the loop whatever the tasks do and loses no
  waiting connection; the loop does not end unasked; `routes()` may be called
  again exactly when no connection is being served.
* *Framing*: cutting the stream into reads does not change the requests; the
  limits hold, and memory is bounded; what must be refused is, with its status.
* *Routing*: the parameters, the handler and the upgrade handler a request gets
  belong to one route, whatever the map's order; it is handled once, and not at
  all if it cannot be parsed.
* *Responses*: a client finds the end of each by HTTP's rules, takes none that was
  cut for a whole one, and is told when the connection closes.
* *Connection*: answers match requests, in order; one closing answer, as the
  last; received bytes are never dropped silently; no read outlives the
  deadline; a handover happens only after its 101, and loses no byte of a client
  that waited for it; the job ends. Answers are written in full and, if their
  requests carry framing, read by a client that waits for them; only a client that
  does not read can hold the task up.
* *Static files*: a lookup answers what one look at the files could have
  answered, and reads only paths in the directory registered.
* *OpenAPI generator*: each route is documented once, with its own comments, in
  a document whose mappings have unique keys.

## 2. Modules

| Module | Models | Kind |
|---|---|---|
| `ThreadPool` | `threadpool.rs`, and the pool mutex of `server.rs` | state machine |
| `JobExecutor` | what a pool promises (no channel, lock or thread) | abstract specification |
| `SyncServer` | `run_until_shutdown`, `stop`, the hand-over in `handle_stream`, around a `ThreadPool` whose jobs are connections | state machine, extends `ThreadPool` |
| `AsyncServer` | `run`, `run_until_shutdown`, `handle_stream`'s spawn and `routes` of the three async runtimes | state machine |
| `RequestFraming` | `take_framed_request`, `extract_body_headers` | pure operators |
| `Connection` | `handle_stream`, `parse_stream_sync`, and a client | state machine over `RequestFraming` |
| `Routing` | `parse_raw_only`'s parameters, `extract_params`, `route_sync`, `upgrade_handler`, the table of routes | state machine of a request |
| `ResponseStream` | `response_head`, `send_response`, `header_lines`, the end of `handle_stream`'s loop, and a client that reads responses | state machine |
| `DuplexConnection` | the loops of all four `handle_stream`s with `create_async_parse_stream!`, `send_response`, both directions of the socket, and a client | state machine |
| `HttpSession` | what a connection promises (no bytes, timers or parser); `Connection` and `DuplexConnection` implement it | abstract specification |
| `FileServe` | `add_files_source`, `serve_file`, `secure_path`, on a file system that others change | state machine |
| `OpenApi` | `parse_file`, `parse_route`, `parse_doc_comments`, `load_routes`, `emit_openapi`, `run` of the generator | state machine |
| `MCThreadPool`, `MCSyncServer`, `MCFraming`, `MCConnection`, `MCDuplexConnection`, `MCRouting`, `MCAsyncServer`, `MCResponseStream`, `MCFileServe`, `MCOpenApi`, `MCMessages` | instances, messages, file systems and sources for TLC | model checking |
| `ThreadPoolProofs`, `SyncServerProofs`, `AsyncServerProofs`, `ConnectionProofs` (with `RequestFraming`), `DuplexConnectionProofs`, `RoutingProofs`, `ResponseStreamProofs`, `FileServeProofs` | theorems | TLAPS |

Operators named `Mut...` are plausible bugs, each defined just above the
definition it replaces: putting one in its place must break the property it is
listed with in `PROJECT.json`, which shows that the property depends on the
code.

### ThreadPool

| Variable | Code |
|---|---|
| `queue` | the mpsc channel; a job stands for its `NewJob`, `Terminate` for itself |
| `rxLock` | who holds `Mutex<Receiver>` |
| `pc`, `task` | where each worker's closure is, and the job it runs |
| `stopPhase`, `stopNext`, `handles` | `stop()`: sending, then joining in the order of `workers`; the `JoinHandle`s not yet taken |
| `stops`, `status` | history: calls of `stop()`, the fate of each job |

`Run` is `ThreadPool::run`, with the ignored `SendError`: it fails once the
receiver is gone, which is when the last worker's closure is. `StopBegin`,
`SendTerminate` and `Join` are `stop()`; they and `Run` need the pool mutex
(`PoolIsFree`). A worker locks the receiver, waits in `recv()` holding the lock
(`LockReceiver`), takes a message (`ReceiveJob`, `ReceiveTerminate`), runs the
job without the lock, and loops (`Finish`) or dies of a panic (`Panic`).
`Drop` is one more `stop()`. Not modelled: `recv()` failing and the receiver's
mutex being poisoned. Neither can happen: a sender lives until `Drop` has joined
the workers, and no code that panics runs under that lock.

### SyncServer

| Variable | Code |
|---|---|
| the pool's | as in `ThreadPool`, of which the server is a user |
| `waiting` | the listener's backlog (the operating system's) |
| `loop`, `conn` | the statement of `run_until_shutdown` the loop is at, the stream it has accepted |
| `signal` | the shutdown channel: open, sent to, or its sender dropped |
| `stopper` | who holds the pool mutex in `stop()`: the loop or another caller |
| `arrived`, `late` | history: the order of arrival, the accepts after the signal |

`CheckShutdown` is `try_recv().is_ok()`, `AcceptConnection` and `AcceptNothing`
are the arms of the match on `accept()` (an error and `WouldBlock` both lead
back to the check, whatever the backlog holds). `HandOver` is `handle_stream` up to
`run()`, which waits for the pool mutex. `LoopStop` and `OtherStop` enter
`stop()`; `StopProceeds` and `StopEnds` are the pool's steps in it, split by
whether the call returns. A `stop()` before the loop has ended leaves the loop
accepting connections that the pool refuses: `GracefulShutdown` names this as
one of the two ways in which an accepted connection is not served. The server of
`run()` is the same loop in which `signal` stays `"open"`. A whole connection is
one job here; what happens in it is `Connection`.

### AsyncServer

| Variable | Code |
|---|---|
| `runtime` | the cargo feature: tokio, async-std or smol |
| `waiting` | the listener's backlog (the operating system's) |
| `mode`, `loop` | which of `run` and `run_until_shutdown` was called, and where it is: looking at the channel, in `accept()`, returned, its runtime dropped |
| `signal` | that call's shutdown channel: open, sent to, or its sender dropped |
| `task` | each connection's task |
| `refs` | the strong count of `Arc<HashMap<..>>`, the routes |
| `reply` | how the last `routes()` ended |
| `arrived`, `serves`, `late` | history: the order of arrival, the calls, the accepts after the signal |

`CheckShutdown` is `try_recv().is_ok()`; `run` has no such look, and its channel
stays open. `AcceptConnection` accepts and runs `handle_stream`, which clones
the `Arc`s and spawns the task without an await, so it is one step.
`AcceptTimeout` is the dropped `accept()` after ten milliseconds, also with a
connection in the backlog: smol's `race` may poll the timer first, and on each
runtime the connection may come just then. `AcceptError` ends `run` on async-std
only (`while let`). `TaskEnds` is the end of a task, by itself or of a panic,
which the executor or the task's own unwinding turns into dropped clones.
`Routes` is `routes()` with its `Arc::get_mut(..).unwrap()`; `Serve` a further
call; `DropRuntime` what happens to the tasks when the owner leaves, as the
threads of `tests/support.rs` do after `run_until_shutdown`. A task of tokio is
cancelled then; those of async-std and smol are with the process. Not modelled: two calls of `run` at a
time on one server, which `&self` would allow.

### RequestFraming

A byte is a token: CR, LF, or a piece of text the code looks at as a whole, of
width one. Positions, lengths and limits are therefore those of the code for
messages written in such tokens. `take_framed_request`'s loop over chunks is a
recursive function of the loop's variables (`ChunkState`), of which `TakeChunk`
is one turn. `WithinLimits` and `MemoryLimit` say what the limits are for. What
is inside a token: the case and white space of header
names, the digits of numbers. `ChunkOverflows` and `SatAdd` keep the width of
`usize` (`UsizeMax`). All 400s of a head have one verdict, since their order
does not show outside.

### Connection

| Variable | Code |
|---|---|
| `buffer`, `handled` | the locals of `handle_stream`'s closure |
| `started`, `elapsed` | `started` and `started_at.elapsed()` |
| `wait`, `waited` | the read timeout set on the socket, and how much of it has passed |
| `pc` | in the reader before a read (`parse`), in a read (`reading`), with a complete request (`handling`), or at an end |
| `request`, `out`, `served` | the request accepted, the responses written, the requests they answered |
| `setup`, `toSend`, `client`, `cut` | what the client sets out to send and how, with the server's keep-alive timeout; what is left of it, how the client ended, whether a pause or an end cut a message |

`Parse` is an iteration of the reader's loop up to the read, `Read`, `ReadEnd`,
`ReadTimeout`, `ReadError` the arms of the match on the read's result, `Handle`
the rest of `handle_stream`'s loop. `Panic` is a handler's panic, which happens
inside `parse_stream_sync`, before the request is counted. `Tick` is time in a
read, `Delay` time the thread is not scheduled, by which `elapsed` may pass the
deadline before it is looked at. A response is a record of what it answers
(`answer`, `switch`, `fault`, `refusal`, `timeout`, `truncated`), whether it
closes and, of those the reader makes, its status. The client is external: it sends its bytes in any pieces and at any pace,
and may close or reset at any time. A setup that is not `pipelined` is a client
that waits for each answer, and for the 101 before it sends a frame of the new
protocol. `SetupAssumption` says what the requests on a client's wire are, in
terms of the framing alone: of requests that carry their framing each is what
`take_framed_request` cuts off the bytes after the one before, and a pause
settles nothing; a request of a client that waits is complete by itself; `ends`
is where each one ends; what follows the last is no request, and gets the status
`refusal` (or none, if nothing is wrong with it but its end). TLC checks it of the
setups of each run, which say independently what each message should come to. A body without `framed` ends at a pause, so that what the server takes
for the request may be less than the client means: there the abstract session is
implemented only in the sense of `AnswersMatchRequests`, and `Faithful` leaves
such setups out of the refinement.

Writes take no time here and succeed: the client reads what it is sent. `JobEnds`
is to be read with that: a client that reads nothing can hold a worker in
`write_all`, which has no timeout (`BlockedOnlyByClient` of `DuplexConnection`).
For the pool such a connection is one of the `Endless` jobs.

### DuplexConnection

| Variable | Code |
|---|---|
| `sent`, `read`, `from` | the request cells sent, read into the buffer, and taken out of it; `started` is `read > from` |
| `request` | the request taken last |
| `fin`, `link` | the client's half-close; the connection: up, reset by the client, reset by the server's end |
| `pc`, `handled` | where the loop is; its count |
| `todo`, `after` | what `send_response` still writes, and where the loop goes then |
| `out`, `got` | the cells written, and how many of them the client has read |
| `script`, `mode` | what the client sends, and whether it waits for answers, streams, reads only when all is sent, or never reads |
| `meant`, `cut`, `done`, `cause` | history: all cells to be written, whether a body without framing was cut, the requests handled before that, why the task ended |

A request is the cells up to its `end`, an answer a head and `BodyCells`; a socket holds
`InRoom` cells one way and `OutRoom` the other. `Take`, `Refuse`, `Deadline` and
`Await` are what the reader may do before a read, `Read`, `ReadEnd`,
`ReadTimeout`, `ReadError` what may come of it. `Handle`, `Panic`, `Write`,
`WriteFails` and `Written` are the rest of the loop; a failed write is ignored,
as in the code, so the loop goes on to its next read. `Cancel` is a task dropped
at an await (tokio's runtime dropped, or the end of the process). `Leave` drops
the stream: with input unread, or arriving later, that resets the connection,
and the client loses the answers it has not read. Timers are choices: a timeout
may come in any read that finds nothing, `Deadline` at any incomplete request.

`Verdicts` is what `take_framed_request` may say of the buffer. A request is
`framed` or has a body without framing, which the reader takes for complete when
a read times out or the input ends (`AtInputEnd`), with all that has come by then:
less than the client means, if it pauses in the body, or requests behind it too,
if it streams. Such a request is `cut`; from then on the buffer does not begin
where a request does, and the verdicts and requests are arbitrary. A client that
waits and pauses in such a body gets an answer to what has come of it; what it
still sends is left unread or taken for something else, the close then resets the
connection, and the answer may be lost. So `HandledIsAnswered` and the session
speak of the time before a cut, the other properties of all of it.

### Routing

| Variable | Code |
|---|---|
| `table`, `order` | `HashMap<(Rt, String), RouteEntry>`, and the order it is gone through, which is any |
| `stage` | between which of `handle_stream`'s calls the request is |
| `req`, `params`, `response`, `upgrade` | the locals of the same names |
| `calls`, `taken` | history: handlers called and the parameters they saw, who got the stream |

A path is the sequence of its segments (`split('/')`), a segment a string, of
which those in braces are a route's parameters (`KeyOf`). `Register` is
`routes()`; `ParseRawOnly` takes the parameters; `RouteEarly` is the routing
inside the reader; `FindUpgrade`, `Respond` and `Reply` follow in
`handle_stream`. The handler is free to answer 101 or not. The three loops over
the map are searches of their own, as in the code, and `FirstMatch` is what each
finds. What cannot be parsed is `Refused`: the reasons do not matter here. The
handler of an exact route also sees the parameters of a pattern that matches;
the repository does not say whether it should, so no property is about it.

### ResponseStream

| Variable | Code |
|---|---|
| `policy` | the server's `Option<CorsPolicy>` |
| `handled`, `pc` | the loop's count; between requests, in `send_response`, in the upgrade handler or ended |
| `todo`, `after` | what `send_response` still writes, and where the loop goes then |
| `wire`, `eof` | what is on its way to the client, and whether the stream ends after it |
| `phase`, `current`, `got` | the client: how the connection stands for it, the response it reads, those it has read |
| `asked`, `meant`, `ending` | history: the requests' methods, the responses as HTTP means them, why the server ended unannounced |

`Answer`, `AnswerUnparsed` and `RefuseStream` are the ways in which the loop comes
to a response: a request routed; one that cannot be parsed and is replaced by
`Request::default()`, a GET; and `StreamRead::Error`, without a method.
`SendResponse` computes what `send_response` writes, `Write` is one of its writes
(`flush` changes nothing here), `Written` the rest of the loop. `Cancel` ends the
task at an await. The client is external: it knows the methods it sent and
applies HTTP's rules on where a response ends (`BodyLengths`). A header line is
a name with a value, and a head a set of lines, since the client does not mind
their order; a body is its length. Handlers' statuses of the 1xx class
other than 101 and a `Transfer-Encoding` of their own are left out: the code
sends what it is told there, and the client cannot follow.

### FileServe

| Variable | Code |
|---|---|
| `fs` | the file system: what each path is, and where links point |
| `bases` | `files_sources`, as `file_source_path` has registered them |
| `pc`, `full`, `canon` | which question of `secure_path` comes next, the path asked about, the answer of `canonicalize` |
| `response`, `results` | the answer to the request; what came of each base |
| `looks`, `relinked`, `homes` | history: the right answers since the loop turned to this base, whether a link on the way was changed since, the directory each base was when it was registered, unless a link has taken its place or a parent's since |

A path is the sequence of its names. `AskIsDir`, `AskCanonical`, `AskBase` and
`ReadFile` are the four calls of the operating system in `serve_file` and
`secure_path`; `Change` may come between any two of them: files and directories
come and go, links are replaced in one step. `Way` is the paths a name leads
over, one link after the other; a change of a link on it (`OnTheWay`) is
remembered, and so is a link put where a source's own directory was
(`Displaced`), after which the source can no longer mean that directory.
`StaysInside` is about the path that is read, which the code has checked: a link
put on that very path between `canonicalize` and the read is followed wherever
it leads, and nothing is claimed of that.
`WorldAssumption`: whatever there is is in a directory. `Answers` says, apart from the
code's steps, what a base answers in a file system at rest. Paths with `.` or
`..` (`canonicalize` resolves them) and content types are left out.

### OpenApi

| Variable | Code |
|---|---|
| `source`, `file`, `line` | the files in their order, and the next line |
| `comments`, `statement`, `above` | `comments`, `statement` (with `reading_route`), `statement_comments` of `parse_file` |
| `routes` | the `RouteDoc`s found |
| `docs`, `public`, `pc` | the documents written, and where `run` is |

A line is whether it starts with `//`, what `parse_doc_comments` sees in it then,
and the marks of a route call in its text: `route!(`, parentheses, commas, and
the path, method and handler between them. `ContinueLine`, `CommentLine`,
`RouteLine` and `OtherLine` are the branches of the loop over lines, `FileEnds`
and `ReadFails` the ends of a file; `Load` sorts and removes duplicates;
`WriteDocs`, `WritePublic` and `WriteFails` are the rest of `run`. Left out: the
fields from `Cargo.toml`, path parameters, wording, white space.

## 3. Runs

| Run (`.cfg`) | Instance | What it shows |
|---|---|---|
| `pool` (`Pool`) | 3 workers, 4 jobs, 3 of which may panic and one never end, 2 stops, fairness | no job is lost while a worker lives, `stop()` drains the channel and returns, a queued job starts while any worker is of use; the pool implements `JobExecutor` |
| `sync` (`Sync`) | 2 workers, 3 connections (2 may panic, 1 is endless), 2 stops, a signal or a dropped sender, fairness | accepted connections are served, in order, before the server returns; after the signal one more is accepted at most, and the server returns |
| `async` (`Async`) | 3 connections (1 is endless), 2 calls, each runtime, fairness of the loop | no connection is lost, `routes()` works when idle; connections are accepted, the signal ends the loop |
| `framing` (`Framing`) | 616 setups of `Connection`: pairs of 11 good, 21 bad and 3 unframed messages; reads of any size, a timeout, a close or a reset anywhere | each message is refused with its own status however it was cut, nothing that could be acted on waits, limits and memory bounds hold |
| `connection` (`Connection`) | 4 framed setups, pipelined; 3 with unframed bodies or upgrades from a waiting client; idle and total timeouts of 2 and 3 ticks, keep-alive 0, 1 or 3, 3 requests allowed, fairness | no silent drop, the deadline, answers match requests, one closing answer, handovers, `HttpSession` implemented; the job ends whatever the client sends |
| `duplex` (`Duplex`) | 6 scripts of up to 4 requests, 2 of them with bodies without framing, 4 kinds of clients, 2 cells of room each way, 3 requests allowed, fairness | answers are whole, only a client that does not read holds a task up; until such a body is cut, answers reach a waiting client and `HttpSession` is implemented |
| `routing` (`Routing`) | up to 3 of 7 routes, 2 kinds of entries, every order, 2 methods, 5 paths, 3 queries, a request that cannot be parsed | the searches agree, each request is handled once and by the right route |
| `responses` (`Responses`) | 2 requests, 2 methods, 40 responses of handlers, 4 policies | responses can be told apart, cut ones are noticed, closes are announced |
| `files` (`Files`) | 2 file sources, one of them a link to one of 2 releases, a page that is a file, a directory, a link or absent, 3 changes | a lookup is as good as atomic, skips no source, and the path it reads is in the registered directory |
| `openapi` (`OpenApi`) | 2 files put together from up to 3 of 10 pieces, 3 ends | each route is in the document once, with its own comments; three layouts are excepted, and harm no other route |
| `openapi_keys` (`OpenApiKeys`) | the README's example comments | a violation: see section 5 |
| `conn_deadline` (`ConnDeadline`) | one unframed request | a violation: see section 5 |

Why the bounds are enough. Three workers let one panic, one be stuck and one go
on; four jobs let the channel hold more than there are workers. Two stops are
an explicit one and `Drop`'s, or the loop's and another caller's; the last is
always left to the loop (`OtherStop`), so the bound never keeps it from ending.
Two workers and three connections suffice for `SyncServer`: one is in each
worker while another waits in the channel, in the loop or in the backlog, and
the hazards of larger pools are those of `pool`. All limits of `framing` are small enough that
each is exceeded by some message and reached exactly by another; a read may end
after any token, in every CRLF and every chunk. A connection's scripts hold more
requests than `max_requests` allows; the total timeout is neither a multiple of
the idle one nor smaller, so both end a read; keep-alive is longer than idle in
some setups, shorter in others and zero in two. `elapsed` goes one tick beyond
the deadline at most (`Delay`'s guard), which is enough for the code's test.

Two responses let the second show that the first was delimited wrongly, and the
second is the last allowed; bodies of no and two bytes let one be cut in between.

Two calls let a second one find tasks and a backlog left by the first; three
connections let one be served for ever, one end and one wait or be accepted late.

Three routes are the least that make two patterns and an exact route compete for
one path; the seven to choose from overlap in every way the search tells apart
(a literal against a parameter on either side, one name twice, the empty path,
the same path under another method).

With two cells of room each way, a script of six cells fills both directions of
the socket, so that the client and the server wait for each other when the
client reads nothing before it has sent everything; with one body cell an answer
can be cut between head and body.

Three changes let the file system differ between any two of the four questions,
and let it change back; the worlds have a link as the source, a link as the
page, within the release and out of it, a directory with and without an index, a
release removed and replaced by a link to the other, and a file with the page's
name in the second source. `MaxLinks` is the longest
chain of links in them.

The ten pieces have calls as the README writes them and in the three layouts of
which section 5 speaks. Three pieces let a comment pass from one piece over a second to a third, or
from one file to the next, and let a route be repeated with another in between.

All runs check for deadlock. A stuttering step stands for the states in which the
system may rest (a stopped pool, a server that returned, an ended connection), so
that any other state in which everyone waits is reported.

### Fairness

* *Pool*: weak fairness of each worker's locking and receiving, of `stop()`'s
  steps, and of the end of jobs that are not `Endless`. Threads are scheduled by
  the operating system; the receiver's lock is taken by some worker whenever it
  is free. Nothing obliges anyone to call `run` or `stop`.
* *Sync server*: the same of the workers and of `stop()`, and weak fairness of
  each step of the accept loop, which never blocks: the listener does not
  block. Nothing obliges clients to come or the owner of the channel to signal.
* *Async servers*: weak fairness of the look at the channel and of `accept()`
  returning, and strong fairness of accepting: timers and accept errors keep it
  from a waiting connection now and then, but not for ever. Nothing is asked of
  the tasks, the clients, the owner or the end of the runtime.
* *Connection*: weak fairness of the reader's steps, of the handler's return and
  of time. Of what the client sends, nothing is asked: `JobEnds` holds against
  one that stays silent.
* *DuplexConnection*: weak fairness of the task's next step, which stands for the
  thread or the executor, for time and for the handler; a client whose mode says
  that it reads does so in the end, and one that sends first goes on sending.
  Nothing is asked of the others: a client that waits may never send.

## 4. Proofs

All theorems hold for every value of the constants under the named assumptions
of the modules: `PoolAssumption`, `AsyncAssumption`, `FramingAssumption`,
`ConnectionAssumption`, `SetupAssumption`, `DuplexAssumption`,
`RoutingAssumption`, `StreamAssumption`, `FileAssumption` and
`WorldAssumption`. They state what the code gives (a pool has a worker,
`assert!(size > 0)`; `max_requests` is at least one, `set_max_requests`), what
the parts outside it are (a client's requests, a file system), and typing.

*ThreadPoolProofs.* The invariant `IInv` adds to the properties what makes them
inductive: behind a terminated worker only `Terminate`s are queued; between
stops a live pool has neither seen nor queued one; a channel without a receiver
is empty; a joined worker is gone; and, in place of the cardinalities of
`JobPlacement`, that a queued job has one position and a running one one worker.
`StopDrains` needs the join of every worker; `JobsBeforeTerminate` the pool
mutex; `LossMeansAllPanicked` follows because a worker that terminated has seen
the end of the jobs. `StopSupplies` counts `Terminate`s against live threads,
with lemmas about cardinalities of positions in a sequence. `PoolExecutes` is
the refinement of `JobExecutor`: `Run`, the two ends of `stop()`, and a worker's
receiving and dying are its steps, all others leave its variables alone. The
abstract backlog is what stands in the channel in front of the first `Terminate`
(`JobsInFront`, with lemmas on what sending and receiving do to it); a worker
that receives a `Terminate` retires, which needs that the backlog is empty then.

*SyncServerProofs.* The server's actions are written with those of the pool, so
the invariant of the pool carries over (lemma `StepRefines`; it says nothing of
its own about the code). `SignalIsHeeded` needs that a
connection accepted late leaves the loop on its way to the check.
`ShutdownIsGraceful` rests on four facts: before the first `stop()` no
worker has been told to end; an arrived connection is in the backlog, in the loop's hands or
given to the pool; a refused one had a reason; and when the loop has returned,
every worker is gone, so that the pool's invariant leaves no connection queued
or running. `ServedInOrder` follows from one more invariant, `FInv`: the
connections handed over, the one in the loop's hands and the backlog make up
`arrived`, in this order, and those in the channel stand in it as they arrived,
behind all that were started.

*AsyncServerProofs.* `IInv` adds that a connection in the backlog is there once
and has no task, so that an accept starts a new task and the count of references
grows with the set of running tasks; that this set is finite, although the
connections may be infinitely many; that what was accepted late leaves the loop
at the check; and that only `run_until_shutdown` has a channel.

*ConnectionProofs*, in five parts.

1. The framing. `ReadsDoNotMatter` is about two byte strings of which one begins
   the other: a request found in the shorter one is found in the longer one,
   with the same bytes used; a refusal stays a refusal, with its status. It goes
   through the search for line ends and separators (`Search`), the turns of the
   loop over chunks (`ChunkStands`) and the kinds of bodies. That the loop, a
   recursive function over unbounded numbers, is what its turns say
   (`ChunksTurn`) is shown without an induction theorem: a set of numbers has a
   smallest element, so there is no least distance from the end of the buffer at
   which the function does not exist (`LoopFromLate`), and none at which a claim
   about it fails (`ChunkedStands`, `ChunkedBounded`).
2. The limits. `FramingWithinLimits` counts the bytes before a turn of the loop
   over chunks (`Accounted`): a head, chunk lines, data, and a line break for each
   chunk, whose line has at least three bytes. So the bytes of an incomplete
   request are bounded by `MemoryLimit`, although the limits themselves say
   nothing of the line breaks; and what is handed on is within the limits, also
   where `saturating_add` saturates, since `checked_add` refuses there.
   `KeepsToLimits` carries both over to the connection, whose reader looks at
   its buffer before it reads on (`Held`).
3. The control state. `IInv` adds three facts: bytes in the buffer have started
   the timer (so the silent ends, `Idle` and `Closed`, find it empty); while the
   loop runs each counted request has one response and the count is below
   `max_requests`; a read in progress ends by the deadline. Of the framing it
   takes only that a refusal has a status.
4. The requests and the refusals. `WireInv` says where the connection is on the
   client's wire: the requests served are the first ones, the one in the handler
   is the next, and behind it come the buffer and then what the client still
   holds; and, of a client that waits, that the buffer holds no more than one
   request and the client did not leave in the middle. A step of the reader keeps
   it because of `ReadsDoNotMatter`: the verdict on the buffer is the one on the
   whole rest of the wire (`FramedCut`), or, for a client that waits, on the
   request alone (`AloneCut`). `HandlersSeeWhatWasSent` and `HandoverKeepsBytes`
   follow. A refusal, too, is the verdict on the whole rest (`RefusedLast`: a
   pause makes no difference to it, and a request that begins the rest cannot be
   refused), so that it comes behind all requests and with the status of what
   follows them (`RefusesWhatIsDue`). And when all bytes are there, the buffer of
   a thread that still reads is the whole rest, which is then neither a request
   nor refused (`NothingDueWhileWaiting`). They say for every plan of a client
   what the runs say of 623.
5. The refinement of `HttpSession` (`SessionImplemented`), whose one step is
   `Handle`.

*DuplexConnectionProofs.* `IInv` adds to the three invariants of the run: where
the buffer begins (`InStep`: until a cut, behind the requests taken, which are
the client's first ones); where the loop is (`Loop`: the count stays below the
limit while the loop goes on); what was meant to be
written is what was written and what still is to be (`Writing`); answers
follow each other in the order of requests (`InOrder`); and a client that waits
has read the answers to all the requests it has gone beyond (`Waited`), from
which `AnswersReachTheClient` follows: the connection dies of unread input only
behind such answers. In the refinement of `HttpSession` (`IsASession`) a
handler's return, `Handle`, is the only step that answers.

*RoutingProofs.* The lemmas `OneFirstMatch` and `FirstMatchFound` say that a
search ends at one route, and at one if any matches (from the well-foundedness
of the naturals). The invariant says what each stage knows of the search: the
parameters taken are those of the first match, a routing that found nothing
means there is nothing to find (so the second finds nothing either), the handler
called is that of the exact route or of the first match, as is the upgrade
handler. All properties of the run are proved, for every table and request.

*ResponseStreamProofs.* `IInv` is `Types /\ Stream /\ Understands /\ Serves`.
Each cell on the wire has a place: the response it belongs to, and where in
it. `Stream` says that the places of the cells on the wire follow one another
from where the client is to where the server is, and that each cell is the one
that belongs there. What remains to show for each step is local: a head makes a
client expect as many bytes as the server goes on to write (`BodyLengths` of the
head's lines against the body sent, for each method, status, policy and set of
headers of a handler), and a stream that ends inside a response leaves the client
short of bytes.

*FileServeProofs.* `IInv` is `Types /\ EndsWell /\ HomesStand /\ StaysInside /\
Learned /\ LookIsAtomic`. `HomesStand`: as long as no link displaces it, a
directory registered is its own canonical path, and the base that passes the
check lies around the path that is read. `Learned` is what the answers to the
questions asked so far mean later on: each still holds, or there was a moment,
among those noted in `looks`, at which the base had nothing to give, unless a
link on the way was changed. The lemmas before it are about following links: a
path without links leads to itself, a change off the way does not change where
it leads, a file that can be canonicalized is reached by its canonical path.

Some facts are proved and not checked in a run of their own, since the theorem
says more than the run would: the type invariants of `ThreadPool`, `SyncServer`,
`Connection`, `Routing` and `AsyncServer`; `JobPlacement`, `NoJobBehindTerminate`
and `TerminateForEachWorker` of the pool; `OneAcceptAfterSignal` of the async servers;
`HandoverSound`; `RefusedReachesNobody`; `ReturnsOnlyWhenTold`.

What stays with TLC: liveness (`EveryJobServed`, `StopReturns`,
`ShutdownReturns`, `EachIsAccepted`, `JobEnds`, `BlockedOnlyByClient`), which is
outside the prover's reach; which status each malformed message gets
(`SetupAssumption` takes it as given, and TLC evaluates it for the 21 of the run);
and `RoutesFound`, whose documents come of folds and sorts over sequences, which
only induction reaches.

## 5. Findings

`conn_deadline`. `request.rs:7` documents the request timeout as the "maximum
total time to receive one complete request", apart from the idle timeout of
line 5. The reader waits for the smaller of both and treats a timeout of either
kind as the end of an unframed body (`request.rs:635,676-693`). So when the
total time runs out while such a body still arrives, without any idle pause, a
truncated body is dispatched to the handler instead of being refused with 408.
A framed request in the same place is refused.

`openapi_keys`. The README promises that `cargo openapi` "generates OpenAPI 3.2.1
directly from implemented `route!(...)` entries" (`README.md:141`) and gives
`errors: invalid_token, insufficient_permissions` as a comment it understands
(`README.md:181`). Each error becomes a response `"400"`
(`openapi_from_code.rs:157`), and each response a mapping entry of its own
(`openapi_from_code.rs:375`), so that this very comment makes a mapping with a
key twice, which OpenAPI does not allow. Two handlers of one path and method do
the same to the path's methods.

One more disagreement has no run of its own; `RoutesFound` excepts it by name
(`unclear`) and is checked in its presence. The same line of the README, and
line 194 ("Missing or incomplete comments are not blockers: generation continues
with the route method, path, handler name"), promise the document of all routes
in the code. `parse_file` takes one route from the line or lines of a call
(`openapi_from_code.rs:226-242`): a second `route!(` on a line is not in the
document. Neither is a route with a comment between `route!(` and its path, since
`extract_route_path` wants the path there (`:48-51`). And comments above a
commented-out call are kept for the next route (`:221-223`), which gets them as
its own if it follows directly.

## 6. Plan

Done: every component with state or behaviour of its own has a module, and each
but the OpenAPI generator has theorems: all safety properties of the runs `pool`,
`sync`, `async`, `framing`, `connection`, `duplex`, `routing`, `responses` and `files`, and
the refinements of `JobExecutor` and `HttpSession`. Left, all of it
proofs:

1. Facts about the parts of the connection that are now separate models: that the
   responses `Connection` counts are those `ResponseStream` delimits.
2. Lemmas about the OpenAPI scanner's state (a statement's comments are those
   above it), as far as they do not need what a fold computes.

## 7. Not modelled

* Status code tables, re-exports and feature selection (`lib.rs`), the
  demonstration (`main.rs`), `Display` and printing, content types, tests, test
  macros and CI: they have no state or behaviour of their own.
* `CorsPolicy::from_config_str` and the checks within a request line: text
  handling whose result is one value or one refusal here.
* `server.rs:120`: whether an accepted stream inherits the listener's
  non-blocking mode depends on the operating system (Linux does not pass it on).
  The hazard is listed without a property.
* Statuses of the 1xx class other than 101 and a `Transfer-Encoding` set by a
  handler: the code sends what it is told, and no client can follow.
* Two calls of `run` at a time on one async server, which `&self` would allow.
* Of the OpenAPI generator, nothing is claimed of a failed write of the second
  document: it leaves the first one as newly written.
