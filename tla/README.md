# Specification of KV-Server

KV-Server is a key-value server on LevelDB that speaks the Redis protocol. One
thread runs an epoll loop over all client connections: it reads what arrived,
parses it incrementally, runs each request at the byte that completes it, and
collects the replies, which it writes when the socket is ready. This directory
holds TLA+ models of that program, TLC configurations that check them on small
instances, and proofs for instances of any size.

## The system

| Component | State | Operations | Interacts with |
|---|---|---|---|
| Connection, class `Conn` (`src/src/kv_conn.cc`) | `read_buffer_`, positions, `state_`, `left_`, `bluk_length_`, `argv_`, `data_`, `Reply_`, flags | `AnalyticData`, `Finterpreter`, `Parsing`, `Splice`, `Add`, `Assert`, `Memmove`, `GetRequest`, `SendReply` | the socket (read, write), epoll (`SetRead`, `SetWrite`), the commands |
| Event loop, `main` (`src/src/echoserveri.cc`) and `ClusterEpoll` (`src/src/kv_cluster_epoll.cc`) | `conn_map`, `events`, `keepRunning`, epoll's registrations | `WaitEpoll`, accept, read, close and write handlers | every `Conn`, the kernel |
| Commands (`src/src/kv_command.cc`) | the command table | `lookupCommand` and one function per command | storage, `conn_map` (CLIENT LIST), statistics (INFOR) |
| Storage engine (`src/src/storage_engine.cc`) | `is_open_`, the handle `leveldb_`, the files of LevelDB | `Open`, `Close`, `FlushAll`, `Set`, `Get`, `Delete`, `Keys`, `Dbsize` | LevelDB, the shell (`rm -rf`) |
| Statistics (`src/src/serverstats.cc`) | `int` counters, the last sample, the number of clients | `Calculate` once per loop, `Add*`, getters | the loop, `Conn`, INFOR |
| System-call wrappers, Rio (`src/src/csapp.cc`) | `rio_t`: a read buffer | `Accept`, `Open_clientfd`, `rio_*`, `P`, `V` | the loop (`Accept`), the client, the thread pool |
| Client (`src/src/echoclient.cc`) | a line buffer, a `rio_t` | send a line, wait for a line, print it | the user, a server |
| Legacy encoder and file store (`src/src/kv_encode.cc`, `src/src/kv_io.cc`) | a text file | not called, but for `orderTolower` | none |
| Thread-pool prototype (`src/test/sbuf.c`, `src/test/echoservert.c`) | bounded buffer, `front`, `rear`, three semaphores | `sbuf_insert`, `sbuf_remove`, accept, echo, close | main and worker threads, descriptors |

What is hard to test in it, and what makes it correct:

- *Incremental parsing.* A read may end at any byte. The requests that run must
  be those that were sent, complete and in order; no complete request may wait
  in the buffer; the asserts must hold; the buffer must keep room to read.
- *Batches of events.* The handlers of a batch close and accept connections
  while later events of the same batch still wait. Every event must be handled
  with the connection it was reported for, and the blocking calls must not block.
- *Bookkeeping.* `conn_map`, descriptors and registrations must agree on all
  paths, and each reply must be delivered once.
- *Failure.* Clients close and reset at any moment, accept fails at the limit
  of descriptors, a client may stop reading.
- *Progress.* `SetRead` and `SetWrite` alternate; a path that skips one leaves a
  connection waiting for an event that cannot come.
- *Storage.* The process may die, or LevelDB refuse, between the steps of a
  command; what was acknowledged must be there afterwards, and the handle must be
  usable.
- *Numbers.* The statistics are `int`s that wrap and are sampled when the second of
  the minute changes; what INFOR shows must still be of one interval.
- *Threads.* Main and the workers of the prototype share a buffer under three
  semaphores, with descriptors whose numbers come back: each connection must be
  served once and in order, without a deadlock.
- *Short reads and writes.* The client's lines arrive and leave in pieces, with
  interrupted calls; no byte may be lost, and no answer be mistaken for another's.

PROJECT.json lists each of these hazards with its line and the properties for it.

## Modules

| Module | What it is |
|---|---|
| `RespWire` | the bytes of pipelined requests, as clients write them (external to `src/`) |
| `Conn` | one connection at the level of bytes: parser, request execution, replies |
| `RequestStream` | abstract: the stream of requests that a connection promises its client |
| `EventLoop` | the thread, epoll and any number of connections at the level of requests |
| `Sessions` | abstract: independent sessions of all clients |
| `StorageEngine` | the handle of LevelDB and what it stores |
| `Commands` | the commands on the storage engine, from start to end or crash of the process |
| `SBuf` | main and the workers of the thread pool, their buffer, semaphores and descriptors |
| `Dispatch` | abstract: each connection is served once, by one worker, first come first served |
| `ServerStats` | the statistics under the calls of the loop, and what INFOR shows |
| `EchoClient` | the client and the Rio package against any server that answers lines |
| `RespWireProofs` | what the bytes of a request are, and where they stand on the wire |
| `ConnParserProofs` | the methods of `Conn`, from `Memmove` to `Finterpreter` |
| `ConnProofs`, `EventLoopProofs`, `CommandsProofs`, `SBufProofs`, `ServerStatsProofs`, `EchoClientProofs` | proofs about the module in the name |
| `MCConn`, `MCEventLoop`, `MCCommands`, `MCSBuf`, `MCServerStats`, `MCEchoClient` | instances for TLC |

`EventLoop` abstracts from `Conn` (the parser is `Parse`, one segment at a time) and
from the commands (a request has a reply, has none, is `exit` or `shutdown`);
`Commands` composes `StorageEngine` with the process. `ServerStats` sees the loop
as a number of clients and a sequence of handlers. `SBuf` and `EchoClient` are
programs of their own.

**Conn.** The members of the C++ object are fields of the record `conn` and its
methods are operators from record to record (`Assert_` is `Conn::Assert`). One
read with the resumption code of `Finterpreter` is the action `Read`, one
iteration of its loop is `ParseLoop`. A byte is its character code because the
code compares `'$'` with an index. A failed assert or undefined behaviour sets
`status` and stops the handler. `left_` is not initialised by the constructor,
so it starts with any value of `Uninit`. `interest` is what `SetRead` and
`SetWrite` registered. A request's command is a value of `Effect`: it replies,
stays silent, is `exit` or `shutdown`.

**EventLoop.** A client's bytes are segments: `"part"` does not complete a
request, every other segment completes one. `WaitEpoll` takes any non-empty set
of at most `MaxEvents` ready events, and the handlers of a batch run in any
order. `owner` is the kernel's view of a descriptor, `conn_map` the program's.
Accept takes any free descriptor, so that descriptors are reused as soon as
they can be. `Write` is one call of `write` and moves one reply; it has no step
while the socket is full, because sockets are blocking, and the thread then
waits with it. `due` is a history variable. The loop sees the parser of `Conn`
as `Parse`, one segment at a time.

**StorageEngine, Commands.** The thread runs one request at a time, so a command
is one action, except where the process may die half-way: MSET is one action
per pair (`MsetPair`), and FLUSHALL is cut before and after its shell command,
which is another process. LevelDB is a map that outlives the process; a write,
a read, an open and the start of a shell may fail. So may the shell or its `rm`, which
`FlushAll` does not see: it looks only for the -1 of a shell that was not started. And
when the server dies while it waits, its shell ends with it or goes on (`AbandonShell`).
`files` says what becomes of the directory: `"shell"` while such a shell removes files,
also under a server that was started meanwhile and acknowledges writes (`OldShell`);
`"torn"` when no shell runs but files may be missing; and `"whole"` again when FLUSHALL
removes all, or when LevelDB opens what is left. What it finds then is up to
LevelDB: the model allows any contents, and that it does not open. (The shell
inherits the listening socket, so that in most cases the next server cannot listen before
it ends; the model does not rely on that.) A wrong index or handle leads to the
program counters `"oob"` and `"badhandle"` (`BadAccess`), after which the process
may crash and start again. `possible` is what a client must reckon with for each
key: both values while a write is not answered or was answered with an error,
the new one after OK, the one it read after GET and MGET, and anything when files that
were removed in part are opened (`Reckoned`), from where it counts replies again.
A reply is a sequence of items; a value of `MultiLine` has a line break, and GET, which
writes it as a simple string, makes two items of it (`Simple`), as INFOR does of its
many lines. GET and MGET answer nil
for every status of LevelDB that is not ok: with `"get"` in `Failures` any key of a
request may be `Lost`, and a nil tells the client nothing. `failed` remembers that
LevelDB refused to open or that no shell started. `SameDir` says whether `./db` is
the directory that `DB_Delete_Sentence` names.

**SBuf.** The fields of `sbuf_t` are `buf`, `front`, `rear` and the semaphores `sem`.
Every `P`, every `V`, and the load and the store of `++rear` and `++front` are
steps of their own (`WaitSlot`, `Lock`, `Load`, `Store`, `Unlock`, `PostItem`, and the
same for a worker), so that nothing but the mutex makes the access atomic. `front`
and `rear` are `int`s that are never reset: `Increment` wraps at `IntMax`, `Slot` is
`%` as C defines it, and an index that is not in `buf` is the program counter
`"crashed"`. `Accept` takes the lowest free descriptor, as the kernel does, and fails when
there is none; `Accept` of `csapp.cc` then exits the process. `echo` is external: it
ends when its client does, and never for the clients in `Idle`.

**ServerStats.** `Calculate` is the top of the loop, `Accept`, `Read`, `Eof`, `ReadFails`
and `Reply` are the handlers with the `Add` functions they call; the clock ticks at any
moment, also for whole minutes within an iteration (`stalled`). Counters wrap at
`Half`, and so do their differences; `/` rounds towards zero. `Unset` is the value of
the fields that the constructor leaves alone. `total`, `window`, `last`, `first`,
`calculated` and `sampled` are history: what really happened, and when.

**EchoClient.** `rio_buf`, `rio_bufptr` and `rio_cnt` are the members of `rio_t`, `buf` the
line of `main`, `bufp` the progress of `rio_writen` or `rio_readlineb`. A `read` or
`write` moves any number of the bytes it may, or is interrupted; `ReadByte` is one
turn of the loop of `rio_readlineb`. The server is external: it answers each line
with a number of lines that the run chooses, or closes or resets at any byte. Its
bytes are numbered as they are sent, and those of the user are negative, so that a
byte that is lost, repeated or mixed up is visible. `typed`, `shown` and `stream` (the
server's bytes among what was printed) are history.

## Runs

| Run | Question | Bounds |
|---|---|---|
| `conn` | Does the parser run what was sent, however it was cut, and does the connection implement `RequestStream`? | 5 scripts, all fragmentations, resets, buffer of 24 bytes |
| `conn_split` | Do the asserts hold if CR and LF of a header line come apart? (no) | 2 requests |
| `conn_37_bytes` | Is a complete request always run? (no) | 1 request with a 26-byte argument |
| `conn_silent` | Is every request answered after a command without reply? (no) | 2 requests |
| `loop_faults` | Fresh events, no blocking handler, no leak, reply accounting, sessions, with clients that close and reset and an accept that fails | 2 clients, 2 descriptors, batches of 2, 2 requests each |
| `loop_answers` | Does every client that reads get its answers? | 2 clients, batches of 1, 2 requests each |
| `loop_slow_reader` | Also next to a client that does not read? (no) | 2 clients |
| `loop_broken_pipe` | Does the server outlive a client that resets? (no) | 2 clients |
| `commands` | Do commands stay within their request, use an open handle only, keep what they acknowledged, and which answers are no value of the protocol? | 2 keys, 2 values of which one has a line break, 22 requests, any number of them, 2 crashes, failing reads, writes, opens, shells and removals |
| `sbuf` | Is each connection served once, in order and at last, and what do the limits cost? | 2 workers, 2 slots, 7 connections, 4 or 5 descriptors, `IntMax` 5 |
| `stats` | Is what INFOR shows of one interval, as old as its iteration, and set? | ints of 3 bits, minutes of 3 seconds, 6 seconds, 2 events in an iteration |
| `client` | Are lines sent once and printed whole, in step and at last? | `rio_buf` of 2 bytes, lines of up to 4 bytes, 2 lines typed, 0 to 2 lines of answer |

The runs that expect a violation show disagreements of the code with its
documentation or asserts; the findings in PROJECT.json quote both sides.

**Bounds and restrictions.** The scripts of `conn` contain a payload that looks
like protocol, a payload longer than the buffer with a two-digit length, ten
arguments, and requests after `exit` and `shutdown`; 24 bytes are fewer than
the longest request and more than the longest header, so that the buffer wraps
within each frame. The passing runs of `Conn` leave out exactly what the
violating runs show: headers cut between CR and LF (`SplitKinds`), a buffer of
37 bytes or more (`MaxLine`), empty arguments and NUL bytes, and commands without
a reply. Cuts between the CR and LF of a payload, and all other cuts, are
included. For the loop, two clients and two descriptors are enough for a
descriptor to be closed and reused within one batch, and the fault `enfile` makes
accept fail at any time. With three clients on two descriptors and batches of three
the safety properties hold too (set `Clients <- ThreeClients`, `MaxRequests = 1`), but
the run shows nothing that this one does not, and the proof covers any number. One reply fills a socket (`SndBuf`), so that
`SendReply` blocks in the middle. Clients and descriptors are interchangeable in
the safety runs, whose properties quantify over them, and symmetry is used there
(also for `SessionsSpec`, which is checked step by step); the liveness runs
do without. Deadlock is not checked: connections, clients and the
server end.

The requests of `commands` name every command, repeat a key within MSET and
MGET, and include short and unknown ones. Two crashes let one follow the recovery
from another, and a server start and FLUSHALL next to a shell of an earlier server;
a crash of the machine, with the loss of unsynced writes, is not modelled.

In `sbuf` the third client never ends, so that one worker serves for ever and the
other has to serve all others; seven connections fill both slots, both workers and
main, reuse each descriptor, and take `rear` over `IntMax`. Four descriptors
are as many as `ExitsOnlyBelowLimit` says may not be enough, five are enough.
In `stats` ints of three bits wrap within the run, a minute of three seconds lets
the second come back after a pause, and at most one failed read falls
between two samples (fewer than a unit of `input_kbps_`; more make the traffic
smaller than it was by more than a unit). In `client` a buffer of two bytes is shorter than
a line, and `maxlen` leaves room for three, so that lines of four are cut by
`rio_readlineb`.

**Known divergences without a run.** These follow from a change of constants, and are
left out of the passing runs above:

- an empty argument, or a NUL byte in one, is not kept: `Scripts <- MCEmptyArgument` or
  `MCNulArgument` in `MCConn.cfg` violates `ExecutedPrefix` (`Conn::Add` skips an empty
  one, the C strings end at NUL);
- DELETE without a key reads beyond its request, because the table asks for one
  argument too few, and so does MSET with a key and no value:
  `Requests <- ShortRequests` in `MCCommands.cfg` violates `ArgvInBounds`;
- FLUSHALL with a working directory other than the one in `DB_Delete_Sentence` says OK
  and removes nothing: `SameDir = FALSE` violates `StoreMatchesReplies`.

Others are part of a passing run, whose property says where they happen and that they
happen nowhere else:

- three replies are no value of the protocol that `docs/README.md:8` promises: GET of a
  value with a CR or LF, which the parser accepts, is a simple string and the rest of the
  value; INFOR is many lines after one `+`; CLIENT LIST sends its array header after the
  elements (`OneValuePerReply`, an equivalence). COMMAND sends `echo.txt` as it is: the file of
  the repository is one array of 200 entries, which nothing in the code sees to;
- FLUSHALL answers OK whatever became of `rm`: of the contents after one that failed
  `StoreMatchesReplies` says nothing but that they stay;
- a server that dies in FLUSHALL may leave a shell that removes what the next server
  acknowledges: `StoreMatchesReplies` starts again with the next open without such a shell;
- a FLUSHALL whose shell does not start, and an open that LevelDB refuses, leave a handle
  that is deleted or null, and the next command uses it (`HandleUsable`, `failed`).

**Fairness.** The thread takes a step when it can (`WF_vars(Server)`; a process
that is scheduled). Each descriptor that stays ready is reported at last (the
kernel rotates its ready list; `SF` because a descriptor is not ready while its
own event is handled). A client completes a request it began, and the clients in
`Readers` receive what is there. Nothing is assumed of other clients. In `Conn`
the server reads what is there and goes on parsing, with `ENABLED` written out. In
`SBuf` each thread goes on when it can (`WF` for main's insertion and for each worker: threads
are scheduled); semaphores hand out no order, connections may stop to arrive, and
clients in `Idle` never end. In `EchoClient` the client goes on when it can, and the
server sends the lines it owes; the user may stop to type.

**Refinement.** `Conn` implements `RequestStream`, `EventLoop` implements `Sessions`,
and `SBuf` implements `Dispatch`: the safety parts, checked as properties in `conn`,
`loop_faults` and `sbuf`, and all proved.

## Proofs

`ConnProofs` proves the safety properties of a connection at the level of bytes: for
scripts of any number of requests, arguments of any number and length, every cut into
reads, every value that `left_` may start with, every size of the buffer, and a client
that resets at any moment. `TypeCorrect`, `AssertsHold`, `RequestsInOrder`,
`NoneLeftBehind`, `NothingOwed` and `RoomIsLeft` follow from one inductive invariant,
`IInv`, and `IsStream` is the refinement of `RequestStream`. The properties alone are far
from inductive: that the next request will run right depends on every field of the
parser. `IInv` therefore says where the parser stands on the wire:

- `TypeInv`: the types, and that the wire is the one of a script;
- `HistoryInv`: what ran is a prefix of the script (`Done`), and each request that ran has
  its reply in `Reply_` or at the client;
- `ControlInv`: what `status` and the flags say of the state of the handler, and that a
  handler which is done leaves `read_pos_` at 0 and room in the buffer;
- `QuietInv`: a connection that waits has run all that it has read (`Whole`) and, if it is
  about to read between two requests, owes nothing;
- `ParserInv`: the buffer holds the last bytes that were read (`Buffered`), and `read_pos_`
  is at one of the places of a request: before it, at a number, before an argument, in
  a payload, behind it. Each place fixes `state_`, `bluk_length_`, `left_`, `argv_` and `data_`.
  In the loop (`InLoop`) the parser is at a number, between reads (`Waiting`) it is at the place
  whose next bytes are missing. After a read that failed, where the code goes on with a
  size of one byte too few, the buffer holds no CR (`AfterError`), so that nothing runs.

A step then either runs nothing (`Kept`) or runs the next request of the script
(`Served`), and is again at a place. `ConnParserProofs` shows this method by method, as the
code calls them: `Memmove`, `SkipToFrame`, `RequestComplete` (with `GetRequest` and `Reset`),
`Assert_`, `Add`, `Parsing` with `Splice`, up to `LoopSettles` (one iteration) and `ReadSettles`
(`Finterpreter` from each place at which it may resume). `RespWireProofs` has what that
needs to know of the bytes: that `Atoi` reads what `Decimal` wrote, which byte is at each
position of a request, and that a later request ends later. Those are facts about
recursive functions, and are proved by induction on a set of numbers (`SetInduction`), which
the library's well-foundedness of `<` gives without an operator as a parameter.

The hypotheses exclude what the violating runs and the known divergences show: in
`Regular`, that CR and LF of a header line come apart (`conn_split`), an empty argument and a
NUL byte. `Regular` also leaves out a request without a command, which names nothing to
run, and a number with as many digits as the buffer has bytes, whose line would never fit
(`NumbersFit`; 8191 digits do fit the buffer of the program).
`Avoids37Bytes`, for buffers
of more than 36 bytes: no handler has 37 bytes, `'$' + 1`, to parse (`conn_37_bytes`). A
smaller buffer needs no such hypothesis; that is the case of the run `conn`. `IsStream` in
addition leaves out commands without a reply (`~Silent`, run `conn_silent`), because a
reply of `RequestStream` belongs to each request.

`EventLoopProofs` proves for every set of clients and descriptors and every
value of the bounds, from `EventLoopAssumption` alone, that `IInv` is an inductive
invariant of `EventLoop`, and with it `TypeOK`, `EventsFresh`,
`NeverBlocksOnEvent`, `NoFdLeak`, `OneReplyPerRequest` and
`WithheldOnlyMidRequest`. The properties support each other and need four more
facts about the descriptor that a handler is working on:

- `UniqueEvents`: one event per descriptor in a batch, so that a handler which
  closes its descriptor invalidates no other event;
- `CurOpen`: the descriptor being read or written is open and no longer in the
  batch, so that `EventsFresh` survives `Parse` and `Write`;
- `ParseHasInput` and `WriteInBounds`: the loop of `SendReply` stays within
  `Reply_`, which the reply account needs;
- `NothingBeforeAccept`: a new connection starts without replies of an earlier
  user of its descriptor.

There is one lemma per part of the invariant, with one step per action.
`ImplementsSessions` is the refinement, `Spec => SessionsSpec`: with `CurOpen` and
`EventsFresh` a handler works for the client that owns the descriptor, so that each
action of the loop is one step of one session or none, and `OneReplyPerRequest` gives
`Recv` the reply that `Deliver` needs.

`CommandsProofs` proves for all keys, values, requests, failures and crashes,
from the assumptions of `StorageEngine` and `Commands` (`RequestsAssumption`: only
declared keys and values occur in requests):

- `TypeCorrect` and `HandlesUsable`, from the inductive `IInv`, which adds that a
  request is there while it runs, that MSET stands before a pair and that only FLUSHALL
  removes files (`Asked`);
- `StoreMatches`, if `SameDir`: what the replies allow is what is stored, while `files` is
  `"whole"` (see the known divergences). `StoreMatchesReplies` is not inductive: `Foreseen`
  says that what a running request may still write is expected, so that a crash or
  a failed write half-way is covered; `WrittenSoFar` that MSET wrote the last of
  the pairs so far of each key, which makes OK true when the loop ends; `Flushing`
  that the database is empty when FLUSHALL opens whole files again;
- `ArgumentsThere`, if clients give DELETE its key and MSET its values
  (`ClientsCount`): every other entry of the command table asks for enough
  arguments. Without the condition the theorem is false (see above).
- `RepliesWellFormed`, if the set of keys is finite, as `KEYS` counts them: the header of
  an array counts what follows, and exactly the three replies above are no value.

`SBufProofs` proves for every number of workers, slots, descriptors and connections,
and all interleavings, that the pool serves each connection once and in order. Its
hypothesis `NoOverflow` says that no more connections are accepted than an `int` can
count; beyond it the accesses leave the buffer, as `CrashesOnlyAfterWrap` shows. `IInv`
relates the layers of the program:

- `Labels`, `Mutex`: who is where, and that one thread at most is between `P(mutex)` and
  `V(mutex)`, whatever the number of threads;
- `Indices`: `front` and `rear` count what was removed and inserted, and a loaded index
  is still right when it is stored, which needs `Mutex`;
- `Semaphores`: `items` and `slots` are what the buffer holds and has room for, but for
  the threads between a `P` and the next `V`; these are counted, and lemma `CountMoves`
  says how a step of one thread changes the count. It follows that a slot is free when
  main stores and full when a worker fetches;
- `Buffered`, `Held`, `Served`, `Owners`: where each connection is, and that its
  descriptor belongs to it alone until the worker that serves it closes it, so that a
  reused number never stands for two connections.

From it `BufferHoldsWaiting` and `SlotsAccountedFor` follow with `removed = front`, a
bijection between connections 1 to `front` and what is closed or served;
`ExitsOnlyBelowLimit` with an injection of the open descriptors into the connections
that wait or are served; and `ImplementsDispatch` step by step.

`ServerStatsProofs` proves the properties of `ServerStats` for every width of an
`int`, every length of a minute, every unit and any number of events, from
`ServerStatsAssumption` alone. `IInv` adds `Counters` (a counter is the value of the
last sample plus what happened since, wrapped), `Times` (which second `old_time_`
is of) and `Clients` (one client more or less for each event). `SampleIsRecent` compares
the sample with the second in which `Calculate` ran at the start of the iteration; the
clock goes on while the handlers of that iteration run, and what INFOR shows is older by
that much. The lemmas are modular
arithmetic: wrapping a sum of wrapped numbers is wrapping the sum, and the
difference of two counters is what happened between, as long as that fits into an
`int`. That is a bound of the model (`Add`): 2^31 bytes between two
samples would be shown wrong by the code.

`EchoClientProofs` proves the safety properties of `EchoClient` for every size of
`rio_buf`, of `buf` and of the lines, any number of lines typed, lines of answer and
interruptions, from `EchoClientAssumption` alone. `NoByteLost` is not inductive: it says
nothing of which bytes `rio_buf` holds when a `read` is due. The parts of `IInv` are:
- `Socket`: the server sends whole lines while it is there, and no more than it owes;
- `Unread` and `Line`: `rio_buf` from `rio_bufptr` holds the next `rio_cnt` bytes of the stream,
  and what was printed and what is in the line come right before them. A line that is
  read has no newline yet, and over it `buf` still holds the line of the user;
- `Typing`: what `rio_writen` has sent is a prefix of the line, and what the server
  received ends there;
- `Printed`: a line that is printed, or about to be, is whole. A newline that is sent
  later is beyond all that was taken (`NewlinesStay`), so that a line stays whole;
- `AtEnd`: after a line of the user's own nothing is left to read;
- `InStep`: one line is printed for each that was typed, and each ends with the next
  newline of the server as long as lines fit into `buf`.

`AnswersInStep` follows by counting: the server owes no more lines than were typed,
and as many were printed, so that all its newlines, and with them all its bytes, were
consumed.

Left to TLC: liveness, which is out of the prover's reach. These are `AllAnswered` of
`Conn` and of `EventLoop`, `AllServed` and `Prompt`. Every other property of a passing run is
also a theorem.

## Not modelled

- The text of replies and of INFOR, the server's uptime, logging, start-up and the
  build.
- Bytes after a NUL: functions of C strings stop there. `Fputs` of the client prints a line
  up to it (`csapp.cc:356-360`), `strlen` counts no further, and the copies and the search of the
  parser (`kv_conn.cc:84,100,183`) read on behind a full buffer that holds none.
- `ClusterEpoll::SetMiss`, `AuthCommandImpl` and `AutherrorCommandImpl`, and the wrappers of
  `csapp.cc` that no program calls (`rio_readn`, `rio_readnb`, `sio_*`, processes, memory
  mapping): dead code in this repository.
- The legacy encoder and file store, `src/src/kv_encode.cc` and `src/src/kv_io.cc`: linked,
  but nothing calls them except `Encode::orderTolower`, a pure function. `IO::get` opens its
  file with `std::ios::ate` alone, a mode that is not valid, so that it never finds what
  `IO::set` wrote.
- The earlier servers and encoders under `src/test/` (`echo.cc`,
  `echoservert_origin.cpp`, `Encode.cpp`, `kv_leveldb.cc`): not built, replaced by the code above.
- A crash of the machine, which may lose writes that LevelDB did not sync: which suffix
  of its log is lost is not decided by this code.

## Plan

1. A crash of the machine that loses a suffix of LevelDB's log, with a property that says
   what an acknowledged write is worth then.
2. The composition of `Conn` and `EventLoop` with the bytes of two connections.
