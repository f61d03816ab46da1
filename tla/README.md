# TLA+ models of asio_test

The repository is a collection of programs around boost::asio: an HTTP file server
(`http_server/`), a second server grown from it that talks to a database (`action/server/`),
a chat server and its client (`boost_chat/`), and a number of smaller tutorial programs.
This directory holds TLA+ modules for the parts with state worth reasoning about, TLC
configurations that check them on small instances, and TLAPS proofs of the safety
properties for every size.

## The system

| part | state | operations | talks to |
|---|---|---|---|
| `http_server/server.cpp` | acceptor, signal set, `socket_` (a peer accepted and not yet handed on) | accept handler, signal handler, return of `run()` | connection manager |
| `http_server/connection_manager.cpp` | `connections_`, the only owner of an idle connection | start, stop, stop_all | connections |
| `http_server/connection.cpp` | socket, buffer, parser, request, reply | read handler, write handler, stop | parser, request handler, manager |
| `http_server/request_parser.*` | `state_`, the request so far | consume one character | the connection feeds it one read at a time |
| `http_server/request_handler.cpp`, `mime_types.cpp`, `reply.cpp` | none between calls | url_decode, handle_request, extension_to_type, stock_reply, to_buffers | file system |
| `action/server/*` | as above, the request overwritten by memcpy, a database connection | as above; the handler queries the database, no reply is written | MySQL |
| `boost_chat/chat_server.cpp` | room: participants, recent messages; session: write queue, read and write chain | accept, header and body handlers, write handler, join, leave, deliver | sessions reach each other through the room |
| `boost_chat/chat_client.cpp` | write queue, socket, `socket_closed`; two threads | main: getline, test the flag, post; io thread: connect, read, write and posted handlers | chat server |
| `boost_chat/chat_message.hpp` | 4 header bytes, body, length | encode_header, decode_header, body_length | both chat programs |
| `boost_tut/tut05.cpp` | a count, two timers, a strand; two threads | print1, print2 | – |
| `boost_alloc/server_03.cpp`, `server_11.cpp` | per session: one buffer, one block of memory for handlers | accept, read and write handlers; allocate, deallocate | asio, through the allocation hooks |
| `boost_tcp/sync_dc.cpp` | a line, a buffer | getline, write_some, read_some | an echo server |
| `boost_tcp/async_ds.cpp`, `boost_udp/async_ds.cpp`, `boost_comb/async_ds.cpp`, `boost_buffer/reference_cnt_11.cpp` | acceptor; UDP socket, `remote_endpoint` | accept, write, receive and send handlers | their clients |
| `boost_future/daytime_client.cpp`, `boost_udp/sync_dc.cpp` | three futures, two buffers; two threads in the first | resolve, send, receive, stop, join | a UDP daytime server |

What makes these programs hard to test is not computation. One thread runs the handlers of a
server, so handlers never overlap; but an operation *completes* some time before its handler
*runs*, and in the gap another handler may close the socket, clear the registry or stop the
server. In the chat room two independent chains per session fail separately while other
sessions append to its queue. In the chat client a second thread decides, from a flag that
may change right after it is read, whether to post more work to an `io_service` that may
already have run out of work. `PROJECT.json` lists these places under `hazards`, each with
the properties aimed at it.

What makes each part correct, in a sentence: the registry and the sockets agree and a stop
is complete and final (servers); the verdict and the request do not depend on how the input
was cut into reads (parser); the name that is opened lies under the document root and the
reply carries the whole file and the type of the path (request handler); every session sees
one log, in order, without gaps, and a stalled peer harms nobody else (chat room); lines keep
their order and both threads end (chat client); what is relayed is what was sent, and its
reader stays in step (framing); the output and the final count are bounded whatever is lost
(timers); every byte comes back once, and client and server do not wait for each other unless
a line is empty or too long for the connection; `server_03`'s block is free when the next
operation wants it, `server_11`'s serves one operation and is never granted again (echo
programs); every answer goes to the one who asked, and nobody waits for ever unless a datagram
was lost or the receive loop ended before it came to the request (daytime programs).

## Modules

| module | code | |
|---|---|---|
| `ServerCore` | `server.cpp`, `connection_manager.cpp` of both servers | state and actions shared by the two servers, and the contract of asio |
| `HttpServer` | `http_server/connection.cpp` | `ServerCore` with the HTTP connection's handlers |
| `ActionServer` | `action/server/connection.cpp`, `request_handler.cpp`, `request_parser.hpp` | `ServerCore` with the other connection's handlers |
| `ServerLifecycle` | – | what both promise: open, close, stop, exit |
| `RequestParser` | `request_parser.*` | consume() as a table, parse() one character at a time |
| `RequestGrammar` | – | the accepted requests and what they say, defined by places in a text |
| `RequestHandler`, `Reply` | `request_handler.cpp`, `mime_types.cpp`, `reply.*` | url_decode and the file loop, step by step; replies and their buffers |
| `ChatRoom` | `chat_server.cpp` | room, sessions, accept loop |
| `ChatLog` | – | what the room promises: one log, shown in order |
| `ChatClient` | `chat_client.cpp` | main thread, io thread, posted handlers |
| `ChatFraming` | `chat_message.hpp`, the reads of `chat_server.cpp` and `chat_client.cpp` | the bytes of one sender, cut up, relayed and read again |
| `TimerPrinter` | `tut05.cpp` | timers, threads, the strand and the count |
| `EchoServer` | `server_03.cpp`, `server_11.cpp` | sessions and the memory of their handlers |
| `EchoClient` | `boost_tcp/sync_dc.cpp` | `EchoServer` with this client on some sessions; the specification that is run |
| `DaytimeServer` | `boost_comb`, `boost_tcp`, `boost_udp`: `async_ds.cpp` | accept loop (`reference_cnt_11.cpp` has the same), receive loop, sends |
| `DaytimeClients` | `boost_future/daytime_client.cpp`, `boost_udp/sync_dc.cpp` | `DaytimeServer` with the UDP clients and the network; the specification that is run |
| `MC*` | – | instances for TLC |
| `*Proofs` | – | theorems; `BoostServersProofs` about the echo and the daytime programs, `ChatClientProofs` about `ChatClient` and `ChatFraming` |

Conventions:

- Variables have the names of the members they stand for (`connections_`, `write_msgs_`,
  `state_`). Variables marked *history* in their comment record what happened; no guard
  reads them.
- **Completion and handler.** In `ServerCore`, `HttpServer`, `ActionServer` and `ChatClient`
  an outstanding operation has a kind (`op`, `readOp`, ...) and a result (`res`, `readRes`,
  ...). asio's contract is a handful of operators: an operation on a closed socket fails;
  `close()` cancels what is pending and leaves alone what has completed; a composed
  `async_write` that is cancelled between two steps may report a bad descriptor instead of
  `operation_aborted`. Handlers that are ready may run in any order, which includes asio's.
  In `ChatRoom` no handler closes a socket, so completion and handler are one step.
- A handler is one action, with everything it calls. Where a handler branches on a result,
  each branch is an action (`ReadGood`, `ReadBad`, `ReadMore`, `ReadFailed`, `Aborted`).
- Definitions marked *Mutant* are faulty versions of the definition that follows them. Each
  property has one that breaks it; they are listed in `PROJECT.json` and no specification
  uses them.

### Notes on faithfulness

- *HttpServer.* The parser's verdict of a read and the status that handle_request chooses are
  left open; `RequestParser` and `RequestHandler` decide them. `shutdown` before `stop` in
  the write handler has no effect on the state that is modelled.
- *RequestParser.* 14 characters stand for the classes that `consume` tells apart; a byte
  above 127 is a negative `char`, so it is neither `is_char` nor `is_ctl`. The version
  numbers are unbounded; the code's are `int`.
- *RequestHandler.* A character is its code. `is >> std::hex >> value` on two characters is
  more lenient than two hex digits: one digit followed by anything, and a sign and a digit,
  are accepted; `0x` is not. The name given to `ifstream` ends at the first zero byte. What
  lies under a name (nothing, a directory, a file of a given size) is left open. The header
  is spelt `Conetent-Length` in the code and in the model.
- *ActionServer.* `parse` copies bytes over an object with `std::string` members. What the
  handler then finds in the fields is left open, and using or destroying the strings may
  also end the process (`ReadThrows`, `StopAborts`). A database call returns or throws, as
  the library likes. `do_write` starts nothing: its `async_write` is commented out.
- *ChatRoom.* A message is its number in the order of delivery. A header is accepted or
  refused; how many bytes the reads ask for is the subject of `ChatFraming`.
- *ChatFraming.* The client never calls `encode_header`, so the header it sends is whatever
  lay on its stack: the inputs are all byte sequences of a kind, not those of a well-behaved
  sender. The session reads `length()` bytes where the body has `body_length()`, so it takes
  the first four bytes of what follows as a tail of the message. They stay in `data_`
  and are not sent on. With the longest bodies they reach past `data_`; the four bytes of
  padding (`Pad`) before `body_length_` hold them exactly, which `DeliveredAsSent` relies
  on: in the model a longer read could change the length. A message is relayed only once
  those bytes have come, so a sender's last message may be held back; no property says
  otherwise. 512 is scaled to `MaxBody`, the four bytes of a header to `HeaderLength`.
- *ChatClient.* An empty body is read without touching the socket, so that this read
  succeeds even on a closed one. `async_connect` reports an error if the socket was closed
  before its success was looked at. A write that was started while connecting waits behind
  the connect.
- *TimerPrinter.* `++count_` is a data race; it is modelled as a load and a store with other
  steps between, and a test of `count_` reads its latest value. The strand is the condition
  that a wrapped handler starts only while no other one runs.
- *EchoServer.* asio gives back the memory of an operation before it calls the handler, and
  `async_write` starts one operation after the other until everything is written: completion,
  handler and the start of the next operation are one step. Whether an operation fits the
  block depends on the build and is left open. In `server_11.cpp` there is no
  `asio_handler_deallocate`; the block is given to asio's own, which keeps it or passes it to
  `operator delete` (`Aborts`). What asio does with a block it has kept is not modelled.
  Each direction of a connection holds `Window` bytes, the send buffer of one side and the
  receive buffer of the other together: a write goes on only as far as there is room, so a peer
  that does not read stops the session, which then reads nothing either.
- *EchoClient.* `write_some` blocks while the connection has no room. Its contract lets it
  return after any byte, with the rest of the line dropped; a blocking `send` on Linux waits
  until all of it is taken. Either may happen in the model, step by step. Its error is
  overwritten by that of `read_some`. There are two ways in which client and session wait for
  each other for ever. After an empty line, and after the end of the input, nothing is
  written and nothing may come back. And while the client is in `write_some` it reads nothing:
  if the connection is full in both directions and `data_` holds bytes to be written, neither
  side goes on. A line of more than 128 bytes leaves part of its echo behind (each round
  reads 128 at most), so that lines none of which is too long by itself lead there too. That
  state is a state of the model; it takes `2 * Window + 2` bytes that have not come back, a
  byte of `data_` and a byte of the line included. `LineComesBack` says that a line with
  fewer bytes than that (`Fits`) is written and answered; with one byte more allowed, TLC finds
  the deadlock, after a first line of 4 bytes of which one was read back.
- *DaytimeServer.* The programs differ in the halves they have: `accepting` is either value
  at the start. asio tries a receive as soon as it is started, so `remote_endpoint` may change
  within `start_receive`; `async_send_to` has copied it by then. An accept may fail with the
  caller that it would have taken (`HandleAccept`), or take nobody from the queue because no
  descriptor is left (`AcceptErrs`); either way the next one is started.
- *DaytimeClients.* `std::system_error` is not a base of `boost::system::system_error` in the
  Boost this code is written for, so an error passes `get_daytime`, unwinds `main` past a
  joinable `std::thread` and terminates the program ("aborted"). `stop()` ends `run()` in the
  other thread although the `work` object is alive.

## Runs

| run | configuration | distinct states | shows |
|---|---|---|---|
| `http_safety` | 3 peers, symmetric | 18 132 | `RegistryExact`, `ManagedHasWork`, `StoppedStaysEmpty` |
| `http_live` | 2 peers | 4 016 | `ReplyStableWhileWriting`, `VerdictIsFinal`, `ShutdownCompletes`, `FinishedIsReclaimed`, refinement of `ServerLifecycle` |
| `parser` | 3 requests and all their single edits, reads of 1, 2 or 7 characters | 334 718 | `BackIsSafe`, `VerdictMatchesGrammar`, `StoredMatchesGrammar` |
| `handler` | uris of up to 4 atoms out of 15, and of 6 out of `/`, `.`, `%2e`; blocks of 4 bytes, files of 0 to 8 | 408 799 | `OpenedInsideRoot`, `OkReplyIsTheFile`, `DecodesOrRefuses`, `ClientReadsReply` |
| `action` | 3 peers | 7 218 | `ParkedUntilTheEnd`, refinement of `ServerLifecycle` with failures |
| `chat_safety` | 3 sessions, symmetric, 4 messages, window 2 | 175 563 | `OneWriteAtATime`, `InOrderNoGaps`, `RecentIsTail`, `ParticipantReads` |
| `chat_live` | 2 sessions, one draining, 4 messages, window 2 | 10 102 | `LeftIsLeft`, `EventuallySent`, refinement of `ChatLog` |
| `chat_client` | 4 lines | 5 195 | `LinesInOrder`, `ReadsOrFlagged`, `OneLateLine`, `BothThreadsEnd` |
| `framing` | header of 2 bytes, bodies of up to 2, padding of 2; all inputs of 7 bytes out of 4, of 10 and of 12 out of 2 | 348 672 | `DeliveredAsSent`, `ClientInStep` |
| `timer` | 2 timers, limit 10 | 6 732 | `OutputBounded`, `EndsAtLimit` |
| `echo` | a session of each server, one with an open peer and 2 bytes, one with the blocking client, 7 bytes and lines of up to 4; `data_`, `buf` and `Window` of 2 | 492 819 | `BlockServes`, `EchoInOrder`, `LineComesBack` |
| `daytime` | 2 TCP callers, one UDP client of each kind | 65 692 | `AnswersTheAsker`, `FrameOutlivesOperation`, `ClientEnds`, `CallersServed` |

Why the bounds are enough:

- *Servers.* Connections interact only through the registry, the accept slot and the signal.
  Two peers give every pair of positions, the third one a peer waiting in `socket_` while one
  is read from and one is written to. The proofs remove the bound.
- *Parser.* The three requests pass through every row of the table; one edit at any place
  reaches every row's refusal and every off-by-one of a line end, and cuts of 1, 2 and 7
  put a read boundary at every place.
- *Handler.* Four atoms suffice for a directory, a dot and an extension with one escape or a
  zero byte between; the deep set spells `/../` and its escaped forms in every position.
  Sizes 0, 1, 3, 4, 5, 8 are below, at and above a multiple of the block.
- *Chat room.* Four messages exceed the window of two by two; three sessions give one that
  talks, one that is behind and one that joins. The proofs remove the bounds.
- *Chat client.* Four lines allow one being written, one queued, one posted and one typed.
- *Framing.* Seven bytes hold a header, the longest body, the two bytes read too far and the
  beginning of the next message, with every header that `atoi` tells apart (blank, sign, digit,
  other, too large); the longer inputs hold two or three messages, where the second is shorter
  or longer than what it overwrites in `data_`.
- *Timers.* The limit is the program's own; three timers with a limit of 5 hold as well.
- *Echo.* Sessions share nothing but the process. Buffers of two give reads that leave
  something behind and writes in parts. The client's seven bytes are one more than fill the
  connection in both directions, `data_` and the line, so that they get there over two lines,
  with something of the first already read back.
- *Daytime.* Two callers give one behind another in the accept queue; two UDP clients give a
  receive that overwrites the endpoint of an answer still to be sent.

`Deadlock` is checked everywhere except for the parser and the request handler, which stop
at a verdict, the framing, which stops at the end of the input, and the echo programs, where
client and server may come to wait for each other. The other programs have an explicit step
for the ended process.
Symmetry is used only in runs without temporal properties.

### Fairness

Weak fairness is assumed of handlers whose operation has a result, of the report of a
cancelled operation, of the return of `run()` and, in the client, of main's steps that do
not wait for the user: this is what `io_service::run()` and the scheduler guarantee, and
posted handlers are run in the order they were posted, so a busy read chain cannot starve
them. Nothing is assumed of peers, signals, users or the network. In `ChatRoom` the write
of a session in `Draining` is assumed to complete, that is, its peer reads or breaks the
connection; `EventuallySent` is stated for those only, and for the others nothing is.

In `TimerPrinter` timers expire and a thread that runs a handler goes on. In `EchoClient` the
session runs the handler of a read that has bytes and of a write that has room, `write_some`
goes on when there is room and `read_some` returns when there is something to read. A write is
not assumed to go on while the other side does not read: it has no room then and is not
enabled. The user need not type. In `DaytimeClients` the server and the clients' threads run, resolving and
sending come to an end, a datagram that was sent arrives or is lost, and a receive takes what
is there; nothing says that a datagram arrives, that a receive fails or that anybody connects.
`ClientEnds` is therefore stated with its exceptions: a lost datagram, or a request that lies
in the server's socket when the receive loop has ended. `CallersServed` needs that the accept
does not fail for ever for want of a descriptor: the fairness of `HandleAccept` says so, and
the code cannot bring it about.

### Merged properties

A few statements are parts of others: `LinesInOrder` contains that the client has one
write at a time, `BothThreadsEnd` that main's join returns and that a raised flag ends the
thread, `OkReplyIsTheFile` the length, the type and the whole content of the file, and
`ServerLifecycle`, which `ActionServer` implements, that a shutdown completes. Type
invariants that a theorem proves, or that another property implies, are not run again.

## Proofs

Checked by TLAPS for all values of the constants.

**HttpServerProofs** (any set of peers). `Inv` strengthens the four invariants by
`AcceptInv` (where the accept operation, the acceptor and `socket_` can be: an accept with
result "ok" holds an open peer without an operation, a pending accept holds none and needs an
open acceptor), `ConnInv` (a peer's socket, operation, parser verdict and reply fit together:
a connection that reads has no verdict, one that writes has a reply, and a cancelled or
aborted operation belongs to a closed socket) and `ClosedNeverWaits` (nothing waits for the
peer of a closed socket). Without `AcceptInv` the accept handler could register a peer that
is registered already, or accept again after the stop; without `ConnInv` an aborted operation
could leave an open, registered connection idle, and the action properties would not follow.
`SpecInv` gives `TypeCorrect`, `RegistryCorrect`, `NoIdleConnection`,
`StopIsFinal`; `ReplyStable` and `VerdictFinal` follow for each step from `Inv`, and
`RefinesLifecycle` maps each handler to a step of `ServerLifecycle` or a stutter.

**ChatRoomProofs** (any sessions, window and number of messages). `Inv` joins the four
invariants with `NewInv` (a session that has not been accepted has nothing). They depend on
each other: a session joins with the recent messages, so `InOrderNoGaps` needs
`RecentIsTail`, and `WriteOk` needs `OneWriteAtATime` to know that the front exists. The
lemmas `AppendRun`, `TailRun` and `TrimRun` say what the queue operations do to a run of
consecutive numbers. `LeavingIsFinal` and `RefinesLog` follow from `Inv`.

**RequestParserProofs** (any inputs and chunk sizes). Types, `BackIsSafe` and
`NamesNotEmpty`, by cases on the rows of the table; `BackIsSafe` is inductive because the
only rows that enter its states either push a header or require one. `VerdictCorrect` needs to
know where the parser is in the grammar: `Placed` says that, short of a verdict, there is a
line of the input such that everything in front of it is complete lines (`Before`) and what has
been consumed of it has the shape that belongs to `state_` (`Shape`), and when there is a
header to continue (`Linked`). `ShapeMoves` goes through the rows, `LineEnds` through a
newline. With `Placed`, a good verdict stands behind a request (`GoodIsRequest`), no request
ends in what was consumed without a verdict (`NoneYet`), and as long as the input can still
become one, `consume` has a branch (`RequestGoesOn`): the cuts of a line are unique, because
no separator is a character of the part in front of it. `StoredCorrect` adds to it that what is
stored is at any time what the characters consumed say (`SaysSoFar`), and that the numbers are 0
until the slash of "HTTP/" sets them (`NotNumbered`). `RowBelongs` says that a row stores its
character exactly where the grammar has one of that part: in the request line by the cuts
in front of it, in a header line because only the newest header is continued. `SpellsMore`
and `NumberNext` carry spellings and numbers one place further; `Number` is a recursive function,
and its lemmas argue with the least place at which two of its tables differ.

**RequestHandlerProofs** (any uris, sizes of files and of the read buffer). `Inv` adds to the
types what `rep` may hold at each place of the control (`RepInv`), that what was opened and
the extension are those of the completed path, which is still usable (`NameInv`), for a
well-formed uri how far decoding has come (`DecodeInv`), and that the index is never past
a bad escape (`RefuseInv`): no escape that is taken reaches over the `%` of one. `NameInv` is needed because the
path is checked before the index file is appended and before the name is cut at a zero byte:
`IndexKeepsUsable` says that appending keeps it usable. `DecodeInv` counts the places at which
an escape or a character begins (`Rank`); the loop stays aligned with them, so that its output
has one character for each, and `RankNext` and `RankInjective` say that it has no others.
`TypeOfPath` relates the search for the last dot and slash to the definition by segments.
`ReplyReadsBack` needs no induction: `BuffersOfTwo` computes the buffers of a reply with two
headers, and every reply has two.

**ActionServerProofs** (any set of peers). As for the HTTP server, `AcceptInv` and `ConnInv`
strengthen the statements about the registry; `ConnInv` adds that a handled connection was
started and has no operation, without which a peer could be started twice and a second read
complete on a parked connection. Every step is one of a few forms (a step of the shared core,
a handler of this connection, the end of the process), and each form has its lemma.
`RefinesLifecycle` covers the steps on which the process ends in a handler.

**ChatClientProofs**, about `ChatClient` (any number of lines). `QueueInv` says of each of the three
queues where in the order of lines it begins, which `LinesInOrder` says only of all together;
`LateInv` that main does not get past its test again once the flag is raised. About
`ChatFraming` (any input, any lengths): `HeaderInv` relates the front of `data_` to the input while a
body is read; without it the message that is relayed could begin with the header of an
earlier one. `StreamInv` gives the place of every message in the relayed bytes and the
client's place among them, which is always at a header or behind the header of a message
that the session has accepted. `Padded` is the one hypothesis: a header is no longer than
the padding behind `data_` (in the code both have four bytes). Without it the read behind
the longest body reaches the length, and what is relayed depends on what it reads there.
How `atoi` computes a number does not matter for these proofs.

**TimerPrinterProofs** (any timers, any limit). That handlers in the strand exclude each other
(`StrandInv`) is inductive; the output is bounded by a budget: each first handler prints a line
and may take the count back once, after which the strand's handlers print at most
`Limit - 1` more. `LinesInv` says that what is left of it covers what can be printed from the
count, or from what the active handler will store. `CountInv` bounds how far the count passes
the limit.

**BoostServersProofs**. *Echo* (any sessions, buffers, lines): `BlockInv` ties the flag
`in_use_` to the place of the operation outstanding, or in `server_11` to the number of
operations the block was granted to; `DataInv` ties the buffer and its two positions to what
was taken and echoed; both are nearly the properties themselves.
*Daytime* (any clients): `EndpointInv` says that `remote_endpoint` is the sender of the datagram
while its handler is ready, and that every send goes to whom it answers; `AskedInv`
that a datagram is under way or lost only for a client whose one send has completed, and
never both; `ProgressInv` which operation `get_daytime` has outstanding at each of its steps.
Without `AskedInv` an answer could reach a client that has not asked; without `ProgressInv`
the function could be left with its receive pending.

Only model-checked are the liveness properties (`ShutdownCompletes`, `FinishedIsReclaimed`,
`EventuallySent`, `BothThreadsEnd`, `EndsAtLimit`, `LineComesBack`, `ClientEnds`,
`CallersServed`) and the fairness part of the refinements of `ServerLifecycle`: the prover does
not handle fairness.

The theorems about types and a few others (`NamesAlwaysThere`, `EchoedWasSent`,
`FinalCountInRange`, `ActionServerProofs.RegistryCorrect`) are proved only: no run repeats
them. Every inductive invariant was confirmed by TLC before it was proved.

## Not modelled

- `action/client/`: does not compile; `err.txt` there is the compiler's output.
- `boost_tcp/sync_ds.cpp`, `boost_udp/sync_ds.cpp`, `http_server/test.cpp`, `sender.cpp`:
  a loop of blocking calls, or straight-line code, with no other actor in the program.
- `tut01.cpp` to `tut04.cpp`: one wait, or `tut05.cpp`'s loop with one timer and one thread.
- The memory of the daytime servers' messages: every pending handler, or buffer, holds a
  reference, so there is no order of steps in which it could be gone.
- What asio does with the block of `server_11.cpp` that it has kept.
- In `action/server`, what the two queries of `sign_in` leave in the database when the second
  fails (the model shows that the process ends), and the memory behind the request that the
  memcpy of `parse` may write to when the bytes are more than the object has.
- A read error in the middle of a file in `handle_request`: the loop would end there, and the
  reply would be ok with the shorter content and its length.
- `ctutkernel/`: logging.
- The int width of HTTP version numbers, and unbounded growth of requests and of the queue
  of a chat peer that stops reading: the code has no limit to state.
- `getInstance` of the singleton: never called. The mutex in `setQuery`: one thread.

## Plan

What is left is to prove that the daytime and echo servers implement an abstract service, one
answer for each request.
