----------------------------- MODULE ChatClient -----------------------------
(***************************************************************************)
(* boost_chat/chat_client.cpp: the main thread reads lines and posts them, *)
(* a second thread runs the io_service: connect, then a read chain, and a  *)
(* write chain that closes the socket when its queue is empty.  The two    *)
(* threads share the posted handlers and the flag socket_closed.           *)
(*                                                                         *)
(* run() returns as soon as nothing is posted or outstanding, and what is  *)
(* posted afterwards never runs.  As in ServerCore, an operation completes *)
(* in one step and its handler runs in a later one; every handler here     *)
(* treats all errors alike, so a cancelled operation just has an error.    *)
(*                                                                         *)
(* A message is the number of its line.                                    *)
(***************************************************************************)
EXTENDS Naturals, Sequences

CONSTANT MaxLines   \* bound: the lines the user types

ASSUME MaxLinesAssumption == MaxLines \in Nat

VARIABLES
  main,            \* where the main thread is
  typed,           \* how many lines getline has returned
  posted,          \* the handlers posted and not yet run: a message, or 0 for close
  socket_,         \* "open" from the start of async_connect on, "closed" for good
  socket_closed,   \* chat_client::socket_closed
  connectOp,       \* the connect and its result; then what its handler made of it
  readOp,          \* the read outstanding
  readRes,         \* its result, "pending" until it has one
  write_msgs_,     \* chat_client::write_msgs_
  writes,          \* the number of async_write operations outstanding
  writeRes,        \* the result of the first of them
  running,         \* ios.run() has not returned
  sent,            \* history: the messages whose write has succeeded
  failed,          \* history: a write has failed
  late             \* history: the lines posted after socket_closed was set

chains == <<connectOp, readOp, readRes, write_msgs_, writes, writeRes, sent, failed>>
net    == <<socket_, socket_closed, connectOp, readOp, readRes, write_msgs_, writes, writeRes,
            running, sent, failed>>
user   == <<main, typed, late>>
vars   == <<user, posted, net>>

Posting == 0..MaxLines
Lines   == 1..MaxLines

TypeOK ==
  /\ main \in {"getline", "check", "write", "close", "join", "done"}
  /\ typed \in 0..MaxLines
  /\ posted \in Seq(Posting)
  /\ socket_ \in {"open", "closed"}
  /\ socket_closed \in BOOLEAN
  /\ connectOp \in {"pending", "ok", "error", "connected", "failed"}
  /\ readOp \in {"none", "header", "body"}
  /\ readRes \in {"pending", "ok", "error"}
  /\ write_msgs_ \in Seq(Lines)
  /\ writes \in Nat
  /\ writeRes \in {"pending", "ok", "error"}
  /\ running \in BOOLEAN
  /\ sent \in Seq(Lines)
  /\ failed \in BOOLEAN
  /\ late \in 0..MaxLines

\* main has constructed the client, which starts the connect, and the thread.
Init ==
  /\ main = "getline"
  /\ typed = 0
  /\ posted = <<>>
  /\ socket_ = "open"
  /\ socket_closed = FALSE
  /\ connectOp = "pending"
  /\ readOp = "none"
  /\ readRes = "pending"
  /\ write_msgs_ = <<>>
  /\ writes = 0
  /\ writeRes = "pending"
  /\ running = TRUE
  /\ sent = <<>>
  /\ failed = FALSE
  /\ late = 0

-----------------------------------------------------------------------------
(* The main thread *)

\* Mutant: the flag is not looked at after getline.
NoCheck == "write"

ThenCheck == "check"

GetLine ==
  /\ main = "getline" /\ typed < MaxLines
  /\ typed' = typed + 1
  /\ main' = ThenCheck
  /\ UNCHANGED <<posted, late, net>>

\* The end of the input, or a line of more than max_body_length characters.
EndOfInput ==
  /\ main = "getline"
  /\ main' = "close"
  /\ UNCHANGED <<posted, typed, late, net>>

\* c.socket_closed == false
Check ==
  /\ main = "check"
  /\ main' = IF socket_closed THEN "close" ELSE "write"
  /\ UNCHANGED <<posted, typed, late, net>>

\* c.write(msg)
Write ==
  /\ main = "write"
  /\ posted' = Append(posted, typed)
  /\ late' = IF socket_closed THEN late + 1 ELSE late
  /\ main' = "getline"
  /\ UNCHANGED <<typed, net>>

\* Mutant: c.close() is left out.
NothingPosted == <<>>

ClosePosted == <<0>>

\* c.close()
Close ==
  /\ main = "close"
  /\ posted' = posted \o ClosePosted
  /\ main' = "join"
  /\ UNCHANGED <<typed, late, net>>

\* t.join()
Join ==
  /\ main = "join" /\ ~running
  /\ main' = "done"
  /\ UNCHANGED <<posted, typed, late, net>>

-----------------------------------------------------------------------------
(* asio: external to the repository *)

\* An operation started on a closed socket fails.
StartResult == IF socket_ = "open" THEN "pending" ELSE "error"

\* socket_.close() fails what is pending; what has completed keeps its result.
CloseSocket ==
  /\ socket_' = "closed"
  /\ connectOp' = IF connectOp = "pending" THEN "error" ELSE connectOp

\* The result of a read or a write after socket_.close().
Cancelled(outstanding, res) == IF outstanding /\ res = "pending" THEN "error" ELSE res

ConnectCompletes ==
  /\ connectOp = "pending"
  /\ connectOp' \in {"ok", "error"}
  /\ UNCHANGED <<user, posted, socket_, socket_closed, readOp, readRes, write_msgs_, writes,
                 writeRes, running, sent, failed>>

ReadCompletes ==
  /\ readOp # "none" /\ readRes = "pending"
  /\ readRes' \in {"ok", "error"}
  /\ UNCHANGED <<user, posted, socket_, socket_closed, connectOp, readOp, write_msgs_, writes,
                 writeRes, running, sent, failed>>

\* A write started while connecting waits behind the connect, whose handler runs first.
WriteCompletes ==
  /\ writes > 0 /\ writeRes = "pending"
  /\ writeRes' \in IF connectOp = "connected" THEN {"ok", "error"} ELSE {"error"}
  /\ UNCHANGED <<user, posted, socket_, socket_closed, connectOp, readOp, readRes, write_msgs_,
                 writes, running, sent, failed>>

Environment == ConnectCompletes \/ ReadCompletes \/ WriteCompletes

\* run() returns when nothing is left to do.
Return ==
  /\ running
  /\ posted = <<>>
  /\ connectOp \in {"connected", "failed"} /\ readOp = "none" /\ writes = 0
  /\ running' = FALSE
  /\ UNCHANGED <<user, posted, socket_, socket_closed, chains>>

-----------------------------------------------------------------------------
(* The handlers, on the thread that runs the io_service *)

\* Mutant: a line that finds a write in progress takes its place in front.
QueuedFront(m) == <<m>> \o write_msgs_

Queued(m) == Append(write_msgs_, m)

\* The handler write() posts: queue the message, do_write only if the queue was empty.
PostedWrite ==
  /\ running /\ posted # <<>> /\ Head(posted) # 0
  /\ posted' = Tail(posted)
  /\ write_msgs_' = Queued(Head(posted))
  /\ writes' = IF write_msgs_ = <<>> THEN writes + 1 ELSE writes
  /\ writeRes' = IF write_msgs_ = <<>> THEN StartResult ELSE writeRes
  /\ UNCHANGED <<user, socket_, socket_closed, connectOp, readOp, readRes, running, sent, failed>>

\* The handler close() posts.
PostedClose ==
  /\ running /\ posted # <<>> /\ Head(posted) = 0
  /\ posted' = Tail(posted)
  /\ CloseSocket
  /\ readRes' = Cancelled(readOp # "none", readRes)
  /\ writeRes' = Cancelled(writes > 0, writeRes)
  /\ UNCHANGED <<user, socket_closed, readOp, write_msgs_, writes, running, sent, failed>>

\* The connect handler without an error: do_read_header.
Connected ==
  /\ connectOp = "ok" /\ socket_ = "open"
  /\ connectOp' = "connected"
  /\ readOp' = "header"
  /\ readRes' = "pending"
  /\ UNCHANGED <<user, posted, socket_, socket_closed, write_msgs_, writes, writeRes, running,
                 sent, failed>>

\* With an error, which async_connect also reports when the socket was closed before the
\* success was looked at: nothing is done.
ConnectFails ==
  /\ connectOp = "error" \/ (connectOp = "ok" /\ socket_ = "closed")
  /\ connectOp' = "failed"
  /\ UNCHANGED <<user, posted, socket_, socket_closed, readOp, readRes, write_msgs_, writes,
                 writeRes, running, sent, failed>>

\* decode_header accepts the length: do_read_body.  An empty body is read without the
\* socket, so that read succeeds even on a closed one.
HeaderRead ==
  /\ readOp = "header" /\ readRes = "ok"
  /\ readOp' = "body"
  /\ readRes' \in {"ok", StartResult}
  /\ UNCHANGED <<user, posted, socket_, socket_closed, connectOp, write_msgs_, writes, writeRes,
                 running, sent, failed>>

\* The body is shown; do_read_header.
BodyRead ==
  /\ readOp = "body" /\ readRes = "ok"
  /\ readOp' = "header"
  /\ readRes' = StartResult
  /\ UNCHANGED <<user, posted, socket_, socket_closed, connectOp, write_msgs_, writes, writeRes,
                 running, sent, failed>>

\* Mutant: the read chain ends without setting the flag.
FlagKept == socket_closed

FlagRaised == TRUE

\* Either read fails, or decode_header refuses the length: close the socket, set the flag.
ReadEnds ==
  /\ (readOp # "none" /\ readRes = "error") \/ (readOp = "header" /\ readRes = "ok")
  /\ CloseSocket
  /\ socket_closed' = FlagRaised
  /\ readOp' = "none"
  /\ readRes' = "pending"
  /\ writeRes' = Cancelled(writes > 0, writeRes)
  /\ UNCHANGED <<user, posted, write_msgs_, writes, running, sent, failed>>

\* A write succeeds and more is queued: do_write.
WroteMore ==
  /\ writes > 0 /\ writeRes = "ok" /\ Len(write_msgs_) > 1
  /\ sent' = Append(sent, Head(write_msgs_))
  /\ write_msgs_' = Tail(write_msgs_)
  /\ writeRes' = StartResult
  /\ UNCHANGED <<user, posted, socket_, socket_closed, connectOp, readOp, readRes, writes,
                 running, failed>>

\* A write succeeds and the queue is empty: close the socket, set the flag.
WroteLast ==
  /\ writes > 0 /\ writeRes = "ok" /\ Len(write_msgs_) = 1
  /\ sent' = Append(sent, Head(write_msgs_))
  /\ write_msgs_' = Tail(write_msgs_)
  /\ writes' = writes - 1
  /\ writeRes' = "pending"
  /\ CloseSocket
  /\ readRes' = Cancelled(readOp # "none", readRes)
  /\ socket_closed' = TRUE
  /\ UNCHANGED <<user, posted, readOp, running, failed>>

\* A write fails: nothing is done, the message stays at the front of the queue.
WriteFails ==
  /\ writes > 0 /\ writeRes = "error"
  /\ writes' = writes - 1
  /\ writeRes' = "pending"
  /\ failed' = TRUE
  /\ UNCHANGED <<user, posted, socket_, socket_closed, connectOp, readOp, readRes, write_msgs_,
                 running, sent>>

PostedHandler  == PostedWrite \/ PostedClose
ConnectHandler == Connected \/ ConnectFails
ReadHandler    == HeaderRead \/ BodyRead \/ ReadEnds
WriteHandler   == WroteMore \/ WroteLast \/ WriteFails

\* After main has returned nothing happens.
Exited == main = "done" /\ UNCHANGED vars

Next ==
  \/ GetLine \/ EndOfInput \/ Check \/ Write \/ Close \/ Join
  \/ Environment
  \/ PostedHandler \/ ConnectHandler \/ ReadHandler \/ WriteHandler
  \/ Return
  \/ Exited

\* Both threads run, and asio runs posted handlers and handlers of completed operations in
\* the order they are queued.  The user and the network owe nothing.
Fairness ==
  /\ WF_vars(Check) /\ WF_vars(Write) /\ WF_vars(Close) /\ WF_vars(Join)
  /\ WF_vars(PostedHandler) /\ WF_vars(ConnectHandler)
  /\ WF_vars(ReadHandler) /\ WF_vars(WriteHandler)
  /\ WF_vars(Return)

Spec == Init /\ [][Next]_vars /\ Fairness

-----------------------------------------------------------------------------
(* Properties *)

\* The lines that are posted: all but close, which is the last handler that is posted.
PostedLines ==
  IF posted # <<>> /\ posted[Len(posted)] = 0 THEN SubSeq(posted, 1, Len(posted) - 1) ELSE posted

\* Every line that main has posted is exactly once on its way, in the order typed: sent,
\* then queued, then posted, and close comes after the last.  A line that is never sent,
\* because a write before it failed or run() has returned, is never overtaken by a later
\* one.  At most one async_write is outstanding, of the front of the queue, and a queue that
\* nothing is writing has lost a write (chat_client.cpp 20-29, 74-91).
LinesInOrder ==
  LET all == sent \o write_msgs_ \o PostedLines
  IN  /\ \A k \in 1..Len(all) : all[k] = k
      /\ Len(all) \in {typed - 1, typed}
      /\ main = "getline" => Len(all) = typed
      /\ writes <= 1
      /\ writes = 1 => write_msgs_ # <<>>
      /\ write_msgs_ # <<>> => writes = 1 \/ failed

\* A connected client reads until it has raised socket_closed, and the flag is raised only
\* with the socket closed: main never waits at the prompt on behalf of a connection that
\* is gone without the flag telling it so (chat_client.cpp 43-73, 86-87).
ReadsOrFlagged ==
  /\ connectOp = "connected" /\ readOp = "none" => socket_closed
  /\ socket_closed => socket_ = "closed"

\* The flag is tested and the line posted in two steps, between which it may be raised:
\* one line may be posted too late, a second may not (chat_client.cpp 109-115).
OneLateLine == late <= 1

\* Once the loop has ended the join returns, whatever the server does and wherever the
\* connect, the read and the write were; and once the flag is raised the io thread ends by
\* itself, main still waiting for input or not (chat_client.cpp 30-32, 52-55, 69-70,
\* 86-87, 116-117).
BothThreadsEnd == /\ (main = "join") ~> (main = "done")
                  /\ socket_closed ~> ~running
=============================================================================
