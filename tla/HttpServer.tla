----------------------------- MODULE HttpServer -----------------------------
(***************************************************************************)
(* http_server/: the connections of ServerCore with the handlers of        *)
(* http_server/connection.cpp.  A connection reads until its request       *)
(* parser reaches a verdict, writes one reply and is stopped.  Which       *)
(* verdict a read brings is left open here (module RequestParser decides   *)
(* it from the bytes), and so is the status handle_request chooses         *)
(* (module RequestHandler).                                                *)
(***************************************************************************)
EXTENDS ServerCore

VARIABLES
  parser,   \* the verdict of connection::request_parser_ so far
  reply     \* connection::reply_.status, "none" until it is assigned

vars == <<acceptor_, acceptOp, signalOp, socket_, connections_, sock, op, res, running,
          parser, reply>>

\* The statuses handle_request can leave in reply_.
HandlerStatus == {"ok", "bad_request", "not_found"}

TypeOK ==
  /\ CoreTypeOK
  /\ parser \in [Conn -> {"indeterminate", "good", "bad"}]
  /\ reply \in [Conn -> {"none"} \cup HandlerStatus]

Init ==
  /\ CoreInit
  /\ parser = [c \in Conn |-> "indeterminate"]
  /\ reply = [c \in Conn |-> "none"]

-----------------------------------------------------------------------------
\* do_read or do_write: one operation of the given kind is outstanding on c.
Start(c, kind) ==
  /\ op' = [op EXCEPT ![c] = kind]
  /\ res' = [res EXCEPT ![c] = StartResult(c)]

\* An operation_aborted result: the handler does nothing.
Abandon(c) ==
  /\ op' = [op EXCEPT ![c] = "none"]
  /\ res' = [res EXCEPT ![c] = "pending"]

\* Mutant: the write starts before the reply is filled in.
ReadVerdictNoReply(c, verdict, status) ==
  /\ op[c] = "read" /\ res[c] = "ok"
  /\ parser' = [parser EXCEPT ![c] = verdict]
  /\ Start(c, "write")
  /\ UNCHANGED <<reply, acceptor_, acceptOp, signalOp, socket_, connections_, sock, running>>

\* Mutant: after the verdict the connection goes on reading.
ReadVerdictReadsOn(c, verdict, status) ==
  /\ op[c] = "read" /\ res[c] = "ok"
  /\ parser' = [parser EXCEPT ![c] = verdict]
  /\ reply' = [reply EXCEPT ![c] = status]
  /\ Start(c, "read")
  /\ UNCHANGED <<acceptor_, acceptOp, signalOp, socket_, connections_, sock, running>>

\* The read handler when the parser reaches a verdict: handle_request or the stock
\* bad_request fills reply_, then do_write.
ReadVerdict(c, verdict, status) ==
  /\ op[c] = "read" /\ res[c] = "ok"
  /\ parser' = [parser EXCEPT ![c] = verdict]
  /\ reply' = [reply EXCEPT ![c] = status]
  /\ Start(c, "write")
  /\ UNCHANGED <<acceptor_, acceptOp, signalOp, socket_, connections_, sock, running>>

ReadGood(c) == \E status \in HandlerStatus : ReadVerdict(c, "good", status)
ReadBad(c)  == ReadVerdict(c, "bad", "bad_request")

\* Mutant: the result of the parser is dropped without reading on.
ReadMoreForgotten(c) ==
  /\ op[c] = "read" /\ res[c] = "ok"
  /\ Abandon(c)
  /\ UNCHANGED <<parser, reply, acceptor_, acceptOp, signalOp, socket_, connections_, sock,
                 running>>

\* The read handler when the request is not complete: do_read again.
ReadMore(c) ==
  /\ op[c] = "read" /\ res[c] = "ok"
  /\ Start(c, "read")
  /\ UNCHANGED <<parser, reply, acceptor_, acceptOp, signalOp, socket_, connections_, sock,
                 running>>

\* Mutant: the read handler ignores every error, as if all were operation_aborted.
ReadFailedIgnored(c) ==
  /\ op[c] = "read" /\ res[c] = "error"
  /\ Abandon(c)
  /\ UNCHANGED <<parser, reply, acceptor_, acceptOp, signalOp, socket_, connections_, sock,
                 running>>

\* The read handler on an error other than operation_aborted.
ReadFailed(c) ==
  /\ op[c] = "read" /\ res[c] = "error"
  /\ ManagerStop(c)
  /\ UNCHANGED <<parser, reply, acceptor_, acceptOp, signalOp, socket_, running>>

\* The write handler unless aborted: shutdown (on success), then stop.
WriteDone(c) ==
  /\ op[c] = "write" /\ res[c] \in {"ok", "error"}
  /\ ManagerStop(c)
  /\ UNCHANGED <<parser, reply, acceptor_, acceptOp, signalOp, socket_, running>>

\* Either handler on operation_aborted.
Aborted(c) ==
  /\ op[c] # "none" /\ res[c] = "aborted"
  /\ Abandon(c)
  /\ UNCHANGED <<parser, reply, acceptor_, acceptOp, signalOp, socket_, connections_, sock,
                 running>>

ConnHandler(c) ==
  ReadGood(c) \/ ReadBad(c) \/ ReadMore(c) \/ ReadFailed(c) \/ WriteDone(c) \/ Aborted(c)

\* The steps of asio, the peers and the operating system.
Environment ==
  /\ AcceptCompletes \/ SignalArrives \/ \E c \in Conn : OperationCompletes(c)
  /\ UNCHANGED <<parser, reply>>

Cancel(c) == CancelCompletes(c) /\ UNCHANGED <<parser, reply>>
Core      == CoreHandlers /\ UNCHANGED <<parser, reply>>
Return    == RunReturns /\ UNCHANGED <<parser, reply>>

\* After run() has returned nothing happens.
Exited == ~running /\ UNCHANGED vars

Next ==
  \/ Environment
  \/ Core
  \/ \E c \in Conn : ConnHandler(c) \/ Cancel(c)
  \/ Return
  \/ Exited

\* The accept handler, whichever way it goes.
AcceptHandler == (AcceptAfterClose \/ AcceptStart \/ AcceptRetry) /\ UNCHANGED <<parser, reply>>

\* asio runs every queued handler and reports every cancelled operation; the peers and
\* the signal owe nothing.
Fairness ==
  /\ WF_vars(AcceptHandler)
  /\ WF_vars(HandleSignal /\ UNCHANGED <<parser, reply>>)
  /\ WF_vars(Return)
  /\ \A c \in Conn : WF_vars(ConnHandler(c)) /\ WF_vars(Cancel(c))

Spec == Init /\ [][Next]_vars /\ Fairness

-----------------------------------------------------------------------------
(* Properties *)

\* connections_ holds exactly the started connections whose socket is open: none is
\* leaked by the accept handler, none is left in the set once its socket is closed, and
\* an accepted peer is never both in socket_ and in the set (server.cpp 38-42,
\* connection_manager.cpp).
RegistryExact == connections_ = {c \in Conn : sock[c] = "open" /\ c # socket_}

\* A registered connection always has an operation outstanding.  The set holds the last
\* reference to an idle connection, so one without an operation would stay there, socket
\* open, until the server stops (connection.cpp do_read, do_write).
ManagedHasWork == \A c \in connections_ : op[c] # "none"

\* After the signal handler has run, no connection is registered and no accept is
\* started, whatever was queued when it ran: a late accept result is dropped, and a read
\* that had completed does not bring its connection back (server.cpp 35-37, 46-52).
StoppedStaysEmpty ==
  signalOp = "done" => connections_ = {} /\ ~acceptor_ /\ acceptOp # "pending"

\* async_write is given buffers that point into reply_: from the moment a write is started
\* to its handler, reply_ is filled in and no handler touches it (connection.cpp 51-66).
ReplyStableWhileWriting ==
  [][\A c \in Conn : op'[c] = "write" =>
       /\ reply'[c] # "none"
       /\ op[c] = "write" => reply'[c] = reply[c]]_vars

\* The parser is not fed after its verdict, and a connection that has ended starts nothing
\* again (connection.cpp 34-48).
VerdictIsFinal ==
  [][\A c \in Conn :
       /\ parser[c] # "indeterminate" => parser'[c] = parser[c] /\ op'[c] # "read"
       /\ sock[c] = "closed" => sock'[c] = "closed" /\ c \notin connections_']_vars

\* Once a stop signal has been delivered the server closes down and ios.run() returns,
\* whatever the peers do (server.cpp 46-52).
ShutdownCompletes == (signalOp = "ready") ~> ~running

\* A connection whose peer has hung up or whose reply is out is closed and forgotten
\* (connection.cpp 46-48, 62-64).
FinishedIsReclaimed ==
  \A c \in Conn :
    ((op[c] = "read" /\ res[c] = "error") \/ (op[c] = "write" /\ res[c] # "pending"))
      ~> (sock[c] = "closed" /\ c \notin connections_ /\ op[c] = "none")

\* What the registry, the sockets and the signal say about the server as a whole.
Phase == IF ~running THEN "exited" ELSE IF signalOp = "done" THEN "draining" ELSE "serving"
Gone  == {c \in Conn : sock[c] = "closed"}

Lifecycle == INSTANCE ServerLifecycle WITH live <- connections_, gone <- Gone, phase <- Phase,
                                           MayFail <- FALSE

\* Every behaviour of the server is one that ServerLifecycle allows: a connection opens
\* when it is registered, ends when its socket closes, and the stop takes effect in the
\* signal handler (server.cpp, connection_manager.cpp).
ImplementsLifecycle == Lifecycle!Spec

\* The safety part of the same, which the proofs cover.
LifecycleSteps == Lifecycle!Init /\ [][Lifecycle!Next]_(Lifecycle!vars)
=============================================================================
