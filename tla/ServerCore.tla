----------------------------- MODULE ServerCore -----------------------------
(***************************************************************************)
(* The part that http_server/ and action/server/ share, file for file:     *)
(* server.cpp (acceptor, signal wait) and connection_manager.cpp (the      *)
(* registry of live connections), together with the contract of the        *)
(* asio objects they drive.                                                *)
(*                                                                         *)
(* One thread calls ios.run(), so a completion handler is one atomic step. *)
(* What can interleave is the gap between the moment an operation          *)
(* completes (its error code is fixed and its handler queued) and the      *)
(* moment the handler runs: another handler may close the socket or the    *)
(* acceptor in between.  Any queued handler may run next, which includes   *)
(* the order of asio's queue.                                              *)
(***************************************************************************)
CONSTANTS
  Conn,     \* the peers that may ever be accepted; each names one connection
  NoConn    \* the value of socket_ while it holds no accepted peer

ASSUME NoConnAssumption == NoConn \notin Conn

VARIABLES
  acceptor_,      \* acceptor_.is_open()
  acceptOp,       \* the outstanding async_accept and its result
  signalOp,       \* the outstanding signals_.async_wait
  socket_,        \* server::socket_, the peer accepted but not yet moved on
  connections_,   \* connection_manager::connections_
  sock,           \* the socket of each peer: never accepted, open, closed
  op,             \* the operation a connection has outstanding
  res,            \* the result of that operation, "pending" until it has one
  running         \* ios.run() has not returned

coreVars == <<acceptor_, acceptOp, signalOp, socket_, connections_, sock, op, res, running>>

AcceptResults == {"ok", "error", "aborted"}
Results       == {"ok", "error", "aborted"}

CoreTypeOK ==
  /\ acceptor_ \in BOOLEAN
  /\ acceptOp \in {"none", "pending"} \cup AcceptResults
  /\ signalOp \in {"pending", "ready", "done"}
  /\ socket_ \in Conn \cup {NoConn}
  /\ connections_ \in SUBSET Conn
  /\ sock \in [Conn -> {"fresh", "open", "closed"}]
  /\ op \in [Conn -> {"none", "read", "write"}]
  /\ res \in [Conn -> {"pending", "cancelled"} \cup Results]
  /\ running \in BOOLEAN

\* server::server: the signal wait and the first accept are started before run().
CoreInit ==
  /\ acceptor_ = TRUE
  /\ acceptOp = "pending"
  /\ signalOp = "pending"
  /\ socket_ = NoConn
  /\ connections_ = {}
  /\ sock = [c \in Conn |-> "fresh"]
  /\ op = [c \in Conn |-> "none"]
  /\ res = [c \in Conn |-> "pending"]
  /\ running = TRUE

-----------------------------------------------------------------------------
(* The asio contract: results of operations, external to the repository. *)

\* Starting an operation on a closed socket completes it with bad_descriptor.
StartResult(c) == IF sock[c] = "open" THEN "pending" ELSE "error"

\* socket.close() cancels what is pending; a completed operation keeps its result.
Cancelled(S) == [c \in Conn |-> IF c \in S /\ op[c] # "none" /\ res[c] = "pending"
                                THEN "cancelled" ELSE res[c]]

\* The kernel accepts a peer into socket_, or reports an error (e.g. too many files).
AcceptCompletes ==
  /\ acceptOp = "pending"
  /\ \/ \E c \in Conn :
          /\ sock[c] = "fresh"
          /\ sock' = [sock EXCEPT ![c] = "open"]
          /\ socket_' = c
          /\ acceptOp' = "ok"
     \/ /\ acceptOp' = "error"
        /\ UNCHANGED <<sock, socket_>>
  /\ UNCHANGED <<acceptor_, signalOp, connections_, op, res, running>>

\* A read or write on an open socket succeeds or fails, when the peer makes it so.
OperationCompletes(c) ==
  /\ op[c] # "none"
  /\ res[c] = "pending"
  /\ res' = [res EXCEPT ![c] = "ok"] \/ res' = [res EXCEPT ![c] = "error"]
  /\ UNCHANGED <<acceptor_, acceptOp, signalOp, socket_, connections_, sock, op, running>>

\* A cancelled operation reports operation_aborted; a composed async_write that was
\* between two of its write_some steps finds the descriptor closed instead.
CancelCompletes(c) ==
  /\ op[c] # "none"
  /\ res[c] = "cancelled"
  /\ \/ res' = [res EXCEPT ![c] = "aborted"]
     \/ op[c] = "write" /\ res' = [res EXCEPT ![c] = "error"]
  /\ UNCHANGED <<acceptor_, acceptOp, signalOp, socket_, connections_, sock, op, running>>

\* SIGINT, SIGTERM or SIGQUIT is delivered to the signal set.
SignalArrives ==
  /\ signalOp = "pending"
  /\ signalOp' = "ready"
  /\ UNCHANGED <<acceptor_, acceptOp, socket_, connections_, sock, op, res, running>>

-----------------------------------------------------------------------------
(* connection_manager *)

\* connection_manager::stop(c): erase, then c->stop() closes the socket.  The caller
\* is the handler of c's only operation, so nothing is left to cancel.
ManagerStop(c) ==
  /\ connections_' = connections_ \ {c}
  /\ sock' = [sock EXCEPT ![c] = "closed"]
  /\ op' = [op EXCEPT ![c] = "none"]
  /\ res' = [res EXCEPT ![c] = "pending"]

\* Mutant: clear() is called but the sockets are left open.
StopAllWithoutClose ==
  /\ connections_' = {}
  /\ UNCHANGED <<sock, res>>

\* connection_manager::stop_all
StopAll ==
  /\ sock' = [c \in Conn |-> IF c \in connections_ THEN "closed" ELSE sock[c]]
  /\ res' = Cancelled(connections_)
  /\ connections_' = {}

-----------------------------------------------------------------------------
(* server *)

\* The accept handler once the acceptor is closed: return, whatever the result.
AcceptAfterClose ==
  /\ acceptOp \in AcceptResults
  /\ ~acceptor_
  /\ acceptOp' = "none"
  /\ UNCHANGED <<acceptor_, signalOp, socket_, connections_, sock, op, res, running>>

\* Mutant: the accept handler does not look at acceptor_.is_open().
StartWithoutOpenCheck ==
  /\ acceptOp = "ok"
  /\ connections_' = connections_ \cup {socket_}
  /\ op' = [op EXCEPT ![socket_] = "read"]
  /\ res' = [res EXCEPT ![socket_] = StartResult(socket_)]
  /\ socket_' = NoConn
  /\ acceptOp' = IF acceptor_ THEN "pending" ELSE "error"
  /\ UNCHANGED <<acceptor_, signalOp, sock, running>>

\* Mutant: the accept handler does not look at ec.
StartUnchecked ==
  /\ acceptOp \in AcceptResults
  /\ acceptor_
  /\ connections_' = connections_ \cup {socket_}
  /\ acceptOp' = "pending"
  /\ socket_' = NoConn
  /\ UNCHANGED <<acceptor_, signalOp, sock, op, res, running>>

\* Mutant: the connection is started but never inserted in connections_.
StartUnregistered ==
  /\ acceptOp = "ok"
  /\ acceptor_
  /\ op' = [op EXCEPT ![socket_] = "read"]
  /\ res' = [res EXCEPT ![socket_] = StartResult(socket_)]
  /\ socket_' = NoConn
  /\ acceptOp' = "pending"
  /\ UNCHANGED <<acceptor_, signalOp, connections_, sock, running>>

\* The accept handler on success: connection_manager_.start inserts the connection and
\* starts its first read; socket_ is moved from; do_accept starts the next accept.
AcceptStart ==
  /\ acceptOp = "ok"
  /\ acceptor_
  /\ connections_' = connections_ \cup {socket_}
  /\ op' = [op EXCEPT ![socket_] = "read"]
  /\ res' = [res EXCEPT ![socket_] = StartResult(socket_)]
  /\ socket_' = NoConn
  /\ acceptOp' = "pending"
  /\ UNCHANGED <<acceptor_, signalOp, sock, running>>

\* The accept handler on an error while the acceptor is open: only do_accept.
AcceptRetry ==
  /\ acceptOp \in AcceptResults \ {"ok"}
  /\ acceptor_
  /\ acceptOp' = "pending"
  /\ UNCHANGED <<acceptor_, signalOp, socket_, connections_, sock, op, res, running>>

\* Mutant: the handler closes the connections and forgets the acceptor.
SignalKeepsAcceptor ==
  /\ signalOp = "ready"
  /\ signalOp' = "done"
  /\ StopAll
  /\ UNCHANGED <<acceptor_, acceptOp, socket_, op, running>>

\* The handler of do_await_stop: close the acceptor, then stop_all.
HandleSignal ==
  /\ signalOp = "ready"
  /\ signalOp' = "done"
  /\ acceptor_' = FALSE
  /\ acceptOp' = IF acceptOp = "pending" THEN "aborted" ELSE acceptOp
  /\ StopAll
  /\ UNCHANGED <<socket_, op, running>>

\* ios.run() returns when no work is outstanding; the server object is then destroyed,
\* and with it an accepted peer that socket_ still holds.
NoWork == acceptOp = "none" /\ signalOp = "done" /\ \A c \in Conn : op[c] = "none"

RunReturns ==
  /\ running
  /\ NoWork
  /\ running' = FALSE
  /\ sock' = [c \in Conn |-> IF c = socket_ THEN "closed" ELSE sock[c]]
  /\ socket_' = NoConn
  /\ UNCHANGED <<acceptor_, acceptOp, signalOp, connections_, op, res>>

CoreHandlers == AcceptAfterClose \/ AcceptStart \/ AcceptRetry \/ HandleSignal
=============================================================================
