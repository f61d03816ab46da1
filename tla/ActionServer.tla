---------------------------- MODULE ActionServer ----------------------------
(***************************************************************************)
(* action/server/: the server and the registry of ServerCore with the      *)
(* handlers of action/server/connection.cpp and request_handler.cpp.       *)
(*                                                                         *)
(* request_parser::parse copies the bytes of one read over a request       *)
(* object that holds strings: the fields the handler then looks at are     *)
(* left open here, and using or destroying the strings may end the         *)
(* process.  parse() never asks for more, do_write's async_write is        *)
(* commented out, and every method but an unknown one queries the          *)
(* database, whose calls may return or throw: an exception leaves          *)
(* ios.run() and main ends.                                                *)
(***************************************************************************)
EXTENDS ServerCore

VARIABLES
  status,     \* connection::reply_.status, "unset" until the handler assigns it
  handled     \* the connections whose read has brought a request, good or bad

vars == <<acceptor_, acceptOp, signalOp, socket_, connections_, sock, op, res, running,
          status, handled>>
own  == <<status, handled>>

Methods == {"log_in", "log_out", "sign_in", "get_user_gps", "get_item_gps", "send_user_gps",
            "unknown"}

TypeOK ==
  /\ CoreTypeOK
  /\ status \in [Conn -> {"unset", "ok", "created", "bad_request"}]
  /\ handled \subseteq Conn

Init ==
  /\ CoreInit
  /\ status = [c \in Conn |-> "unset"]
  /\ handled = {}

-----------------------------------------------------------------------------
(* connection and request_handler *)

\* Mutant: the connection goes on reading, as if the reply had been sent.
ReadsOn == "read"

\* async_write is commented out.
NothingStarted == "none"

\* do_write: nothing is started, so the connection is left without an operation.
DoWrite(c) ==
  /\ op' = [op EXCEPT ![c] = NothingStarted]
  /\ res' = [res EXCEPT ![c] = "pending"]
  /\ handled' = handled \cup {c}
  /\ UNCHANGED <<acceptor_, acceptOp, signalOp, socket_, connections_, sock, running>>

\* The status handle_request assigns when every query returns.  It depends on the request's
\* own secret, not on the one just fetched; get_id's text is never empty; an unknown
\* method assigns nothing.
Answer(method, secret) ==
  CASE method \in {"log_in", "get_user_gps", "get_item_gps"} -> IF secret THEN "ok" ELSE "bad_request"
    [] method \in {"log_out", "send_user_gps"} -> "ok"
    [] method = "sign_in" -> IF secret THEN "bad_request" ELSE "created"
    [] OTHER -> "unset"

\* The handler of a request that parses: the queries succeed.
ReadGood(c) ==
  /\ op[c] = "read" /\ res[c] = "ok"
  /\ \E method \in Methods, secret \in BOOLEAN :
       status' = [status EXCEPT ![c] = Answer(method, secret)]
  /\ DoWrite(c)

\* The handler of a request that does not parse: the stock reply is built and dropped.
ReadBad(c) ==
  /\ op[c] = "read" /\ res[c] = "ok"
  /\ DoWrite(c)
  /\ UNCHANGED status

\* The process ends: an exception leaves ios.run(), or the process is aborted.  The server
\* is gone with its queued handlers and sockets.
ProcessEnds ==
  /\ running' = FALSE
  /\ acceptor_' = FALSE
  /\ acceptOp' = "none"
  /\ signalOp' = "done"
  /\ socket_' = NoConn
  /\ connections_' = {}
  /\ sock' = [d \in Conn |-> IF sock[d] = "open" THEN "closed" ELSE sock[d]]
  /\ op' = [d \in Conn |-> "none"]
  /\ res' = [d \in Conn |-> "pending"]

\* A query throws, in sign_in perhaps the second one, or a string that parse has overwritten
\* is read.
ReadThrows(c) ==
  /\ op[c] = "read" /\ res[c] = "ok"
  /\ handled' = handled \cup {c}
  /\ ProcessEnds
  /\ UNCHANGED status

\* The signal handler drops the last reference to a connection whose request holds
\* overwritten strings: destroying it may abort.
StopAborts ==
  /\ signalOp = "ready"
  /\ handled \cap connections_ # {}
  /\ ProcessEnds
  /\ UNCHANGED own

\* The read handler on an error other than operation_aborted.
ReadFailed(c) ==
  /\ op[c] = "read" /\ res[c] = "error"
  /\ ManagerStop(c)
  /\ UNCHANGED <<own, acceptor_, acceptOp, signalOp, socket_, running>>

\* The read handler on operation_aborted.
Aborted(c) ==
  /\ op[c] = "read" /\ res[c] = "aborted"
  /\ op' = [op EXCEPT ![c] = "none"]
  /\ res' = [res EXCEPT ![c] = "pending"]
  /\ UNCHANGED <<own, acceptor_, acceptOp, signalOp, socket_, connections_, sock, running>>

ConnHandler(c) == ReadGood(c) \/ ReadBad(c) \/ ReadThrows(c) \/ ReadFailed(c) \/ Aborted(c)

Environment ==
  /\ AcceptCompletes \/ SignalArrives \/ \E c \in Conn : OperationCompletes(c)
  /\ UNCHANGED own

Cancel(c) == CancelCompletes(c) /\ UNCHANGED own
Core      == CoreHandlers /\ UNCHANGED own
Return    == RunReturns /\ UNCHANGED own

\* After run() has been left nothing happens.
Exited == ~running /\ UNCHANGED vars

Next ==
  \/ Environment
  \/ Core
  \/ StopAborts
  \/ \E c \in Conn : ConnHandler(c) \/ Cancel(c)
  \/ Return
  \/ Exited

AcceptHandler == (AcceptAfterClose \/ AcceptStart \/ AcceptRetry) /\ UNCHANGED own

\* asio runs every queued handler and reports every cancelled operation.
Fairness ==
  /\ WF_vars(AcceptHandler)
  /\ WF_vars(HandleSignal /\ UNCHANGED own)
  /\ WF_vars(Return)
  /\ \A c \in Conn : WF_vars(ConnHandler(c)) /\ WF_vars(Cancel(c))

Spec == Init /\ [][Next]_vars /\ Fairness

-----------------------------------------------------------------------------
(* Properties *)

\* A connection whose request has been handled is parked: it has no operation, its reply is
\* neither sent nor changed by a second request, and it stays registered with its socket
\* open until the server stops or fails as a whole (connection.cpp 50-67).
ParkedUntilTheEnd ==
  [][\A c \in handled :
       /\ op[c] = "none" /\ op'[c] = "none"
       /\ status'[c] = status[c]
       /\ c \in connections_ => c \in connections_' \/ signalOp' = "done"]_vars

Phase == IF ~running THEN "exited" ELSE IF signalOp = "done" THEN "draining" ELSE "serving"
Gone  == {c \in Conn : sock[c] = "closed"}

Lifecycle == INSTANCE ServerLifecycle WITH live <- connections_, gone <- Gone, phase <- Phase,
                                           MayFail <- TRUE

\* The server implements ServerLifecycle with failures: the end of the process ends every
\* connection in one step and is the only other way to exit (server.cpp, main.cpp 5-19).
ImplementsLifecycle == Lifecycle!Spec

\* The safety part of the same, which the proofs cover.
LifecycleSteps == Lifecycle!Init /\ [][Lifecycle!Next]_(Lifecycle!vars)
=============================================================================
