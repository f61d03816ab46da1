--------------------------- MODULE DaytimeClients ---------------------------
(***************************************************************************)
(* The UDP clients of DaytimeServer, over a network that may lose          *)
(* datagrams.                                                              *)
(*                                                                         *)
(* boost_future/daytime_client.cpp: main starts each operation and waits   *)
(* for its future, while a second thread runs the io_service; the buffers  *)
(* are locals of get_daytime.  An error reaches main as boost::system::    *)
(* system_error, which is no std::system_error: get_daytime does not catch *)
(* it, and the program ends in the destructor of the thread it did not     *)
(* join.                                                                   *)
(*                                                                         *)
(* boost_udp/sync_dc.cpp: the same exchange with blocking calls, whose     *)
(* errors main catches.                                                    *)
(***************************************************************************)
EXTENDS DaytimeServer

CONSTANTS Futures, Syncs   \* the clients of either kind

ASSUME ClientsAssumption == Askers = Futures \cup Syncs /\ Futures \cap Syncs = {}

VARIABLES
  pc,        \* where each client's main thread is
  op,        \* its asynchronous operation: "resolve", "send" or "receive"
  result,    \* and that operation's result
  ioThread,  \* its io_service's thread has not ended
  lost       \* history: the clients one of whose datagrams was lost

clientsVars == <<pc, op, result, ioThread, lost>>
allVars     == <<serverVars, clientsVars>>

\* The future client has its thread and has started to resolve; neither has a socket.
ClientsInit ==
  /\ ServerInit
  /\ pc = [a \in Askers |-> "socket"]
  /\ op = [a \in Askers |-> IF a \in Futures THEN "resolve" ELSE "none"]
  /\ result = [a \in Askers |-> "pending"]
  /\ ioThread = [a \in Askers |-> a \in Futures]
  /\ lost = {}

-----------------------------------------------------------------------------
(* The network *)

\* A request of a reaches the socket of the server, or is lost.
Ask(a) ==
  \/ running /\ queue' = Append(queue, a) /\ UNCHANGED lost
  \/ queue' = queue /\ lost' = lost \cup {a}

\* An answer arrives, or is lost.
Arrive(a) ==
  /\ reply[a] = "sent"
  /\ reply' = [reply EXCEPT ![a] = "here"]
  /\ UNCHANGED <<running, tcpVars, queue, receive, source, remote_endpoint, sends, clientsVars>>

Lose(a) ==
  /\ reply[a] = "sent"
  /\ reply' = [reply EXCEPT ![a] = "lost"]
  /\ UNCHANGED <<running, tcpVars, queue, receive, source, remote_endpoint, sends, clientsVars>>

-----------------------------------------------------------------------------
(* The future client *)

\* asio, on the client's thread: the operation completes and its promise is set.
Complete(a) ==
  /\ a \in Futures /\ ioThread[a] /\ op[a] # "none" /\ result[a] = "pending"
  /\ \/ result' = [result EXCEPT ![a] = "error"] /\ UNCHANGED <<queue, lost>>
     \/ /\ result' = [result EXCEPT ![a] = "ok"]
        /\ op[a] = "receive" => reply[a] = "here"
        /\ IF op[a] = "send" THEN Ask(a) ELSE UNCHANGED <<queue, lost>>
  /\ UNCHANGED <<running, tcpVars, receive, source, remote_endpoint, sends, reply, pc, op, ioThread>>

\* The socket is opened, or its constructor throws and the program ends.
OpenSocket(a) ==
  /\ a \in Futures /\ pc[a] = "socket"
  /\ \/ pc' = [pc EXCEPT ![a] = "resolve"] /\ UNCHANGED ioThread
     \/ pc' = [pc EXCEPT ![a] = "aborted"] /\ ioThread' = [ioThread EXCEPT ![a] = FALSE]
  /\ UNCHANGED <<serverVars, op, result, lost>>

\* Mutant: the futures are not waited for.
ReadyAtOnce(a) == result[a] # "error"

\* get() blocks until the promise is set.
Ready(a) == result[a] = "ok"

\* get() returns, and the next operation is started.
Step(a, at, next) ==
  /\ a \in Futures /\ pc[a] = at /\ Ready(a)
  /\ op' = [op EXCEPT ![a] = next]
  /\ result' = [result EXCEPT ![a] = "pending"]
  /\ pc' = [pc EXCEPT ![a] = next]
  /\ UNCHANGED <<serverVars, ioThread, lost>>

\* iter.get() and send_length.get()
StartSend(a)    == Step(a, "resolve", "send")
StartReceiveOf(a) == Step(a, "send", "receive")

\* recv_length.get() returns: the answer is printed, get_daytime returns, ios.stop().
PrintAndStop(a) ==
  /\ a \in Futures /\ pc[a] = "receive" /\ Ready(a)
  /\ pc' = [pc EXCEPT ![a] = "join"]
  /\ UNCHANGED <<serverVars, op, result, ioThread, lost>>

\* get() throws: the stack is unwound to main, and ~thread ends the process.
GetThrows(a) ==
  /\ a \in Futures /\ pc[a] \in {"resolve", "send", "receive"} /\ result[a] = "error"
  /\ pc' = [pc EXCEPT ![a] = "aborted"]
  /\ ioThread' = [ioThread EXCEPT ![a] = FALSE]
  /\ UNCHANGED <<serverVars, op, result, lost>>

\* After stop(), run() returns although the work object is still there.
ThreadEnds(a) ==
  /\ a \in Futures /\ pc[a] = "join" /\ ioThread[a]
  /\ ioThread' = [ioThread EXCEPT ![a] = FALSE]
  /\ UNCHANGED <<serverVars, pc, op, result, lost>>

Join(a) ==
  /\ a \in Futures /\ pc[a] = "join" /\ ~ioThread[a]
  /\ pc' = [pc EXCEPT ![a] = "done"]
  /\ UNCHANGED <<serverVars, op, result, ioThread, lost>>

-----------------------------------------------------------------------------
(* The synchronous client *)

\* Resolve, open and send; an error ends the program.
SyncSend(a) ==
  /\ a \in Syncs /\ pc[a] = "socket"
  /\ \/ pc' = [pc EXCEPT ![a] = "done"] /\ UNCHANGED <<queue, lost>>
     \/ pc' = [pc EXCEPT ![a] = "receive"] /\ Ask(a)
  /\ UNCHANGED <<running, tcpVars, receive, source, remote_endpoint, sends, reply, op, result, ioThread>>

\* receive_from has the answer, which is printed, or fails.
SyncReceive(a) ==
  /\ a \in Syncs /\ pc[a] = "receive"
  /\ \/ reply[a] = "here" /\ result' = [result EXCEPT ![a] = "ok"]
     \/ result' = [result EXCEPT ![a] = "error"]
  /\ pc' = [pc EXCEPT ![a] = "done"]
  /\ UNCHANGED <<serverVars, op, ioThread, lost>>

Client(a) ==
  \/ OpenSocket(a) \/ StartSend(a) \/ StartReceiveOf(a) \/ PrintAndStop(a) \/ GetThrows(a)
  \/ ThreadEnds(a) \/ Join(a)
  \/ SyncSend(a)

Network(a) == Arrive(a) \/ Lose(a)

Ended(a) == pc[a] \in {"done", "aborted"}

\* The programs that can end have ended; the TCP half goes on for ever.
Quiet == (\A a \in Askers : Ended(a)) /\ UNCHANGED allVars

Server == Handlers \/ ReceiveCompletes

Next ==
  \/ \E c \in Callers : Connect(c) /\ UNCHANGED clientsVars
  \/ (ReceiveFails \/ AcceptErrs) /\ UNCHANGED clientsVars
  \/ Server /\ UNCHANGED clientsVars
  \/ \E a \in Askers : Client(a) \/ Complete(a) \/ SyncReceive(a) \/ Network(a)
  \/ Quiet

\* The server runs its handlers, the threads of the clients run, what is sent arrives or is
\* lost, resolving and sending come to an end, and a receive takes an answer that is there.
\* Nobody has to connect, no receive has to fail, and no error of the accept lasts for ever.
Fairness ==
  /\ WF_allVars(Server /\ UNCHANGED clientsVars)
  /\ \A a \in Askers :
       /\ WF_allVars(Client(a)) /\ WF_allVars(Network(a))
       /\ WF_allVars((op[a] # "receive" \/ reply[a] = "here") /\ Complete(a))
       /\ WF_allVars(reply[a] = "here" /\ SyncReceive(a))

Spec == ClientsInit /\ [][Next]_allVars /\ Fairness

-----------------------------------------------------------------------------
(* Properties *)

\* remote_endpoint is overwritten by every receive while earlier answers are still being
\* sent, yet every answer goes to the client that asked, and no client is answered
\* before it has asked (boost_comb/async_ds.cpp 68-82, boost_udp/async_ds.cpp 21-39).
AnswersTheAsker ==
  /\ \A x \in sends : x.to = x.answers
  /\ \A a \in Askers : reply[a] # "none" => pc[a] # "socket" /\ a \notin lost

\* No operation is left with a buffer in get_daytime's frame when that has returned or was
\* left by an exception (daytime_client.cpp 16-32).
FrameOutlivesOperation ==
  \A a \in Futures :
    op[a] \in {"send", "receive"} /\ result[a] = "pending" => pc[a] \in {"send", "receive"}

\* The receive loop has ended with the request of a still in the socket.
Unread(a) == receive = "ended" /\ \E k \in 1..Len(queue) : queue[k] = a

\* A client waits for ever only if a datagram of its exchange was lost or its request is one
\* the server did not receive before its loop ended; then it does, because neither client
\* has a timeout.  Who has been received is answered although the loop has ended since
\* (daytime_client.cpp 20-29, 43-45; boost_udp/sync_dc.cpp 18-23, async_ds.cpp 28-39).
ClientEnds ==
  \A a \in Askers : <>(Ended(a) \/ a \in lost \/ reply[a] = "lost" \/ Unread(a))

\* A TCP client that has connected is served or told of an error, whether the accept
\* before it failed and whether the UDP half still receives
\* (boost_tcp/async_ds.cpp 60-76, boost_comb/async_ds.cpp 45-58, 74-82).
CallersServed ==
  \A c \in Callers : (caller[c] = "queued") ~> (caller[c] \in {"served", "failed"})
=============================================================================
