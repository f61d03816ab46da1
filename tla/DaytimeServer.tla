---------------------------- MODULE DaytimeServer ----------------------------
(***************************************************************************)
(* The daytime servers: boost_comb/async_ds.cpp serves TCP and UDP on one  *)
(* io_service; boost_udp/async_ds.cpp is its UDP half by itself, and       *)
(* boost_tcp/async_ds.cpp its TCP half, as is boost_buffer/                *)
(* reference_cnt_11.cpp, where the operation's copy of the buffer keeps    *)
(* the message.  One thread runs all handlers.                             *)
(*                                                                         *)
(* The UDP half has one receive outstanding at a time, which writes the    *)
(* sender's address to the member remote_endpoint, and any number of       *)
(* sends.  asio tries a receive as soon as it is started, so remote_       *)
(* endpoint may change inside start_receive, but the result is handled     *)
(* later.  A receive that fails is not repeated.                           *)
(***************************************************************************)
EXTENDS Naturals, Sequences

CONSTANTS
  Callers,   \* TCP clients
  Askers,    \* UDP clients, each asking once
  Nobody     \* no address

ASSUME NobodyAssumption == Nobody \notin Askers

VARIABLES
  accepting,         \* an accept is outstanding: never in boost_udp
  running,           \* ios.run() has not returned
  caller,            \* what has become of each TCP client
  queue,             \* the datagrams that wait in the UDP socket, by sender
  receive,           \* the receive: "pending", "ready", "failed"; "ended" when there is none
  source,            \* history: who sent the datagram that is ready
  remote_endpoint,   \* udp_server::remote_endpoint
  sends,             \* the sends outstanding: where to, and (history) whose request it answers
  reply              \* the answer to each UDP client: "none", "sent", "here" or "lost"

tcpVars    == <<accepting, caller>>
udpVars    == <<queue, receive, source, remote_endpoint, sends, reply>>
serverVars == <<running, tcpVars, udpVars>>

ServerInit ==
  /\ accepting \in BOOLEAN
  /\ running = TRUE
  /\ caller = [c \in Callers |-> "away"]
  /\ queue = <<>>
  /\ receive = "pending"
  /\ source = Nobody
  /\ remote_endpoint = Nobody
  /\ sends = {}
  /\ reply = [a \in Askers |-> "none"]

-----------------------------------------------------------------------------
(* TCP *)

Connect(c) ==
  /\ accepting /\ caller[c] = "away"
  /\ caller' = [caller EXCEPT ![c] = "queued"]
  /\ UNCHANGED <<running, accepting, udpVars>>

\* Mutant: only a connection that was accepted is followed by another accept.
AcceptsAfterSuccess(outcome) == outcome = "writing"

\* start_accept, whatever the outcome of the last accept.
AcceptsAgain(outcome) == TRUE

\* handle_accept: start() writes the time, or the connection was lost before it was accepted.
HandleAccept(c) ==
  /\ accepting /\ caller[c] = "queued"
  /\ \E outcome \in {"writing", "failed"} :
       /\ caller' = [caller EXCEPT ![c] = outcome]
       /\ accepting' = AcceptsAgain(outcome)
  /\ UNCHANGED <<running, udpVars>>

\* handle_accept after an error that takes nobody from the queue: no file descriptor is left.
AcceptErrs ==
  /\ accepting
  /\ accepting' = AcceptsAgain("failed")
  /\ UNCHANGED <<running, caller, udpVars>>

\* handle_write does nothing: the last reference goes, and with it the socket.
HandleTimeWrite(c) ==
  /\ caller[c] = "writing"
  /\ \E outcome \in {"served", "failed"} : caller' = [caller EXCEPT ![c] = outcome]
  /\ UNCHANGED <<running, accepting, udpVars>>

-----------------------------------------------------------------------------
(* UDP *)

\* asio: the outstanding receive takes a datagram.
Take ==
  /\ queue # <<>>
  /\ receive' = "ready"
  /\ source' = Head(queue)
  /\ remote_endpoint' = Head(queue)
  /\ queue' = Tail(queue)

ReceiveCompletes == receive = "pending" /\ Take /\ UNCHANGED <<running, tcpVars, sends, reply>>

\* asio: an error other than message_size.
ReceiveFails ==
  /\ receive = "pending"
  /\ receive' = "failed"
  /\ UNCHANGED <<running, tcpVars, queue, source, remote_endpoint, sends, reply>>

\* Mutant: the next receive is forgotten.
ReceivesOnce == receive' = "none" /\ UNCHANGED <<queue, source, remote_endpoint>>

\* start_receive: it has its datagram at once, or waits.
StartReceive ==
  \/ Take
  \/ receive' = "pending" /\ UNCHANGED <<queue, source, remote_endpoint>>

\* Mutant: the receive is started first, and the answer sent to whatever it left.
EndpointAfterReceive == remote_endpoint'

\* async_send_to copies the endpoint before start_receive is called.
SendEndpoint == remote_endpoint

\* handle_receive without an error, or with message_size; message lives until handle_send.
HandleReceive ==
  /\ receive = "ready"
  /\ StartReceive
  /\ sends' = sends \cup {[to |-> SendEndpoint, answers |-> source]}
  /\ UNCHANGED <<running, tcpVars, reply>>

\* handle_receive with an error: nothing is received any more.  The TCP half goes on.
HandleReceiveError ==
  /\ receive = "failed"
  /\ receive' = "ended"
  /\ UNCHANGED <<running, tcpVars, queue, source, remote_endpoint, sends, reply>>

\* handle_send does nothing.  The datagram is under way, or the send has failed.
HandleSend(x) ==
  /\ x \in sends
  /\ sends' = sends \ {x}
  /\ \E r \in {"sent", "lost"} : reply' = [reply EXCEPT ![x.to] = r]
  /\ UNCHANGED <<running, tcpVars, queue, receive, source, remote_endpoint>>

\* run() returns when nothing is outstanding: the end of boost_udp after a failed receive.
RunReturns ==
  /\ running /\ ~accepting /\ receive = "ended" /\ sends = {}
  /\ \A c \in Callers : caller[c] # "writing"
  /\ running' = FALSE
  /\ UNCHANGED <<tcpVars, udpVars>>

Handlers ==
  \/ \E c \in Callers : HandleAccept(c) \/ HandleTimeWrite(c)
  \/ HandleReceive \/ HandleReceiveError
  \/ \E x \in sends : HandleSend(x)
  \/ RunReturns
=============================================================================
