----------------------------- MODULE EchoClient -----------------------------
(***************************************************************************)
(* boost_tcp/sync_dc.cpp, which types a line, writes what the socket takes *)
(* of it, and waits for some bytes to come back, as the peer of some of    *)
(* the sessions of EchoServer.  The peers of the others are left open.     *)
(*                                                                         *)
(* write_some blocks while the connection has no room.  It may return once *)
(* it has sent a byte, and the rest of the line is dropped; where a        *)
(* blocking send takes the whole line it returns when all is sent.  Its    *)
(* error is overwritten by that of read_some, so only the read ends the    *)
(* loop.                                                                   *)
(*                                                                         *)
(* There are two ways in which client and session wait for each other for  *)
(* ever.  An empty line, which is also what getline leaves at the end of   *)
(* the input, writes nothing, and nothing may be on its way back.  And a   *)
(* line may be longer than what the connection and data_ hold: the client  *)
(* reads nothing before it is written, so the session cannot write either  *)
(* and does not read on.  Each line of more than ReadSize bytes leaves     *)
(* bytes on their way that the next one finds there.                       *)
(***************************************************************************)
EXTENDS EchoServer

CONSTANTS
  Clients,      \* the sessions whose peer is this client
  MaxLine,      \* bound: the length of a line
  ReadSize      \* the size of buf

ASSUME EchoClientAssumption == Clients \subseteq Sessions

VARIABLES
  client,       \* where each client is: "getline", "write_some", "read_some" or "ended"
  rest,         \* how many bytes of the line write_some still has to send
  wrote         \* whether it has sent a byte

clientVars == <<client, rest, wrote>>

ClientInit ==
  /\ Init
  /\ client = [s \in Clients |-> "getline"]
  /\ rest = [s \in Clients |-> 0]
  /\ wrote = [s \in Clients |-> FALSE]

\* getline gives a line for write_some; for an empty one that has nothing to do.
GetLine(s) ==
  /\ doing[s] # "new" /\ client[s] = "getline"
  /\ \E n \in 0..MaxLine :
       /\ sent[s] + n <= MaxBytes[s]
       /\ rest' = [rest EXCEPT ![s] = n]
       /\ client' = [client EXCEPT ![s] = IF n = 0 THEN "read_some" ELSE "write_some"]
  /\ wrote' = [wrote EXCEPT ![s] = FALSE]
  /\ UNCHANGED vars

\* Bytes of the line are sent as far as the connection has room.  write_some returns, and
\* the rest is dropped, or it waits to send on.
WriteSome(s) ==
  /\ client[s] = "write_some" /\ doing[s] # "gone"
  /\ \E n \in 1..rest[s], returns \in BOOLEAN :
       /\ sent[s] + n - taken[s] <= Window
       /\ n = rest[s] => returns
       /\ sent' = [sent EXCEPT ![s] = @ + n]
       /\ wrote' = [wrote EXCEPT ![s] = TRUE]
       /\ rest' = [rest EXCEPT ![s] = IF returns THEN 0 ELSE @ - n]
       /\ client' = [client EXCEPT ![s] = IF returns THEN "read_some" ELSE @]
  /\ UNCHANGED <<doing, in_use_, memory, taken, data_, put, echoed, fetched, uses>>

\* The connection is gone: write_some fails, and read_some is called all the same.
WriteFails(s) ==
  /\ client[s] = "write_some" /\ doing[s] = "gone"
  /\ client' = [client EXCEPT ![s] = "read_some"]
  /\ rest' = [rest EXCEPT ![s] = 0]
  /\ UNCHANGED <<wrote, vars>>

\* Mutant: the client waits until buf is full.
FillsBuffer(n) == n = ReadSize

\* read_some returns with a byte or more.
Suffices(n) == n \in 1..ReadSize

\* What has come back, all of it or less, is printed.
ReadSome(s) ==
  /\ client[s] = "read_some"
  /\ \E n \in 1..Len(echoed[s]) - fetched[s] :
       /\ Suffices(n)
       /\ fetched' = [fetched EXCEPT ![s] = @ + n]
  /\ client' = [client EXCEPT ![s] = "getline"]
  /\ UNCHANGED <<rest, wrote, doing, in_use_, memory, sent, taken, data_, put, echoed, uses>>

\* eof, or an error that is thrown and caught in main.
ReadEnds(s) ==
  /\ client[s] = "read_some" /\ doing[s] = "gone"
  /\ client' = [client EXCEPT ![s] = "ended"]
  /\ UNCHANGED <<rest, wrote, vars>>

Serve(s) == (HandleRead(s) \/ HandleWrite(s)) /\ UNCHANGED clientVars

\* The steps of a session that need not happen, and a peer of another kind.
Others(s) ==
  /\ \/ Accept(s) \/ AcceptFails(s) \/ Fails(s) \/ Aborts(s)
     \/ s \notin Clients /\ (PeerSends(s) \/ PeerReads(s))
  /\ UNCHANGED clientVars

ClientNext ==
  \/ \E s \in Sessions : Serve(s) \/ Others(s)
  \/ \E s \in Clients : GetLine(s) \/ WriteSome(s) \/ WriteFails(s) \/ ReadSome(s) \/ ReadEnds(s)

\* The server runs the handler of a read that has bytes and of a write that has room, a
\* write_some goes on when there is room and a read_some returns when there is something to
\* read.  The user need not type, and no connection need fail.
ClientSpec ==
  /\ ClientInit /\ [][ClientNext]_<<vars, clientVars>>
  /\ \A s \in Clients : /\ WF_<<vars, clientVars>>(Serve(s))
                        /\ WF_<<vars, clientVars>>(WriteSome(s) \/ WriteFails(s))
                        /\ WF_<<vars, clientVars>>(ReadSome(s) \/ ReadEnds(s))

-----------------------------------------------------------------------------
(* Properties *)

\* The client is in a write_some, or in a read_some after a line that was not empty.
Waits(s) == client[s] = "write_some" \/ (client[s] = "read_some" /\ wrote[s])

\* What is on its way and the line to be written do not fill the connection in both
\* directions, data_ with a byte and leave a byte to be written.
Fits(s) == client[s] = "write_some" => sent[s] + rest[s] - fetched[s] < 2 * Window + 2

\* Client and server take turns on a connection neither of them times out: a client that
\* writes a line that is not empty gets something back and does not wait for ever in write_some
\* or in read_some, however the line is cut by either side's reads and writes, unless the line
\* is too long for the connection (boost_tcp/sync_dc.cpp 43-61, server_03.cpp 113-138).
LineComesBack == \A s \in Clients : (Waits(s) /\ Fits(s)) ~> ~Waits(s)
=============================================================================
