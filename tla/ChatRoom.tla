------------------------------ MODULE ChatRoom ------------------------------
(***************************************************************************)
(* boost_chat/chat_server.cpp: a room, the sessions that join it, and the  *)
(* accept loop of one chat_server.  (Several ports give several servers,   *)
(* each with a room of its own; they share nothing but the io_service.)    *)
(*                                                                         *)
(* One thread runs the io_service and no handler closes a socket, so the   *)
(* completion of an operation and its handler are one step here: nothing   *)
(* that runs between them can change the result.  A session has a read     *)
(* chain (header, body, header, ...) and a write chain (front of           *)
(* write_msgs_, until it is empty) that run and fail independently.        *)
(*                                                                         *)
(* A message is its number in the order in which the room delivers.        *)
(***************************************************************************)
EXTENDS Naturals, Sequences

CONSTANTS
  Session,     \* the connections that may ever be accepted
  MaxRecent,   \* chat_room::max_recent_msgs, 100 in the code
  Draining,    \* the sessions whose peer goes on reading, or breaks the connection
  MaxMsgs      \* bound: messages read from the peers altogether

ASSUME MaxRecentAssumption == MaxRecent \in Nat
ASSUME MaxMsgsAssumption == MaxMsgs \in Nat
ASSUME DrainingAssumption == Draining \subseteq Session

VARIABLES
  participants_,   \* chat_room::participants_
  recent_msgs_,    \* chat_room::recent_msgs_
  write_msgs_,     \* chat_session::write_msgs_
  readOp,          \* the read a session has outstanding; "new" before it is accepted
  writes,          \* the number of async_write operations a session has outstanding
  delivered,       \* history: how often room_.deliver has been called
  first,           \* history: the first message a session was to be sent
  sent             \* history: the messages whose write has succeeded, in order

vars == <<participants_, recent_msgs_, write_msgs_, readOp, writes, delivered, first, sent>>
room == <<participants_, recent_msgs_, delivered, first>>

TypeOK ==
  /\ participants_ \subseteq Session
  /\ recent_msgs_ \in Seq(Nat)
  /\ write_msgs_ \in [Session -> Seq(Nat)]
  /\ readOp \in [Session -> {"new", "header", "body", "ended"}]
  /\ writes \in [Session -> Nat]
  /\ delivered \in Nat
  /\ first \in [Session -> Nat]
  /\ sent \in [Session -> Seq(Nat)]

Init ==
  /\ participants_ = {}
  /\ recent_msgs_ = <<>>
  /\ write_msgs_ = [s \in Session |-> <<>>]
  /\ readOp = [s \in Session |-> "new"]
  /\ writes = [s \in Session |-> 0]
  /\ delivered = 0
  /\ first = [s \in Session |-> 0]
  /\ sent = [s \in Session |-> <<>>]

-----------------------------------------------------------------------------
(* chat_room and chat_session::deliver *)

\* Mutant: pop_front while size() >= max_recent_msgs.
TrimTooMuch(q) == IF Len(q) >= MaxRecent THEN SubSeq(q, Len(q) - MaxRecent + 2, Len(q)) ELSE q

\* pop_front while size() > max_recent_msgs
Trim(q) == IF Len(q) > MaxRecent THEN SubSeq(q, Len(q) - MaxRecent + 1, Len(q)) ELSE q

\* Mutant: do_write without looking at write_in_progress.
DeliverAlwaysWrites(S, m) ==
  /\ write_msgs_' = [s \in Session |-> IF s \in S THEN Append(write_msgs_[s], m)
                                                  ELSE write_msgs_[s]]
  /\ writes' = [s \in Session |-> IF s \in S THEN writes[s] + 1 ELSE writes[s]]

\* Mutant: the message goes to every session that exists, in the room or not.
DeliverToAll(S, m) ==
  LET all == {s \in Session : readOp[s] # "new"}
  IN  /\ write_msgs_' = [s \in Session |-> IF s \in all THEN Append(write_msgs_[s], m)
                                                         ELSE write_msgs_[s]]
      /\ writes' = [s \in Session |-> IF s \in all /\ write_msgs_[s] = <<>> THEN writes[s] + 1
                                                                             ELSE writes[s]]

\* chat_session::deliver(m) on every session of S: queue it, and do_write only if the
\* queue was empty.
Deliver(S, m) ==
  /\ write_msgs_' = [s \in Session |-> IF s \in S THEN Append(write_msgs_[s], m)
                                                  ELSE write_msgs_[s]]
  /\ writes' = [s \in Session |-> IF s \in S /\ write_msgs_[s] = <<>> THEN writes[s] + 1
                                                                      ELSE writes[s]]

\* Mutant: the recent messages are not replayed.
JoinWithoutReplay(s) ==
  /\ participants_' = participants_ \cup {s}
  /\ first' = [first EXCEPT ![s] = delivered + 1 - Len(recent_msgs_)]
  /\ UNCHANGED <<write_msgs_, writes>>

\* chat_room::join: insert, then deliver each recent message; the first starts the write.
Join(s) ==
  /\ participants_' = participants_ \cup {s}
  /\ first' = [first EXCEPT ![s] = delivered + 1 - Len(recent_msgs_)]
  /\ write_msgs_' = [write_msgs_ EXCEPT ![s] = recent_msgs_]
  /\ writes' = [writes EXCEPT ![s] = IF recent_msgs_ = <<>> THEN 0 ELSE 1]

\* Mutant: the read chain ends without leaving the room.
StayAfterEnd(s) == participants_' = participants_

\* chat_room::leave
Leave(s) == participants_' = participants_ \ {s}

-----------------------------------------------------------------------------
(* chat_server and chat_session handlers *)

\* The accept handler without an error: a new session joins and reads a header.
Accept(s) ==
  /\ readOp[s] = "new"
  /\ Join(s)
  /\ readOp' = [readOp EXCEPT ![s] = "header"]
  /\ UNCHANGED <<recent_msgs_, delivered, sent>>

\* The accept handler with an error: do_accept again.
AcceptFails == UNCHANGED vars

\* The header arrives and decode_header accepts its length.
ReadHeader(s) ==
  /\ readOp[s] = "header"
  /\ readOp' = [readOp EXCEPT ![s] = "body"]
  /\ UNCHANGED <<room, write_msgs_, writes, sent>>

\* The body arrives: room_.deliver reaches every participant, this session too unless it
\* has left already; then the next header is read.
ReadBody(s) ==
  /\ readOp[s] = "body"
  /\ delivered < MaxMsgs
  /\ delivered' = delivered + 1
  /\ recent_msgs_' = Trim(Append(recent_msgs_, delivered'))
  /\ Deliver(participants_, delivered')
  /\ readOp' = [readOp EXCEPT ![s] = "header"]
  /\ UNCHANGED <<participants_, first, sent>>

\* Either read fails, or the header's length is refused: leave, and read no more.
ReadFails(s) ==
  /\ readOp[s] \in {"header", "body"}
  /\ readOp' = [readOp EXCEPT ![s] = "ended"]
  /\ Leave(s)
  /\ UNCHANGED <<recent_msgs_, delivered, first, write_msgs_, writes, sent>>

\* Mutant: the write handler does not go on with the rest of the queue.
WriteOkStops(s) ==
  /\ writes[s] > 0
  /\ sent' = [sent EXCEPT ![s] = Append(@, Head(write_msgs_[s]))]
  /\ write_msgs_' = [write_msgs_ EXCEPT ![s] = Tail(@)]
  /\ writes' = [writes EXCEPT ![s] = @ - 1]
  /\ UNCHANGED <<room, readOp>>

\* A write succeeds: pop_front, and do_write again unless the queue is empty.
WriteOk(s) ==
  /\ writes[s] > 0
  /\ sent' = [sent EXCEPT ![s] = Append(@, Head(write_msgs_[s]))]
  /\ write_msgs_' = [write_msgs_ EXCEPT ![s] = Tail(@)]
  /\ writes' = [writes EXCEPT ![s] = IF Len(write_msgs_[s]) > 1 THEN @ ELSE @ - 1]
  /\ UNCHANGED <<room, readOp>>

\* A write fails: leave; the queue is kept and the read chain goes on.
WriteFails(s) ==
  /\ writes[s] > 0
  /\ writes' = [writes EXCEPT ![s] = @ - 1]
  /\ Leave(s)
  /\ UNCHANGED <<recent_msgs_, delivered, first, write_msgs_, readOp, sent>>

WriteCompletes(s) == WriteOk(s) \/ WriteFails(s)

Next ==
  \/ AcceptFails
  \/ \E s \in Session :
       Accept(s) \/ ReadHeader(s) \/ ReadBody(s) \/ ReadFails(s) \/ WriteCompletes(s)

\* Only for the peers of Draining is a write known to complete: a peer that stops reading
\* leaves its session's write outstanding for ever.
Spec == Init /\ [][Next]_vars /\ \A s \in Draining : WF_vars(WriteCompletes(s))

-----------------------------------------------------------------------------
(* Properties *)

\* q holds the consecutive message numbers from f on.
Run(f, q) == \A i \in 1..Len(q) : q[i] = f + i - 1

\* The number of writes a session has outstanding is what its queue says: one while a
\* participant's queue is not empty, none when it is, and never two, which would
\* interleave two messages on the socket.  So write_msgs_.front() exists whenever a write
\* is started or completes, and no queued message waits for a write that nobody starts
\* (chat_server.cpp 54-60, 87-102).
OneWriteAtATime ==
  \A s \in Session :
    /\ writes[s] <= 1
    /\ writes[s] = 1 => write_msgs_[s] # <<>>
    /\ s \in participants_ /\ write_msgs_[s] # <<>> => writes[s] = 1

\* A session is sent a contiguous run of the room's messages from the first one it was
\* owed, in order, none lost or doubled; what its queue holds continues that run, and for
\* a participant the run reaches the newest message (chat_server.cpp 21-35, 54-60).
InOrderNoGaps ==
  \A s \in Session :
    /\ Run(first[s], sent[s])
    /\ Run(first[s] + Len(sent[s]), write_msgs_[s])
    /\ s \in participants_ => first[s] + Len(sent[s]) + Len(write_msgs_[s]) = delivered + 1

\* recent_msgs_ is the tail of what was delivered: as many messages as there have been, up
\* to max_recent_msgs, ending with the newest (chat_server.cpp 29-32).
RecentIsTail ==
  /\ Len(recent_msgs_) = IF delivered < MaxRecent THEN delivered ELSE MaxRecent
  /\ Run(delivered + 1 - Len(recent_msgs_), recent_msgs_)

\* A participant has a read outstanding, so the end of its connection will be noticed and
\* the room does not keep a session that nothing can remove (chat_server.cpp 62-86).
ParticipantReads == \A s \in participants_ : readOp[s] \in {"header", "body"}

\* A session that has left, whichever chain failed, never joins again and is queued nothing
\* more, even while its other chain is still running (chat_server.cpp 26-35, 70, 83, 99).
LeftIsLeft ==
  [][\A s \in Session : readOp[s] # "new" /\ s \notin participants_ =>
       s \notin participants_' /\ Len(write_msgs_'[s]) <= Len(write_msgs_[s])]_vars

\* Whatever the other peers do, in particular if they stop reading, a message the room has
\* delivered to a session with a draining peer is sent or the session has left
\* (chat_server.cpp 54-60, 87-102).
EventuallySent ==
  \A s \in Draining, m \in 1..MaxMsgs :
    (s \in participants_ /\ first[s] <= m /\ m <= delivered)
      ~> (s \notin participants_ \/ \E i \in 1..Len(sent[s]) : sent[s][i] = m)

NextOf == [s \in Session |-> IF readOp[s] = "new" THEN 0 ELSE first[s] + Len(sent[s])]

Log == INSTANCE ChatLog WITH log <- delivered, next <- NextOf, members <- participants_

\* The room implements the common log: a session is shown a message when its write succeeds.
ImplementsLog == Log!Spec
=============================================================================
