-------------------------- MODULE ChatClientProofs --------------------------
(***************************************************************************)
(* Proofs about the chat client.  About ChatClient, for any number of      *)
(* lines: the type invariant, the order of the lines on their way to the   *)
(* socket, the flag, and the number of lines that are accepted too late.   *)
(* About ChatFraming, for any lengths and any input: what the session      *)
(* relays is what was sent, and the client that reads it stays in step.    *)
(***************************************************************************)
EXTENDS ChatClient, ChatFraming, SequenceTheorems, TLAPS

\* close is posted, and how many lines are.
CloseQueued == posted # <<>> /\ posted[Len(posted)] = 0
LinesPosted == IF CloseQueued THEN Len(posted) - 1 ELSE Len(posted)

\* The three queues hold consecutive lines, each queue those after the one before it, and
\* main accounts for all of them but the line in its hand.  Nothing is posted after close.
QueueInv ==
  /\ \A k \in 1..Len(sent) : sent[k] = k
  /\ \A k \in 1..Len(write_msgs_) : write_msgs_[k] = Len(sent) + k
  /\ \A k \in 1..LinesPosted : posted[k] = Len(sent) + Len(write_msgs_) + k
  /\ CloseQueued => main \in {"join", "done"}
  /\ Len(sent) + Len(write_msgs_) + LinesPosted \in {typed - 1, typed}
  /\ main = "getline" => Len(sent) + Len(write_msgs_) + LinesPosted = typed
  /\ main \in {"check", "write"} => Len(sent) + Len(write_msgs_) + LinesPosted = typed - 1

\* At most one async_write is outstanding, and none for an empty queue.
WriteInv ==
  /\ writes <= 1
  /\ writes = 1 => write_msgs_ # <<>>
  /\ write_msgs_ # <<>> => writes = 1 \/ failed

\* The late line was in main's hand when the flag was raised; main does not get another one.
LateInv == late = 0 \/ (late = 1 /\ socket_closed /\ main # "write")

Inv == TypeOK /\ QueueInv /\ WriteInv /\ ReadsOrFlagged /\ LateInv

-----------------------------------------------------------------------------
LEMMA InitInv == Init => Inv
<1> SUFFICES ASSUME Init PROVE Inv
  OBVIOUS
<1>0. <<>> \in Seq(Posting) /\ <<>> \in Seq(Lines) /\ 0 \in 0..MaxLines
  BY MaxLinesAssumption
<1>1. TypeOK
  BY <1>0 DEF Init, TypeOK
<1>3. WriteInv /\ ReadsOrFlagged /\ LateInv
  BY DEF Init, WriteInv, ReadsOrFlagged, LateInv
<1>2. QueueInv
  <2>1. ~CloseQueued
    BY DEF Init, CloseQueued
  <2>2. Len(posted) = 0 /\ Len(sent) = 0 /\ Len(write_msgs_) = 0
    BY DEF Init
  <2>3. LinesPosted = 0
    BY <2>1, <2>2 DEF LinesPosted
  <2>4. main = "getline" /\ typed = 0
    BY DEF Init
  <2>5. 1..0 = {} /\ 0 + 0 + 0 = 0
    OBVIOUS
  <2> QED
    BY <2>1, <2>2, <2>3, <2>4, <2>5 DEF QueueInv
<1> QED
  BY <1>1, <1>2, <1>3 DEF Inv

\* The lines are natural numbers and the queues have lengths.
LEMMA Lengths ==
  ASSUME TypeOK
  PROVE  /\ Len(sent) \in Nat /\ Len(write_msgs_) \in Nat /\ Len(posted) \in Nat /\ typed \in Nat
         /\ posted # <<>> <=> Len(posted) > 0
         /\ write_msgs_ # <<>> <=> Len(write_msgs_) > 0
         /\ LinesPosted \in Nat
BY DEF TypeOK, LinesPosted, CloseQueued

\* The steps that move no message: the queues stay as they are.
LEMMA QueuesKept ==
  ASSUME Inv, UNCHANGED <<typed, posted, write_msgs_, sent>>,
         main' = "getline" => main = "getline",
         main' \in {"check", "write"} => main \in {"check", "write"},
         main \in {"join", "done"} => main' \in {"join", "done"}
  PROVE  QueueInv'
BY DEF Inv, QueueInv, CloseQueued, LinesPosted

\* getline returns when the line before has been posted.
LEMMA GetLineInOrder == ASSUME Inv, GetLine PROVE TypeOK' /\ QueueInv'
<1>1. TypeOK /\ QueueInv
  BY DEF Inv
<1>2. TypeOK'
  BY <1>1, MaxLinesAssumption DEF TypeOK, GetLine, ThenCheck, net
<1>3. UNCHANGED <<CloseQueued, LinesPosted, posted, sent, write_msgs_>>
  BY DEF GetLine, net, CloseQueued, LinesPosted
<1>4. /\ Len(sent) \in Nat /\ Len(write_msgs_) \in Nat /\ LinesPosted \in Nat /\ typed \in Nat
      /\ typed' = typed + 1
  BY <1>1, Lengths DEF GetLine
<1>5. main = "getline" /\ main' = "check"
  BY DEF GetLine, ThenCheck
<1>6. /\ Len(sent) + Len(write_msgs_) + LinesPosted = typed
      /\ Len(sent) + Len(write_msgs_) + LinesPosted = typed' - 1
  BY <1>1, <1>4, <1>5 DEF QueueInv
<1>7. QueueInv'
  BY <1>1, <1>3, <1>5, <1>6 DEF QueueInv
<1> QED
  BY <1>2, <1>7

\* c.write(msg) posts the line in main's hand, the one after all that are on their way.
LEMMA WriteInOrder == ASSUME Inv, Write PROVE TypeOK' /\ QueueInv'
<1>0. TypeOK /\ QueueInv /\ LateInv
  BY DEF Inv
<1>1. ~CloseQueued /\ LinesPosted = Len(posted)
  BY <1>0 DEF QueueInv, Write, LinesPosted
<1>2. /\ Len(sent) \in Nat /\ Len(write_msgs_) \in Nat /\ Len(posted) \in Nat /\ typed \in Nat
      /\ typed <= MaxLines
  BY <1>0, Lengths, MaxLinesAssumption DEF TypeOK
<1>3. Len(sent) + Len(write_msgs_) + Len(posted) = typed - 1
  BY <1>0, <1>1 DEF QueueInv, Write
<1>4. typed \in Lines /\ typed \in Posting
  BY <1>2, <1>3, MaxLinesAssumption DEF Lines, Posting
<1>5. late' \in 0..MaxLines
  BY <1>0, <1>4, MaxLinesAssumption DEF LateInv, Write, Lines
<1>6. posted \in Seq(Posting) /\ posted' = Append(posted, typed)
  BY <1>0 DEF TypeOK, Write
<1>7. /\ posted' \in Seq(Posting)
      /\ Len(posted') = Len(posted) + 1 /\ posted'[Len(posted) + 1] = typed
      /\ \A k \in 1..Len(posted) : posted'[k] = posted[k]
  BY <1>4, <1>6
<1>8. TypeOK'
  BY <1>0, <1>5, <1>7 DEF TypeOK, Write, net
<1>9. ~CloseQueued'
  BY <1>2, <1>4, <1>7 DEF CloseQueued, Lines
<1>10. LinesPosted' = Len(posted) + 1
  BY <1>7, <1>9 DEF LinesPosted
<1>11. /\ main = "write" /\ main' = "getline"
       /\ UNCHANGED <<sent, write_msgs_, typed>>
  BY DEF Write, net
<1>12. \A k \in 1..Len(posted) + 1 : posted'[k] = Len(sent) + Len(write_msgs_) + k
  <2> TAKE k \in 1..Len(posted) + 1
  <2>1. CASE k = Len(posted) + 1
    BY <1>2, <1>3, <1>7, <2>1
  <2>2. CASE k \in 1..Len(posted)
    BY <1>0, <1>1, <1>7, <2>2 DEF QueueInv
  <2> QED
    BY <1>2, <2>1, <2>2
<1> QED
  BY <1>0, <1>2, <1>3, <1>8, <1>9, <1>10, <1>11, <1>12 DEF QueueInv

\* c.close() is posted once, behind every line.
LEMMA CloseInOrder == ASSUME Inv, Close PROVE TypeOK' /\ QueueInv'
<1>0. TypeOK /\ QueueInv
  BY DEF Inv
<1>1. ~CloseQueued /\ LinesPosted = Len(posted)
  BY <1>0 DEF QueueInv, Close, LinesPosted
<1>2. 0 \in Posting /\ Len(posted) \in Nat
  BY <1>0, Lengths, MaxLinesAssumption DEF Posting
<1>3. posted \in Seq(Posting) /\ posted' = posted \o <<0>>
  BY <1>0 DEF TypeOK, Close, ClosePosted
<1>4. /\ posted' \in Seq(Posting)
      /\ Len(posted') = Len(posted) + 1 /\ posted'[Len(posted) + 1] = 0
      /\ \A k \in 1..Len(posted) : posted'[k] = posted[k]
  BY <1>2, <1>3
<1>5. TypeOK'
  BY <1>0, <1>4 DEF TypeOK, Close, net
<1>6. CloseQueued'
  BY <1>2, <1>4 DEF CloseQueued
<1>7. LinesPosted' = Len(posted)
  BY <1>2, <1>4, <1>6 DEF LinesPosted
<1>8. /\ main = "close" /\ main' = "join"
      /\ UNCHANGED <<sent, write_msgs_, typed>>
  BY DEF Close, net
<1> QED
  BY <1>0, <1>1, <1>4, <1>5, <1>6, <1>7, <1>8 DEF QueueInv

\* The handler write() posts moves the first posted line behind the last queued one.
LEMMA PostedWriteInOrder == ASSUME Inv, PostedWrite PROVE TypeOK' /\ QueueInv'
<1>0. TypeOK /\ QueueInv
  BY DEF Inv
<1>1. /\ posted \in Seq(Posting) /\ posted # <<>> /\ posted' = Tail(posted) /\ posted[1] # 0
      /\ write_msgs_ \in Seq(Lines) /\ write_msgs_' = Append(write_msgs_, posted[1])
  BY <1>0 DEF TypeOK, PostedWrite, Queued
<1>2. /\ Len(sent) \in Nat /\ Len(write_msgs_) \in Nat /\ Len(posted) \in Nat /\ Len(posted) > 0
      /\ LinesPosted \in Nat
  BY <1>0, <1>1, Lengths
<1>3. posted[1] \in Lines
  BY <1>1, <1>2, MaxLinesAssumption DEF Posting, Lines
<1>4. /\ posted' \in Seq(Posting) /\ Len(posted') = Len(posted) - 1
      /\ \A k \in 1..Len(posted) - 1 : posted'[k] = posted[k + 1]
  BY <1>1, <1>2
<1>5. /\ write_msgs_' \in Seq(Lines) /\ Len(write_msgs_') = Len(write_msgs_) + 1
      /\ write_msgs_'[Len(write_msgs_) + 1] = posted[1]
      /\ \A k \in 1..Len(write_msgs_) : write_msgs_'[k] = write_msgs_[k]
  BY <1>1, <1>3
<1>6. TypeOK'
  BY <1>0, <1>4, <1>5 DEF TypeOK, PostedWrite, user, StartResult
<1>7. CloseQueued' <=> CloseQueued
  <2>1. CASE Len(posted) = 1
    <3>1. posted' = <<>> /\ posted[Len(posted)] # 0
      BY <1>1, <1>4, <2>1
    <3> QED
      BY <3>1 DEF CloseQueued
  <2>2. CASE Len(posted) > 1
    <3>1. posted' # <<>> /\ posted'[Len(posted')] = posted[Len(posted)]
      BY <1>2, <1>4, <2>2
    <3> QED
      BY <1>1, <3>1 DEF CloseQueued
  <2>3. \A n \in Nat : n > 0 => n = 1 \/ n > 1
    OBVIOUS
  <2> QED
    BY <1>2, <2>1, <2>2, <2>3
<1>8. LinesPosted >= 1 /\ LinesPosted' = LinesPosted - 1
  <2>1. CASE CloseQueued
    <3>1. Len(posted) # 1
      BY <1>1, <2>1 DEF CloseQueued
    <3> QED
      BY <1>2, <1>4, <1>7, <2>1, <3>1 DEF LinesPosted
  <2>2. CASE ~CloseQueued
    BY <1>2, <1>4, <1>7, <2>2 DEF LinesPosted
  <2> QED
    BY <2>1, <2>2
<1>9. posted[1] = Len(sent) + Len(write_msgs_) + 1
  BY <1>0, <1>2, <1>8 DEF QueueInv
<1>10. UNCHANGED <<sent, main, typed>>
  BY DEF PostedWrite, user
<1>11. \A k \in 1..Len(write_msgs_) + 1 : write_msgs_'[k] = Len(sent) + k
  <2> TAKE k \in 1..Len(write_msgs_) + 1
  <2>1. CASE k = Len(write_msgs_) + 1
    BY <1>2, <1>5, <1>9, <2>1
  <2>2. CASE k \in 1..Len(write_msgs_)
    BY <1>0, <1>5, <2>2 DEF QueueInv
  <2> QED
    BY <1>2, <2>1, <2>2
<1>12. \A k \in 1..LinesPosted - 1 : posted'[k] = Len(sent) + (Len(write_msgs_) + 1) + k
  <2> TAKE k \in 1..LinesPosted - 1
  <2>1. k + 1 \in 1..LinesPosted /\ k \in 1..Len(posted) - 1
    BY <1>2, <1>8 DEF LinesPosted
  <2> QED
    BY <1>0, <1>2, <1>4, <2>1 DEF QueueInv
<1>13. Len(sent) + (Len(write_msgs_) + 1) + (LinesPosted - 1) = Len(sent) + Len(write_msgs_) + LinesPosted
  BY <1>2
<1> QED
  BY <1>0, <1>2, <1>5, <1>6, <1>7, <1>8, <1>10, <1>11, <1>12, <1>13 DEF QueueInv

\* close is the last handler posted.
LEMMA PostedCloseInOrder == ASSUME Inv, PostedClose PROVE TypeOK' /\ QueueInv'
<1>0. TypeOK /\ QueueInv
  BY DEF Inv
<1>1. posted \in Seq(Posting) /\ posted # <<>> /\ posted' = Tail(posted) /\ posted[1] = 0
  BY <1>0 DEF TypeOK, PostedClose
<1>2. /\ Len(sent) \in Nat /\ Len(write_msgs_) \in Nat /\ Len(posted) \in Nat /\ Len(posted) > 0
      /\ LinesPosted \in Nat
  BY <1>0, <1>1, Lengths
<1>3. LinesPosted = 0
  <2> SUFFICES ASSUME LinesPosted >= 1 PROVE FALSE
    BY <1>2
  <2>1. posted[1] = Len(sent) + Len(write_msgs_) + 1
    BY <1>0, <1>2 DEF QueueInv
  <2> QED
    BY <1>1, <1>2, <2>1
<1>4. Len(posted) = 1
  BY <1>2, <1>3 DEF LinesPosted
<1>5. posted' \in Seq(Posting) /\ Len(posted') = 0 /\ posted' = <<>>
  BY <1>1, <1>4
<1>6. TypeOK'
  BY <1>0, <1>5 DEF TypeOK, PostedClose, user, CloseSocket, Cancelled
<1>7. ~CloseQueued'
  BY <1>5 DEF CloseQueued
<1>8. LinesPosted' = 0
  BY <1>5, <1>7 DEF LinesPosted
<1>9. UNCHANGED <<sent, write_msgs_, main, typed>>
  BY DEF PostedClose, user
<1> QED
  BY <1>0, <1>3, <1>6, <1>7, <1>8, <1>9 DEF QueueInv

\* A write that succeeds moves the first queued line behind the last sent one.
LEMMA WroteInOrder ==
  ASSUME Inv, write_msgs_ # <<>>, UNCHANGED <<posted, main, typed>>,
         sent' = Append(sent, Head(write_msgs_)), write_msgs_' = Tail(write_msgs_)
  PROVE  sent' \in Seq(Lines) /\ write_msgs_' \in Seq(Lines) /\ QueueInv'
<1>0. TypeOK /\ QueueInv
  BY DEF Inv
<1>1. sent \in Seq(Lines) /\ write_msgs_ \in Seq(Lines) /\ Head(write_msgs_) = write_msgs_[1]
  BY <1>0 DEF TypeOK
<1>2. /\ Len(sent) \in Nat /\ Len(write_msgs_) \in Nat /\ Len(write_msgs_) > 0
      /\ LinesPosted \in Nat
  BY <1>0, Lengths
<1>3. write_msgs_[1] \in Lines /\ write_msgs_[1] = Len(sent) + 1
  BY <1>0, <1>1, <1>2 DEF QueueInv
<1>4. /\ sent' \in Seq(Lines) /\ Len(sent') = Len(sent) + 1
      /\ sent'[Len(sent) + 1] = write_msgs_[1]
      /\ \A k \in 1..Len(sent) : sent'[k] = sent[k]
  BY <1>1, <1>3
<1>5. /\ write_msgs_' \in Seq(Lines) /\ Len(write_msgs_') = Len(write_msgs_) - 1
      /\ \A k \in 1..Len(write_msgs_) - 1 : write_msgs_'[k] = write_msgs_[k + 1]
  BY <1>1, <1>2
<1>6. UNCHANGED <<CloseQueued, LinesPosted>>
  BY DEF CloseQueued, LinesPosted
<1>7. \A k \in 1..Len(sent) + 1 : sent'[k] = k
  BY <1>0, <1>2, <1>3, <1>4 DEF QueueInv
<1>8. \A k \in 1..Len(write_msgs_) - 1 : write_msgs_'[k] = (Len(sent) + 1) + k
  <2> TAKE k \in 1..Len(write_msgs_) - 1
  <2>1. k + 1 \in 1..Len(write_msgs_)
    BY <1>2
  <2> QED
    BY <1>0, <1>2, <1>5, <2>1 DEF QueueInv
<1>9. (Len(sent) + 1) + (Len(write_msgs_) - 1) = Len(sent) + Len(write_msgs_)
  BY <1>2
<1> QED
  BY <1>0, <1>2, <1>4, <1>5, <1>6, <1>7, <1>8, <1>9 DEF QueueInv
-----------------------------------------------------------------------------
LEMMA NextInv == Inv /\ [Next]_vars => Inv'
<1> SUFFICES ASSUME Inv, [Next]_vars PROVE Inv'
  OBVIOUS
<1> DEFINE Rest == WriteInv /\ ReadsOrFlagged /\ LateInv
<1>0. TypeOK /\ QueueInv /\ WriteInv /\ ReadsOrFlagged /\ LateInv
  BY DEF Inv
<1>1. CASE GetLine
  <2>1. Rest'
    BY <1>0, <1>1 DEF GetLine, ThenCheck, net, WriteInv, ReadsOrFlagged, LateInv
  <2> QED
    BY <1>1, <2>1, GetLineInOrder DEF Inv
<1>2. CASE Write
  <2>1. Rest'
    BY <1>0, <1>2 DEF Write, net, WriteInv, ReadsOrFlagged, LateInv
  <2> QED
    BY <1>2, <2>1, WriteInOrder DEF Inv
<1>3. CASE Close
  <2>1. Rest'
    BY <1>0, <1>3 DEF Close, net, WriteInv, ReadsOrFlagged, LateInv
  <2> QED
    BY <1>3, <2>1, CloseInOrder DEF Inv
<1>4. CASE EndOfInput \/ Check \/ Join
  <2>1. TypeOK' /\ Rest'
    BY <1>0, <1>4 DEF EndOfInput, Check, Join, net, TypeOK, WriteInv, ReadsOrFlagged, LateInv
  <2>2. QueueInv'
    BY <1>4, QueuesKept DEF EndOfInput, Check, Join, net
  <2> QED
    BY <2>1, <2>2 DEF Inv
<1>5. CASE Environment \/ Return
  <2>1. TypeOK' /\ Rest'
    <3> USE <1>0 DEF user, chains, TypeOK, WriteInv, ReadsOrFlagged, LateInv
    <3>1. CASE ConnectCompletes
      BY <3>1 DEF ConnectCompletes
    <3>2. CASE ReadCompletes
      BY <3>2 DEF ReadCompletes
    <3>3. CASE WriteCompletes
      <4>1. writeRes' \in {"ok", "error"}
        BY <3>3 DEF WriteCompletes
      <4> QED
        BY <3>3, <4>1 DEF WriteCompletes
    <3>4. CASE Return
      BY <3>4, ZenonT(60) DEF Return
    <3> QED
      BY <1>5, <3>1, <3>2, <3>3, <3>4 DEF Environment
  <2>2. QueueInv'
    BY <1>5, QueuesKept DEF Environment, ConnectCompletes, ReadCompletes, WriteCompletes, Return,
       user, chains
  <2> QED
    BY <2>1, <2>2 DEF Inv
<1>6. CASE PostedWrite
  <2>1. write_msgs_' # <<>>
    BY <1>0, <1>6 DEF PostedWrite, Queued, TypeOK
  <2>2. Rest'
    BY <1>0, <1>6, <2>1 DEF PostedWrite, user, TypeOK, WriteInv, ReadsOrFlagged, LateInv
  <2> QED
    BY <1>6, <2>2, PostedWriteInOrder DEF Inv
<1>7. CASE PostedClose
  <2>1. Rest'
    BY <1>0, <1>7 DEF PostedClose, CloseSocket, user, TypeOK, WriteInv, ReadsOrFlagged, LateInv
  <2> QED
    BY <1>7, <2>1, PostedCloseInOrder DEF Inv
<1>8. CASE ConnectHandler
  <2>1. TypeOK' /\ Rest'
    BY <1>0, <1>8 DEF ConnectHandler, Connected, ConnectFails, user, TypeOK, WriteInv,
       ReadsOrFlagged, LateInv
  <2>2. QueueInv'
    BY <1>8, QueuesKept DEF ConnectHandler, Connected, ConnectFails, user
  <2> QED
    BY <2>1, <2>2 DEF Inv
<1>9. CASE ReadHandler
  <2>1. TypeOK' /\ Rest'
    <3> USE <1>0 DEF user, TypeOK, WriteInv, ReadsOrFlagged, LateInv
    <3>1. CASE HeaderRead
      <4>1. readRes' \in {"ok", "pending", "error"}
        BY <3>1 DEF HeaderRead, StartResult
      <4> QED
        BY <3>1, <4>1 DEF HeaderRead
    <3>2. CASE BodyRead
      BY <3>2 DEF BodyRead, StartResult
    <3>3. CASE ReadEnds
      BY <3>3 DEF ReadEnds, CloseSocket, Cancelled, FlagRaised
    <3> QED
      BY <1>9, <3>1, <3>2, <3>3 DEF ReadHandler
  <2>2. QueueInv'
    BY <1>9, QueuesKept DEF ReadHandler, HeaderRead, BodyRead, ReadEnds, user
  <2> QED
    BY <2>1, <2>2 DEF Inv
<1>10. CASE WroteMore
  <2>1. write_msgs_ # <<>> /\ Tail(write_msgs_) # <<>> /\ writes = 1
    <3>1. write_msgs_ \in Seq(Lines) /\ Len(write_msgs_) > 1 /\ writes = 1
      BY <1>0, <1>10 DEF WroteMore, TypeOK, WriteInv
    <3>2. Len(Tail(write_msgs_)) = Len(write_msgs_) - 1 /\ Len(write_msgs_) \in Nat
      BY <3>1
    <3>3. Tail(write_msgs_) # <<>>
      <4>1. Len(<<>>) = 0
        OBVIOUS
      <4>2. \A n \in Nat : n > 1 => n - 1 # 0
        OBVIOUS
      <4> QED
        BY <3>1, <3>2, <4>1, <4>2
    <3> QED
      BY <3>1, <3>3
  <2>2. sent' \in Seq(Lines) /\ write_msgs_' \in Seq(Lines) /\ QueueInv'
    BY <1>10, <2>1, WroteInOrder DEF WroteMore, user
  <2>3. TypeOK' /\ Rest'
    BY <1>0, <1>10, <2>1, <2>2 DEF WroteMore, StartResult, user, TypeOK, WriteInv, ReadsOrFlagged,
       LateInv
  <2> QED
    BY <2>2, <2>3 DEF Inv
<1>11. CASE WroteLast
  <2>1. write_msgs_ # <<>> /\ Tail(write_msgs_) = <<>> /\ writes = 1
    BY <1>0, <1>11, SMTT(30) DEF WroteLast, TypeOK, WriteInv
  <2>2. sent' \in Seq(Lines) /\ write_msgs_' \in Seq(Lines) /\ QueueInv'
    BY <1>11, <2>1, WroteInOrder DEF WroteLast, user
  <2>3. TypeOK' /\ Rest'
    BY <1>0, <1>11, <2>1, <2>2 DEF WroteLast, CloseSocket, Cancelled, user, TypeOK, WriteInv,
       ReadsOrFlagged, LateInv
  <2> QED
    BY <2>2, <2>3 DEF Inv
<1>12. CASE WriteFails
  <2>1. TypeOK' /\ Rest'
    BY <1>0, <1>12 DEF WriteFails, user, TypeOK, WriteInv, ReadsOrFlagged, LateInv
  <2>2. QueueInv'
    BY <1>12, QueuesKept DEF WriteFails, user
  <2> QED
    BY <2>1, <2>2 DEF Inv
<1>13. CASE Exited \/ UNCHANGED vars
  <2>1. UNCHANGED vars
    BY <1>13 DEF Exited
  <2>2. QueueInv'
    BY <2>1, QueuesKept DEF vars, user, net
  <2> QED
    BY <1>0, <2>1, <2>2 DEF vars, user, net, Inv, TypeOK, WriteInv, ReadsOrFlagged, LateInv
<1> QED
  BY <1>1, <1>2, <1>3, <1>4, <1>5, <1>6, <1>7, <1>8, <1>9, <1>10, <1>11, <1>12, <1>13
     DEF Next, PostedHandler, WriteHandler

LEMMA SpecInv == Spec => []Inv
BY InitInv, NextInv, PTL DEF Spec

\* The posted lines are what comes before close.
LEMMA PostedLinesAre ==
  ASSUME TypeOK
  PROVE  /\ PostedLines \in Seq(Posting) /\ Len(PostedLines) = LinesPosted
         /\ \A k \in 1..LinesPosted : PostedLines[k] = posted[k]
<1>1. posted \in Seq(Posting) /\ Len(posted) \in Nat
  BY Lengths DEF TypeOK
<1>2. CASE CloseQueued
  <2>1. /\ PostedLines = SubSeq(posted, 1, Len(posted) - 1) /\ LinesPosted = Len(posted) - 1
        /\ Len(posted) >= 1
    BY <1>1, <1>2 DEF PostedLines, CloseQueued, LinesPosted
  <2> QED
    BY <1>1, <2>1
<1>3. CASE ~CloseQueued
  BY <1>1, <1>3 DEF PostedLines, CloseQueued, LinesPosted
<1> QED
  BY <1>2, <1>3

\* Three runs of consecutive lines, end to end, are one.
LEMMA InvOrder == Inv => LinesInOrder
<1> SUFFICES ASSUME Inv PROVE LinesInOrder
  OBVIOUS
<1> DEFINE two == sent \o write_msgs_
           all == two \o PostedLines
<1>0. TypeOK /\ QueueInv /\ WriteInv
  BY DEF Inv
<1>1. /\ sent \in Seq(Posting) /\ write_msgs_ \in Seq(Posting)
      /\ Len(sent) \in Nat /\ Len(write_msgs_) \in Nat /\ LinesPosted \in Nat
  <2>1. sent \in Seq(Lines) /\ write_msgs_ \in Seq(Lines)
    BY <1>0 DEF TypeOK
  <2>2. Lines \subseteq Posting
    BY MaxLinesAssumption DEF Lines, Posting
  <2>3. \A q \in Seq(Lines) : q \in Seq(Posting)
    BY <2>2
  <2> QED
    BY <1>0, <2>1, <2>3, Lengths
<1>2. /\ two \in Seq(Posting) /\ Len(two) = Len(sent) + Len(write_msgs_)
      /\ \A k \in 1..Len(sent) + Len(write_msgs_) :
            two[k] = IF k <= Len(sent) THEN sent[k] ELSE write_msgs_[k - Len(sent)]
  BY <1>1, ConcatProperties
<1>3. \A k \in 1..Len(two) : two[k] = k
  <2> TAKE k \in 1..Len(two)
  <2>1. CASE k \in 1..Len(sent)
    BY <1>0, <1>1, <1>2, <2>1 DEF QueueInv
  <2>2. CASE k - Len(sent) \in 1..Len(write_msgs_)
    BY <1>0, <1>1, <1>2, <2>2 DEF QueueInv
  <2> QED
    BY <1>1, <1>2, <2>1, <2>2
<1> HIDE DEF two
<1>4. /\ Len(all) = Len(two) + LinesPosted
      /\ \A k \in 1..Len(two) + LinesPosted :
            all[k] = IF k <= Len(two) THEN two[k] ELSE PostedLines[k - Len(two)]
  <2>1. PostedLines \in Seq(Posting) /\ Len(PostedLines) = LinesPosted
    BY <1>0, PostedLinesAre
  <2>2. /\ Len(two \o PostedLines) = Len(two) + Len(PostedLines)
        /\ \A k \in 1..Len(two) + Len(PostedLines) :
              (two \o PostedLines)[k] = IF k <= Len(two) THEN two[k] ELSE PostedLines[k - Len(two)]
    BY <1>2, <2>1, ConcatProperties
  <2> QED
    BY <2>1, <2>2
<1>5. \A k \in 1..Len(all) : all[k] = k
  <2> TAKE k \in 1..Len(all)
  <2>1. CASE k \in 1..Len(two)
    BY <1>1, <1>2, <1>3, <1>4, <2>1
  <2>2. CASE k - Len(two) \in 1..LinesPosted
    <3>1. PostedLines[k - Len(two)] = posted[k - Len(two)]
      BY <1>0, <2>2, PostedLinesAre
    <3>2. posted[k - Len(two)] = Len(two) + (k - Len(two))
      BY <1>0, <1>2, <2>2 DEF QueueInv
    <3> QED
      BY <1>1, <1>2, <1>4, <2>2, <3>1, <3>2
  <2> QED
    BY <1>1, <1>2, <1>4, <2>1, <2>2
<1>6. Len(all) = Len(sent) + Len(write_msgs_) + LinesPosted
  BY <1>1, <1>2, <1>4
<1> USE DEF two
<1> QED
  BY <1>0, <1>5, <1>6 DEF QueueInv, WriteInv, LinesInOrder

-----------------------------------------------------------------------------
\* The variables keep their types.
THEOREM TypeCorrect == Spec => []TypeOK
BY SpecInv, PTL DEF Inv

\* Every line main has posted is on its way once, in the order typed, with at most one write
\* outstanding, for any number of lines.
THEOREM LinesKeepOrder == Spec => []LinesInOrder
BY SpecInv, InvOrder, PTL

\* A connected client reads or has raised the flag, and the flag means the socket is closed.
THEOREM FlagTellsTheTruth == Spec => []ReadsOrFlagged
BY SpecInv, PTL DEF Inv

\* At most one line is posted after the flag was raised, however many are typed.
THEOREM AtMostOneLateLine == Spec => []OneLateLine
<1>1. Inv => OneLateLine
  BY DEF Inv, LateInv, OneLateLine
<1> QED
  BY <1>1, SpecInv, PTL
-----------------------------------------------------------------------------
(* The bytes of the messages (ChatFraming) *)

\* Where the sender's bytes begin that the session has not handed on.
Unread == IF session = "body" THEN taken - HeaderLength ELSE taken

\* While a body is read, the header before it lies at the front of data_.
HeaderInv ==
  session = "body" =>
    /\ taken >= HeaderLength
    /\ \A j \in 1..HeaderLength : data_[j] = input[Unread + j]
    /\ Accepts(SubSeq(data_, 1, HeaderLength))
    /\ body_length_ = DecodeHeader(SubSeq(data_, 1, HeaderLength))

\* m is a run of the sender's bytes that begins behind the first start of them, with a
\* header that announces its length.
MessageAt(m, start) ==
  /\ start + Len(m) <= taken
  /\ \A j \in 1..Len(m) : m[j] = input[start + j]
  /\ Accepts(SubSeq(m, 1, HeaderLength))
  /\ Len(m) = HeaderLength + DecodeHeader(SubSeq(m, 1, HeaderLength))

MessagesInv ==
  /\ \A k \in 1..Len(delivered) : MessageAt(delivered[k], from[k])
  /\ \A k \in 1..Len(delivered) - 1 : from[k + 1] >= from[k] + Len(delivered[k])
  /\ delivered # <<>> => from[Len(delivered)] + Len(delivered[Len(delivered)]) <= Unread

\* off[k] is how many relayed bytes lie in front of the k-th message.
Positions(off) ==
  /\ off \in [1..Len(delivered) + 1 -> 0..Len(relayed)]
  /\ off[1] = 0 /\ off[Len(delivered) + 1] = Len(relayed)
  /\ \A k \in 1..Len(delivered) :
       /\ off[k + 1] = off[k] + Len(delivered[k])
       /\ \A j \in 1..Len(delivered[k]) : relayed[off[k] + j] = delivered[k][j]

\* The client is in front of a message that the session began, or behind the header of one.
ClientAt(off) ==
  /\ client # "closed"
  /\ client = "header" =>
       Len(printed) <= Len(delivered) /\ seen = off[Len(printed) + 1]
  /\ client = "body" =>
       /\ Len(printed) < Len(delivered)
       /\ seen = off[Len(printed) + 1] + HeaderLength
       /\ clientLength = Len(delivered[Len(printed) + 1]) - HeaderLength

StreamInv == \E off : Positions(off) /\ ClientAt(off)

PrintedInv ==
  \A k \in 1..Len(printed) : printed[k] = SubSeq(delivered[k], HeaderLength + 1, Len(delivered[k]))

FramingInv == FramingTypeOK /\ HeaderInv /\ MessagesInv /\ StreamInv /\ PrintedInv

\* data_ ends four bytes before body_length_, as many as a header has.
Padded == HeaderLength <= Pad

-----------------------------------------------------------------------------
\* What decode_header leaves in body_length_ is a length that fits.
LEMMA DecodedFits == ASSUME NEW h PROVE DecodeHeader(h) \in 0..MaxBody
BY FramingAssumption DEF DecodeHeader, Accepts

\* The n elements of s behind the first a; they are in S; they are those of t behind the first b.
Cut(s, a, n) == SubSeq(s, a + 1, a + n)
Inside(S, s, a, n) == \A j \in 1..n : s[a + j] \in S
Agree(s, a, t, b, n) == \A j \in 1..n : s[a + j] = t[b + j]

\* What a cut is.
LEMMA CutOf ==
  ASSUME NEW S, NEW s, NEW a \in Nat, NEW n \in Nat, Inside(S, s, a, n)
  PROVE  /\ Cut(s, a, n) \in Seq(S)
         /\ Len(Cut(s, a, n)) = n
         /\ Agree(Cut(s, a, n), 0, s, a, n)
<1>1. \A i \in a + 1..a + n : s[i] \in S
  <2> TAKE i \in a + 1..a + n
  <2>1. i - a \in 1..n /\ a + (i - a) = i
    OBVIOUS
  <2> QED
    BY <2>1 DEF Inside
<1>2. a + 1 \in Int /\ a + n \in Int
  OBVIOUS
<1>3. /\ SubSeq(s, a + 1, a + n) \in Seq(S)
      /\ Len(SubSeq(s, a + 1, a + n)) = IF a + 1 <= a + n THEN (a + n) - (a + 1) + 1 ELSE 0
      /\ \A i \in 1..(a + n) - (a + 1) + 1 : SubSeq(s, a + 1, a + n)[i] = s[(a + 1) + i - 1]
  BY ONLY <1>1, <1>2, SubSeqProperties
<1>4. (a + n) - (a + 1) + 1 = n /\ (~(a + 1 <= a + n) => n = 0)
  OBVIOUS
<1>5. \A j \in 1..n : (a + 1) + j - 1 = a + j /\ 0 + j = j
  OBVIOUS
<1>6. Len(SubSeq(s, a + 1, a + n)) = n
  BY ONLY <1>3, <1>4
<1>7. \A j \in 1..n : SubSeq(s, a + 1, a + n)[0 + j] = s[a + j]
  BY ONLY <1>3, <1>4, <1>5
<1> QED
  BY <1>3, <1>6, <1>7 DEF Cut, Agree

\* Cuts that agree are equal.
LEMMA SameCut ==
  ASSUME NEW S, NEW s, NEW t, NEW a \in Nat, NEW b \in Nat, NEW n \in Nat,
         Inside(S, s, a, n), Agree(s, a, t, b, n)
  PROVE  Cut(s, a, n) = Cut(t, b, n)
<1>1. Inside(S, t, b, n)
  BY DEF Inside, Agree
<1>2. Cut(s, a, n) \in Seq(S) /\ Len(Cut(s, a, n)) = n /\ Agree(Cut(s, a, n), 0, s, a, n)
  BY CutOf
<1>3. Cut(t, b, n) \in Seq(S) /\ Len(Cut(t, b, n)) = n /\ Agree(Cut(t, b, n), 0, t, b, n)
  BY <1>1, CutOf
<1>4. \A j \in 1..n : 0 + j = j
  OBVIOUS
<1>5. \A j \in 1..n : Cut(s, a, n)[j] = Cut(t, b, n)[j]
  <2> TAKE j \in 1..n
  <2>1. Cut(s, a, n)[0 + j] = s[a + j] /\ Cut(t, b, n)[0 + j] = t[b + j] /\ s[a + j] = t[b + j]
    BY <1>2, <1>3 DEF Agree
  <2> QED
    BY <1>4, <2>1
<1> QED
  BY ONLY <1>2, <1>3, <1>5, SeqEqual

\* A cut at the front, and one that is a whole sequence.
LEMMA FrontCut == ASSUME NEW s, NEW n \in Nat PROVE Cut(s, 0, n) = SubSeq(s, 1, n)
<1>1. 0 + 1 = 1 /\ 0 + n = n
  OBVIOUS
<1> QED
  BY <1>1 DEF Cut

LEMMA WholeCut == ASSUME NEW S, NEW t \in Seq(S)
                  PROVE  Inside(S, t, 0, Len(t)) /\ t = Cut(t, 0, Len(t))
<1>1. Len(t) \in Nat /\ \A j \in 1..Len(t) : 0 + j = j /\ t[j] \in S
  OBVIOUS
<1>2. SubSeq(t, 1, Len(t)) = t
  OBVIOUS
<1> QED
  BY <1>1, <1>2, FrontCut DEF Inside

\* The types, as facts about lengths and elements.
LEMMA FramingTypes ==
  ASSUME FramingTypeOK
  PROVE  /\ HeaderLength \in Nat /\ HeaderLength > 0 /\ MaxBody \in Nat /\ Pad \in Nat
         /\ input \in Seq(Bytes) /\ Len(input) \in Nat
         /\ taken \in Nat /\ taken <= Len(input)
         /\ body_length_ \in Nat /\ clientLength \in Nat
         /\ Len(delivered) \in Nat /\ Len(relayed) \in Nat /\ Len(printed) \in Nat
         /\ seen \in Nat /\ seen <= Len(relayed)
         /\ \A k \in 1..Len(delivered) :
              delivered[k] \in Seq(Bytes) /\ Len(delivered[k]) \in Nat /\ from[k] \in Nat
         /\ \A j \in 1..Len(input) : input[j] \in Bytes
         /\ \A j \in 1..Len(relayed) : relayed[j] \in Bytes
<1>1. /\ input \in Seq(Bytes) /\ delivered \in Seq(Seq(Bytes)) /\ from \in Seq(Nat)
      /\ relayed \in Seq(Bytes) /\ printed \in Seq(Seq(Bytes)) /\ Len(from) = Len(delivered)
  BY FramingAssumption DEF FramingTypeOK
<1>2. \A k \in 1..Len(delivered) : delivered[k] \in Seq(Bytes) /\ from[k] \in Nat
  BY <1>1
<1> QED
  BY <1>1, <1>2, FramingAssumption DEF FramingTypeOK

-----------------------------------------------------------------------------
LEMMA FramingInitInv == FramingInit => FramingInv
<1> SUFFICES ASSUME FramingInit PROVE FramingInv
  OBVIOUS
<1>0. /\ <<>> \in Seq(Seq(Bytes)) /\ <<>> \in Seq(Bytes) /\ <<>> \in Seq(Nat) /\ Len(<<>>) = 0
      /\ 1..0 = {}
  OBVIOUS
<1>1. FramingTypeOK
  <2>1. input \in Seq(Bytes) /\ 0 \in 0..Len(input) /\ 0 \in 0..MaxBody /\ 0 \in 0..0
    BY FramingAssumption DEF FramingInit
  <2>2. data_ \in [1..Size -> Bytes \cup {"?"}]
    BY DEF FramingInit
  <2> QED
    BY <1>0, <2>1, <2>2 DEF FramingInit, FramingTypeOK
<1>2. HeaderInv /\ PrintedInv
  BY <1>0 DEF FramingInit, HeaderInv, PrintedInv
<1>3. MessagesInv
  <2>1. 1..(0 - 1) = {}
    OBVIOUS
  <2> QED
    BY <1>0, <2>1 DEF FramingInit, MessagesInv
<1>4. StreamInv
  <2> DEFINE off == [k \in 1..1 |-> 0]
  <2>1. 0 + 1 = 1 /\ 1 \in 1..1 /\ 0 \in 0..0
    OBVIOUS
  <2>2. off \in [1..0 + 1 -> 0..0] /\ off[1] = 0
    BY <2>1
  <2>3. Positions(off) /\ ClientAt(off)
    BY <1>0, <2>1, <2>2 DEF FramingInit, Positions, ClientAt
  <2> QED
    BY <2>3 DEF StreamInv
<1> QED
  BY <1>1, <1>2, <1>3, <1>4 DEF FramingInv
-----------------------------------------------------------------------------
\* The session's steps leave the messages alone that it has handed on.
LEMMA MessagesKept ==
  ASSUME FramingInv, UNCHANGED <<input, delivered, from>>,
         taken' \in Nat, taken <= taken', Unread <= Unread', Unread' \in Nat
  PROVE  MessagesInv'
<1>0. FramingTypeOK /\ MessagesInv
  BY DEF FramingInv
<1>1. \A k \in 1..Len(delivered) : MessageAt(delivered[k], from[k])'
  <2> TAKE k \in 1..Len(delivered)
  <2>1. MessageAt(delivered[k], from[k]) /\ Len(delivered[k]) \in Nat /\ from[k] \in Nat
    BY <1>0, FramingTypes DEF MessagesInv
  <2>2. taken \in Nat
    BY <1>0, FramingTypes
  <2> QED
    BY <2>1, <2>2 DEF MessageAt
<1>2. ASSUME delivered # <<>>
      PROVE  from[Len(delivered)] + Len(delivered[Len(delivered)]) <= Unread'
  <2>1. delivered \in Seq(Seq(Bytes)) /\ Len(delivered) \in 1..Len(delivered)
    BY <1>0, <1>2 DEF FramingTypeOK
  <2>2. /\ from[Len(delivered)] \in Nat /\ Len(delivered[Len(delivered)]) \in Nat
        /\ from[Len(delivered)] + Len(delivered[Len(delivered)]) <= Unread
    BY <1>0, <1>2, <2>1, FramingTypes DEF MessagesInv
  <2>3. Unread \in Int
    BY <1>0, FramingTypes DEF Unread
  <2> QED
    BY <2>2, <2>3
<1> QED
  BY <1>0, <1>1, <1>2 DEF MessagesInv

\* What is relayed stays, and so does the client's place in it.
LEMMA StreamKept ==
  ASSUME FramingInv, UNCHANGED <<delivered, relayed, client, clientLength, seen, printed>>
  PROVE  StreamInv' /\ PrintedInv'
BY DEF FramingInv, StreamInv, Positions, ClientAt, PrintedInv

\* do_read_header: the header lies at the front of data_.
LEMMA ReadHeaderInv == ASSUME FramingInv, ReadHeader PROVE FramingInv'
<1>0. FramingTypeOK /\ MessagesInv
  BY DEF FramingInv
<1>1. /\ HeaderLength \in Nat /\ MaxBody \in Nat /\ taken \in Nat /\ Len(input) \in Nat
      /\ Size = HeaderLength + MaxBody
  BY <1>0, FramingTypes DEF Size
<1>2. taken + HeaderLength <= Len(input) /\ taken' = taken + HeaderLength /\ session = "header"
  BY DEF ReadHeader
<1>3. \A k \in 1..HeaderLength : k \in 1..Size /\ k \in 0 + 1..0 + HeaderLength
                                 /\ taken + k - 0 = taken + k /\ taken + k \in 1..Len(input)
  BY <1>1, <1>2
<1>4. \A k \in 1..Size : k \in 0 + 1..0 + HeaderLength => k \in 1..HeaderLength
  BY <1>1
<1>5. data_' = [k \in 1..Size |-> IF k \in 0 + 1..0 + HeaderLength THEN input[taken + k - 0]
                                  ELSE data_[k]]
  BY DEF ReadHeader, Filled
<1>6. \A j \in 1..HeaderLength : data_'[j] = input[taken + j]
  BY <1>3, <1>5
<1>7. data_' \in [1..Size -> Bytes \cup {"?"}]
  <2>1. \A j \in 1..Len(input) : input[j] \in Bytes
    BY <1>0, FramingTypes
  <2>2. data_ \in [1..Size -> Bytes \cup {"?"}]
    BY <1>0 DEF FramingTypeOK
  <2> QED
    BY <1>3, <1>4, <1>5, <2>1, <2>2
<1> DEFINE h == SubSeq(data_', 1, HeaderLength)
<1>8. body_length_' = DecodeHeader(h) /\ session' = IF Accepts(h) THEN "body" ELSE "left"
  BY DEF ReadHeader
<1>9. body_length_' \in 0..MaxBody
  BY <1>8, DecodedFits
<1>10. UNCHANGED <<input, delivered, relayed, from, client, clientLength, seen, printed>>
  BY DEF ReadHeader, reader
<1>11. FramingTypeOK'
  <2>1. taken' \in 0..Len(input)
    BY <1>1, <1>2
  <2> QED
    BY <1>0, <1>7, <1>8, <1>9, <1>10, <2>1 DEF FramingTypeOK
<1>12. Unread = taken /\ (session' = "body" => Unread' = taken)
       /\ (session' # "body" => Unread' = taken + HeaderLength)
  <2>1. (taken + HeaderLength) - HeaderLength = taken
    BY <1>1
  <2>2. Unread' = IF session' = "body" THEN taken' - HeaderLength ELSE taken'
    BY DEF Unread
  <2>3. Unread = taken
    BY <1>2 DEF Unread
  <2> QED
    BY ONLY <1>2, <2>1, <2>2, <2>3
<1>13. HeaderInv'
  <2>1. taken' >= HeaderLength
    BY <1>1, <1>2
  <2> QED
    BY <1>6, <1>8, <1>10, <1>12, <2>1 DEF HeaderInv
<1>14. MessagesInv'
  <2>1. taken' \in Nat /\ taken <= taken' /\ Unread <= Unread' /\ Unread' \in Nat
    BY <1>1, <1>2, <1>12
  <2> QED
    BY <1>10, <2>1, MessagesKept
<1> QED
  BY <1>10, <1>11, <1>13, <1>14, StreamKept DEF FramingInv

\* The session leaves.
LEMMA ReadFailsInv == ASSUME FramingInv, ReadFails PROVE FramingInv'
<1>1. UNCHANGED <<input, taken, data_, body_length_, delivered, relayed, from,
                  client, clientLength, seen, printed>> /\ session' = "left"
  BY DEF ReadFails, reader
<1>2. FramingTypeOK' /\ HeaderInv'
  BY <1>1 DEF FramingInv, FramingTypeOK, HeaderInv
<1>3. MessagesInv'
  <2>1. taken \in Nat /\ HeaderLength \in Nat /\ (session = "body" => taken >= HeaderLength)
    BY FramingTypes DEF FramingInv, HeaderInv
  <2>2. taken' = taken /\ Unread' = taken
    BY <1>1 DEF Unread
  <2>3. Unread <= taken
    BY <2>1 DEF Unread
  <2>4. taken' \in Nat /\ taken <= taken' /\ Unread <= Unread' /\ Unread' \in Nat
    BY <2>1, <2>2, <2>3
  <2> QED
    BY <1>1, <2>4, MessagesKept
<1> QED
  BY <1>1, <1>2, <1>3, StreamKept DEF FramingInv

\* do_read_body: the message is what was read since the first byte of its header.
LEMMA BodyAsSent ==
  ASSUME FramingInv, ReadBody, Padded,
         NEW m, m = SubSeq(data_', 1, HeaderLength + body_length_)
  PROVE  /\ body_length_' = body_length_
         /\ data_' \in [1..Size -> Bytes \cup {"?"}]
         /\ m \in Seq(Bytes)
         /\ \A j \in 1..Len(m) : m[j] = input[Unread + j]
         /\ Accepts(SubSeq(m, 1, HeaderLength))
         /\ Len(m) = HeaderLength + DecodeHeader(SubSeq(m, 1, HeaderLength))
         /\ Unread \in Nat /\ Unread = taken - HeaderLength
         /\ taken' \in 0..Len(input) /\ taken <= taken' /\ Unread + Len(m) <= taken'
         /\ session' = "header" /\ Unread' = taken'
<1> DEFINE n == HeaderLength + body_length_
<1>0. FramingTypeOK /\ HeaderInv
  BY DEF FramingInv
<1>1. /\ HeaderLength \in Nat /\ HeaderLength > 0 /\ MaxBody \in Nat /\ Pad \in Nat
      /\ taken \in Nat /\ Len(input) \in Nat /\ body_length_ \in Nat /\ body_length_ <= MaxBody
      /\ Size = HeaderLength + MaxBody
      /\ \A j \in 1..Len(input) : input[j] \in Bytes
  BY <1>0, FramingTypes DEF Size, FramingTypeOK
<1>2. /\ session = "body" /\ taken >= HeaderLength /\ Unread = taken - HeaderLength
      /\ \A j \in 1..HeaderLength : data_[j] = input[Unread + j]
      /\ Accepts(SubSeq(data_, 1, HeaderLength))
      /\ body_length_ = DecodeHeader(SubSeq(data_, 1, HeaderLength))
  BY <1>0 DEF ReadBody, HeaderInv, Unread
<1>3. /\ Unread \in Nat /\ Unread + HeaderLength = taken /\ Asked = n /\ n \in Nat
      /\ taken + n <= Len(input) /\ taken' = taken + n
      /\ session' = "header" /\ Unread' = taken'
  <2>1. Asked = n /\ taken + n <= Len(input) /\ taken' = taken + n /\ session' = "header"
    BY DEF ReadBody, Asked
  <2>2. Unread' = taken'
    BY <2>1 DEF Unread
  <2>3. n \in Nat /\ taken - HeaderLength \in Nat /\ (taken - HeaderLength) + HeaderLength = taken
    BY <1>1, <1>2
  <2> QED
    BY <1>2, <2>1, <2>2, <2>3
<1>4. body_length_' = body_length_
  <2>1. ~(n > MaxBody + Pad)
    BY <1>1, <1>3 DEF Padded
  <2>2. body_length_' \in IF Asked > MaxBody + Pad THEN 0..MaxBody ELSE {body_length_}
    BY DEF ReadBody
  <2> QED
    BY <1>3, <2>1, <2>2
<1>5. data_' = [k \in 1..Size |-> IF k \in HeaderLength + 1..HeaderLength + n
                                  THEN input[taken + k - HeaderLength] ELSE data_[k]]
  BY <1>3 DEF ReadBody, Filled
<1>6. \A k \in 1..Size : k \in HeaderLength + 1..HeaderLength + n =>
                         taken + k - HeaderLength \in 1..Len(input)
  BY <1>1, <1>3
<1>7. data_' \in [1..Size -> Bytes \cup {"?"}]
  <2>1. data_ \in [1..Size -> Bytes \cup {"?"}]
    BY <1>0 DEF FramingTypeOK
  <2> HIDE DEF n
  <2> QED
    BY <1>1, <1>5, <1>6, <2>1
<1>8. \A j \in 1..n : data_'[j] = input[Unread + j] /\ Unread + j \in 1..Len(input)
  <2> TAKE j \in 1..n
  <2>1. j \in 1..Size /\ Unread + j \in 1..Len(input)
    BY <1>1, <1>3
  <2>2. CASE j \in 1..HeaderLength
    <3>1. j \notin HeaderLength + 1..HeaderLength + n
      BY <1>1, <2>2
    <3> QED
      BY <1>2, <1>5, <2>1, <2>2, <3>1
  <2>3. CASE j \notin 1..HeaderLength
    <3>1. j \in HeaderLength + 1..HeaderLength + n /\ taken + j - HeaderLength = Unread + j
      BY <1>1, <1>3, <2>3
    <3> QED
      BY <1>5, <2>1, <3>1
  <2> QED
    BY <2>2, <2>3
<1>9. m \in Seq(Bytes) /\ Len(m) = n /\ \A j \in 1..n : m[j] = input[Unread + j]
  <2>1. 0 \in Nat /\ \A j \in 1..n : 0 + j = j
    OBVIOUS
  <2>2. Inside(Bytes, data_', 0, n)
    BY <1>1, <1>8, <2>1 DEF Inside
  <2>3. m = Cut(data_', 0, n)
    <3>1. n \in Nat
      BY <1>3
    <3>2. Cut(data_', 0, n) = SubSeq(data_', 1, n)
      BY ONLY <3>1, FrontCut
    <3> QED
      BY <3>2
  <2>4. m \in Seq(Bytes) /\ Len(m) = n /\ Agree(m, 0, data_', 0, n)
    BY ONLY <1>3, <2>1, <2>2, <2>3, CutOf
  <2> QED
    BY <1>8, <2>1, <2>4 DEF Agree
<1>10. SubSeq(m, 1, HeaderLength) = SubSeq(data_, 1, HeaderLength)
  <2>1. 0 \in Nat /\ \A j \in 1..HeaderLength : 0 + j = j /\ j \in 1..n /\ Unread + j \in 1..Len(input)
    BY <1>1, <1>3
  <2>2. Inside(Bytes, m, 0, HeaderLength)
    BY <1>1, <1>9, <2>1 DEF Inside
  <2>3. Agree(m, 0, data_, 0, HeaderLength)
    BY <1>2, <1>9, <2>1 DEF Agree
  <2>4. Cut(m, 0, HeaderLength) = Cut(data_, 0, HeaderLength)
    BY <1>1, <2>1, <2>2, <2>3, SameCut
  <2> QED
    BY <1>1, <2>4, FrontCut
<1>11. taken' \in 0..Len(input) /\ taken <= taken' /\ Unread + n <= taken'
  BY <1>1, <1>3
<1> QED
  BY <1>2, <1>3, <1>4, <1>7, <1>9, <1>10, <1>11

LEMMA ReadBodyInv == ASSUME FramingInv, ReadBody, Padded PROVE FramingInv'
<1> DEFINE c == Len(delivered)
<1> DEFINE m == SubSeq(data_', 1, HeaderLength + body_length_)
<1>0. FramingTypeOK /\ MessagesInv /\ StreamInv /\ PrintedInv
  BY DEF FramingInv
<1>1. /\ body_length_' = body_length_
      /\ data_' \in [1..Size -> Bytes \cup {"?"}]
      /\ m \in Seq(Bytes)
      /\ \A j \in 1..Len(m) : m[j] = input[Unread + j]
      /\ Accepts(SubSeq(m, 1, HeaderLength))
      /\ Len(m) = HeaderLength + DecodeHeader(SubSeq(m, 1, HeaderLength))
      /\ Unread \in Nat /\ Unread = taken - HeaderLength
      /\ taken' \in 0..Len(input) /\ taken <= taken' /\ Unread + Len(m) <= taken'
      /\ session' = "header" /\ Unread' = taken'
  BY BodyAsSent
<1>2. /\ delivered' = Append(delivered, m) /\ relayed' = relayed \o m
      /\ from' = Append(from, Unread)
      /\ UNCHANGED <<input, client, clientLength, seen, printed>>
  BY <1>1 DEF ReadBody, reader
<1> HIDE DEF m
<1>3. /\ delivered \in Seq(Seq(Bytes)) /\ relayed \in Seq(Bytes) /\ from \in Seq(Nat)
      /\ c \in Nat /\ Len(from) = c /\ Len(relayed) \in Nat /\ Len(m) \in Nat
      /\ taken \in Nat /\ HeaderLength \in Nat /\ taken' \in Nat
  <2>1. Len(input) \in Nat /\ taken \in Nat /\ HeaderLength \in Nat /\ Len(relayed) \in Nat /\ c \in Nat
    BY <1>0, FramingTypes
  <2>2. Len(m) \in Nat
    BY <1>1
  <2>3. taken' \in Nat
    BY <1>1, <2>1
  <2> QED
    BY <1>0, <2>1, <2>2, <2>3 DEF FramingTypeOK
<1>4. /\ delivered' \in Seq(Seq(Bytes)) /\ Len(delivered') = c + 1 /\ delivered'[c + 1] = m
      /\ \A k \in 1..c : delivered'[k] = delivered[k]
  BY <1>1, <1>2, <1>3
<1>5. /\ from' \in Seq(Nat) /\ Len(from') = c + 1 /\ from'[c + 1] = Unread
      /\ \A k \in 1..c : from'[k] = from[k]
  <2>1. /\ Append(from, Unread) \in Seq(Nat) /\ Len(Append(from, Unread)) = Len(from) + 1
        /\ Append(from, Unread)[Len(from) + 1] = Unread
        /\ \A k \in 1..Len(from) : Append(from, Unread)[k] = from[k]
    BY <1>1, <1>3, AppendProperties
  <2> QED
    BY <1>2, <1>3, <2>1
<1>6. /\ relayed' \in Seq(Bytes) /\ Len(relayed') = Len(relayed) + Len(m)
      /\ \A i \in 1..Len(relayed) + Len(m) :
           relayed'[i] = IF i <= Len(relayed) THEN relayed[i] ELSE m[i - Len(relayed)]
  BY <1>1, <1>2, <1>3, ConcatProperties, ZenonT(60)
<1>7. FramingTypeOK'
  <2>1. seen \in 0..Len(relayed')
    BY <1>0, <1>3, <1>6 DEF FramingTypeOK
  <2> QED
    BY <1>0, <1>1, <1>2, <1>4, <1>5, <1>6, <2>1 DEF FramingTypeOK
<1>8. HeaderInv'
  BY <1>1 DEF HeaderInv
<1>9. MessagesInv'
  <2>1. \A k \in 1..c + 1 : MessageAt(delivered[k], from[k])'
    <3> TAKE k \in 1..c + 1
    <3>1. CASE k = c + 1
      BY <1>1, <1>2, <1>4, <1>5, <3>1 DEF MessageAt
    <3>2. CASE k \in 1..c
      <4>1. MessageAt(delivered[k], from[k]) /\ Len(delivered[k]) \in Nat /\ from[k] \in Nat
        BY <1>0, <3>2, FramingTypes DEF MessagesInv
      <4>2. delivered'[k] = delivered[k] /\ from'[k] = from[k]
        BY <1>4, <1>5, <3>2
      <4>3. from[k] + Len(delivered[k]) <= taken'
        <5>1. from[k] + Len(delivered[k]) <= taken
          BY <4>1 DEF MessageAt
        <5>2. /\ from[k] \in Nat /\ Len(delivered[k]) \in Nat /\ taken \in Nat /\ taken' \in Nat
              /\ taken <= taken'
          BY <1>1, <1>3, <4>1
        <5> QED
          BY ONLY <5>1, <5>2
      <4> QED
        BY <1>2, <4>1, <4>2, <4>3 DEF MessageAt
    <3> QED
      BY <1>3, <3>1, <3>2
  <2>2. \A k \in 1..(c + 1) - 1 : from'[k + 1] >= from'[k] + Len(delivered'[k])
    <3> TAKE k \in 1..(c + 1) - 1
    <3>1. k \in 1..c
      BY <1>3
    <3>2. CASE k = c
      <4>1. delivered # <<>>
        BY <1>3, <3>1
      <4>2. from[c] + Len(delivered[c]) <= Unread /\ from[c] \in Nat /\ Len(delivered[c]) \in Nat
        BY <1>0, <3>1, <3>2, <4>1, FramingTypes DEF MessagesInv
      <4> QED
        BY <1>1, <1>4, <1>5, <3>1, <3>2, <4>2
    <3>3. CASE k # c
      <4>1. k \in 1..c - 1 /\ k + 1 \in 1..c
        BY <1>3, <3>1, <3>3
      <4> QED
        BY <1>0, <1>4, <1>5, <3>1, <4>1 DEF MessagesInv
    <3> QED
      BY <3>2, <3>3
  <2>3. from'[c + 1] + Len(delivered'[c + 1]) <= Unread'
    BY <1>1, <1>4, <1>5
  <2> QED
    BY <1>4, <2>1, <2>2, <2>3 DEF MessagesInv
<1>10. StreamInv'
  <2>1. PICK off : Positions(off) /\ ClientAt(off)
    BY <1>0 DEF StreamInv
  <2>2. /\ off \in [1..c + 1 -> 0..Len(relayed)] /\ off[1] = 0 /\ off[c + 1] = Len(relayed)
        /\ \A k \in 1..c :
             /\ off[k + 1] = off[k] + Len(delivered[k])
             /\ \A j \in 1..Len(delivered[k]) : relayed[off[k] + j] = delivered[k][j]
    BY <2>1 DEF Positions
  <2>0. PICK new : new = [k \in 1..(c + 1) + 1 |-> IF k <= c + 1 THEN off[k] ELSE Len(relayed')]
    OBVIOUS
  <2>3. /\ new \in [1..(c + 1) + 1 -> 0..Len(relayed')]
        /\ new[(c + 1) + 1] = Len(relayed')
        /\ \A k \in 1..c + 1 : new[k] = off[k]
    <3>1. 0..Len(relayed) \subseteq 0..Len(relayed') /\ Len(relayed') \in 0..Len(relayed')
      BY <1>3, <1>6
    <3>2. \A k \in 1..(c + 1) + 1 : (k <= c + 1 => k \in 1..c + 1)
                                    /\ (~(k <= c + 1) => k = (c + 1) + 1)
      BY <1>3
    <3>3. (c + 1) + 1 \in 1..(c + 1) + 1 /\ ~((c + 1) + 1 <= c + 1)
          /\ 1..c + 1 \subseteq 1..(c + 1) + 1 /\ \A k \in 1..c + 1 : k <= c + 1
      BY <1>3
    <3> QED
      BY <2>0, <2>2, <3>1, <3>2, <3>3
  <2>4. new[1] = 0
    BY <1>3, <2>2, <2>3
  <2>5. \A k \in 1..c + 1 :
          /\ new[k + 1] = new[k] + Len(delivered'[k])
          /\ \A j \in 1..Len(delivered'[k]) : relayed'[new[k] + j] = delivered'[k][j]
    <3> TAKE k \in 1..c + 1
    <3>1. CASE k = c + 1
      <4>1. new[k] = Len(relayed) /\ new[k + 1] = Len(relayed) + Len(m) /\ delivered'[k] = m
        BY <1>3, <1>4, <1>6, <2>2, <2>3, <3>1
      <4>2. \A j \in 1..Len(m) : relayed'[Len(relayed) + j] = m[j]
        <5> TAKE j \in 1..Len(m)
        <5>1. /\ Len(relayed) + j \in 1..Len(relayed) + Len(m) /\ ~(Len(relayed) + j <= Len(relayed))
              /\ (Len(relayed) + j) - Len(relayed) = j
          BY <1>3
        <5> QED
          BY <1>6, <5>1
      <4> QED
        BY <4>1, <4>2
    <3>2. CASE k \in 1..c
      <4>1. k + 1 \in 1..c + 1 /\ delivered'[k] = delivered[k] /\ Len(delivered[k]) \in Nat
        BY <1>0, <1>3, <1>4, <3>2, FramingTypes
      <4>2. new[k] = off[k] /\ new[k + 1] = off[k + 1]
        BY <2>3, <3>2, <4>1
      <4>3. \A j \in 1..Len(delivered[k]) : relayed'[off[k] + j] = delivered[k][j]
        <5> TAKE j \in 1..Len(delivered[k])
        <5>1. off[k] \in 0..Len(relayed) /\ off[k + 1] \in 0..Len(relayed)
              /\ off[k + 1] = off[k] + Len(delivered[k])
          BY <2>2, <3>2, <4>1
        <5>2. off[k] + j \in 1..Len(relayed) + Len(m) /\ off[k] + j <= Len(relayed)
          <6>1. j \in Nat /\ 1 <= j /\ j <= Len(delivered[k])
            BY <4>1
          <6>2. /\ off[k] \in Nat /\ Len(relayed) \in Nat /\ Len(m) \in Nat /\ Len(delivered[k]) \in Nat
                /\ off[k] + Len(delivered[k]) <= Len(relayed)
            BY <1>3, <4>1, <5>1
          <6> QED
            BY ONLY <6>1, <6>2
        <5> QED
          BY <1>6, <2>2, <3>2, <5>2
      <4> QED
        BY <2>2, <3>2, <4>1, <4>2, <4>3
    <3> QED
      BY <1>3, <3>1, <3>2
  <2>6. Positions(new)'
    BY <1>4, <2>3, <2>4, <2>5 DEF Positions
  <2>7. ClientAt(new)'
    <3>1. Len(printed) \in Nat
      BY <1>0, FramingTypes
    <3>2. Len(printed) <= c => Len(printed) + 1 \in 1..c + 1 /\ new[Len(printed) + 1] = off[Len(printed) + 1]
      BY <1>3, <2>3, <3>1
    <3>3. Len(printed) < c =>
            Len(printed) + 1 \in 1..c /\ delivered'[Len(printed) + 1] = delivered[Len(printed) + 1]
      <4>1. Len(printed) < c => Len(printed) + 1 \in 1..c
        BY <1>3, <3>1
      <4> QED
        BY <1>4, <4>1
    <3>4. (Len(printed) <= c => Len(printed) <= c + 1) /\ (Len(printed) < c => Len(printed) <= c /\ Len(printed) < c + 1)
      BY <1>3, <3>1
    <3> QED
      BY <1>2, <1>4, <2>1, <3>2, <3>3, <3>4 DEF ClientAt
  <2> QED
    BY <2>6, <2>7 DEF StreamInv
<1>11. PrintedInv'
  <2>1. Len(printed) <= c /\ Len(printed) \in Nat
    BY <1>0, <1>3, FramingTypes DEF StreamInv, ClientAt, FramingTypeOK
  <2>2. \A k \in 1..Len(printed) : delivered'[k] = delivered[k]
    BY <1>3, <1>4, <2>1
  <2> QED
    BY <1>0, <1>2, <2>2 DEF PrintedInv
<1> QED
  BY <1>7, <1>8, <1>9, <1>10, <1>11 DEF FramingInv

-----------------------------------------------------------------------------
\* The client's reads find the next message where it expects it.
LEMMA ClientKeepsServer ==
  ASSUME FramingInv, UNCHANGED server
  PROVE  /\ HeaderInv' /\ MessagesInv'
         /\ UNCHANGED <<input, taken, session, data_, body_length_, delivered, relayed, from>>
BY DEF server, FramingInv, HeaderInv, MessagesInv, MessageAt, Unread

\* A stretch of the relayed bytes that lies in one message.
LEMMA FollowingIsMessage ==
  ASSUME FramingTypeOK, NEW off, Positions(off), NEW k \in 1..Len(delivered),
         NEW d \in Nat, NEW n \in Nat, d + n <= Len(delivered[k]), seen = off[k] + d
  PROVE  /\ Following(n) = SubSeq(delivered[k], d + 1, d + n)
         /\ seen + n <= off[k + 1] /\ off[k + 1] \in 0..Len(relayed)
         /\ off[k + 1] = off[k] + Len(delivered[k])
<1>1. /\ off[k] \in Nat /\ Len(relayed) \in Nat /\ delivered[k] \in Seq(Bytes)
      /\ Len(delivered[k]) \in Nat /\ Len(delivered) \in Nat
      /\ off[k + 1] \in 0..Len(relayed)
      /\ off[k + 1] = off[k] + Len(delivered[k])
      /\ \A j \in 1..Len(delivered[k]) : relayed[off[k] + j] = delivered[k][j]
  <2>1. Len(delivered) \in Nat /\ Len(relayed) \in Nat
    BY FramingTypes
  <2>2. k \in 1..Len(delivered) + 1 /\ k + 1 \in 1..Len(delivered) + 1
    BY <2>1
  <2>3. off[k] \in 0..Len(relayed) /\ off[k + 1] \in 0..Len(relayed)
    BY <2>2 DEF Positions
  <2> QED
    BY <2>1, <2>3, FramingTypes DEF Positions
<1>2. \A j \in 1..n : delivered[k][d + j] = relayed[seen + j]
  <2> TAKE j \in 1..n
  <2>1. d + j \in 1..Len(delivered[k]) /\ off[k] + (d + j) = seen + j
    BY <1>1, SMTT(30)
  <2> QED
    BY <1>1, <2>1
<1>3. SubSeq(delivered[k], d + 1, d + n) = SubSeq(relayed, seen + 1, seen + n)
  <2>1. seen \in Nat
    BY <1>1
  <2>2. Agree(delivered[k], d, relayed, seen, n)
    BY <1>2 DEF Agree
  <2>3. \A j \in 1..n : d + j \in 1..Len(delivered[k])
    BY <1>1
  <2>4. Inside(Bytes, delivered[k], d, n)
    BY <1>1, <2>3, SMTT(30) DEF Inside
  <2>5. Cut(delivered[k], d, n) = Cut(relayed, seen, n)
    BY <2>1, <2>2, <2>4, SameCut
  <2> QED
    BY <2>5 DEF Cut
<1>4. seen + n <= off[k + 1]
  BY ONLY <1>1, d \in Nat, n \in Nat, d + n <= Len(delivered[k]), seen = off[k] + d, SMTT(30)
<1> QED
  BY <1>1, <1>3, <1>4 DEF Following

\* do_read_header of the client: the header is one that the session has accepted.
LEMMA ClientHeaderInv == ASSUME FramingInv, ClientHeader PROVE FramingInv'
<1> DEFINE p == Len(printed)
<1>0. FramingTypeOK /\ MessagesInv /\ StreamInv /\ PrintedInv
  BY DEF FramingInv
<1>1. /\ HeaderInv' /\ MessagesInv'
      /\ UNCHANGED <<input, taken, session, data_, body_length_, delivered, relayed, from, printed>>
  BY ClientKeepsServer DEF ClientHeader
<1>2. PICK off : Positions(off) /\ ClientAt(off)
  BY <1>0 DEF StreamInv
<1>3. /\ p \in Nat /\ Len(delivered) \in Nat /\ Len(relayed) \in Nat
      /\ HeaderLength \in Nat /\ HeaderLength > 0 /\ seen \in Nat
  BY <1>0, FramingTypes
<1>4. /\ client = "header" /\ seen + HeaderLength <= Len(relayed)
      /\ p <= Len(delivered) /\ seen = off[p + 1]
  BY <1>2 DEF ClientHeader, ClientAt
<1>5. p < Len(delivered) /\ p + 1 \in 1..Len(delivered)
  <2>1. off[Len(delivered) + 1] = Len(relayed)
    BY <1>2 DEF Positions
  <2>2. p # Len(delivered)
    BY <1>3, <1>4, <2>1
  <2> QED
    BY <1>3, <1>4, <2>2
<1> DEFINE m == delivered[p + 1]
<1>6. /\ Accepts(SubSeq(m, 1, HeaderLength))
      /\ Len(m) = HeaderLength + DecodeHeader(SubSeq(m, 1, HeaderLength))
  BY <1>0, <1>5 DEF MessagesInv, MessageAt
<1>7. DecodeHeader(SubSeq(m, 1, HeaderLength)) \in Nat
  <2>1. MaxBody \in Nat
    BY FramingAssumption
  <2> QED
    BY <2>1, DecodedFits
<1>8. Following(HeaderLength) = SubSeq(m, 1, HeaderLength)
  <2>1. 0 \in Nat /\ 0 + HeaderLength = HeaderLength /\ 0 + 1 = 1 /\ seen = off[p + 1] + 0
    BY <1>3, <1>4
  <2>2. 0 + HeaderLength <= Len(m)
    BY <1>3, <1>6, <1>7
  <2>3. Following(HeaderLength) = SubSeq(m, 0 + 1, 0 + HeaderLength)
    BY <1>0, <1>2, <1>3, <1>5, <2>1, <2>2, FollowingIsMessage
  <2> QED
    BY <2>1, <2>3
<1>9. /\ seen' = seen + HeaderLength /\ client' = "body"
      /\ clientLength' = Len(m) - HeaderLength /\ clientLength' \in 0..MaxBody
  <2>1. clientLength' = DecodeHeader(SubSeq(m, 1, HeaderLength)) /\ client' = "body"
        /\ seen' = seen + HeaderLength
    BY <1>6, <1>8 DEF ClientHeader
  <2>2. (HeaderLength + DecodeHeader(SubSeq(m, 1, HeaderLength))) - HeaderLength
          = DecodeHeader(SubSeq(m, 1, HeaderLength))
    BY <1>3, <1>7
  <2> QED
    BY <1>6, <2>1, <2>2, DecodedFits
<1>10. FramingTypeOK'
  <2>1. seen' \in 0..Len(relayed)
    BY <1>3, <1>4, <1>9
  <2> QED
    BY <1>0, <1>1, <1>9, <2>1 DEF FramingTypeOK
<1>11. StreamInv'
  <2>1. Positions(off)'
    BY <1>1, <1>2 DEF Positions
  <2>2. ClientAt(off)'
    BY <1>1, <1>4, <1>5, <1>9 DEF ClientAt
  <2> QED
    BY <2>1, <2>2 DEF StreamInv
<1>12. PrintedInv'
  BY <1>0, <1>1 DEF PrintedInv
<1> QED
  BY <1>1, <1>10, <1>11, <1>12 DEF FramingInv

\* do_read_body of the client: it ends where the message does.
LEMMA ClientBodyInv == ASSUME FramingInv, ClientBody PROVE FramingInv'
<1> DEFINE p == Len(printed)
<1> DEFINE m == delivered[p + 1]
<1>0. FramingTypeOK /\ MessagesInv /\ StreamInv /\ PrintedInv
  BY DEF FramingInv
<1>1. /\ HeaderInv' /\ MessagesInv'
      /\ UNCHANGED <<input, taken, session, data_, body_length_, delivered, relayed, from, clientLength>>
  BY ClientKeepsServer DEF ClientBody
<1>2. PICK off : Positions(off) /\ ClientAt(off)
  BY <1>0 DEF StreamInv
<1>3. /\ p \in Nat /\ Len(delivered) \in Nat /\ Len(relayed) \in Nat
      /\ HeaderLength \in Nat /\ seen \in Nat /\ clientLength \in Nat
  BY <1>0, FramingTypes
<1>4. /\ p < Len(delivered) /\ seen = off[p + 1] + HeaderLength
      /\ clientLength = Len(m) - HeaderLength
  BY <1>2 DEF ClientBody, ClientAt
<1>5. p + 1 \in 1..Len(delivered) /\ p + 1 <= Len(delivered)
  BY <1>3, <1>4
<1>6. m \in Seq(Bytes) /\ Len(m) \in Nat
  BY <1>0, <1>5, FramingTypes
<1>7. HeaderLength + clientLength = Len(m)
  BY <1>3, <1>4, <1>6
<1>8. /\ Following(clientLength) = SubSeq(m, HeaderLength + 1, Len(m))
      /\ seen + clientLength = off[(p + 1) + 1] /\ off[(p + 1) + 1] \in 0..Len(relayed)
  <2>1. HeaderLength + clientLength <= Len(m)
    BY <1>6, <1>7
  <2>2. /\ Following(clientLength) = SubSeq(m, HeaderLength + 1, HeaderLength + clientLength)
        /\ off[(p + 1) + 1] \in 0..Len(relayed)
        /\ off[(p + 1) + 1] = off[p + 1] + Len(m)
    BY <1>0, <1>2, <1>3, <1>4, <1>5, <2>1, FollowingIsMessage, SMTT(30)
  <2>3. off[p + 1] \in Nat
    <3>1. p + 1 \in 1..Len(delivered) + 1
      BY <1>3, <1>5
    <3> QED
      BY <1>2, <1>3, <3>1 DEF Positions
  <2>4. seen + clientLength = off[p + 1] + Len(m)
    BY <1>3, <1>4, <1>7, <2>3
  <2> QED
    BY <1>7, <2>2, <2>4
<1>9. /\ seen' = seen + clientLength /\ client' = "header"
      /\ printed' = Append(printed, SubSeq(m, HeaderLength + 1, Len(m)))
  BY <1>8 DEF ClientBody, ClientAsked
<1>10. SubSeq(m, HeaderLength + 1, Len(m)) \in Seq(Bytes)
  BY <1>3, <1>6
<1>11. /\ printed' \in Seq(Seq(Bytes)) /\ Len(printed') = p + 1
       /\ printed'[p + 1] = SubSeq(m, HeaderLength + 1, Len(m))
       /\ \A k \in 1..p : printed'[k] = printed[k]
  <2>1. printed \in Seq(Seq(Bytes))
    BY <1>0 DEF FramingTypeOK
  <2> QED
    BY ONLY <1>9, <1>10, <2>1, AppendProperties, SMTT(30)
<1>12. FramingTypeOK'
  BY <1>0, <1>1, <1>8, <1>9, <1>11 DEF FramingTypeOK
<1>13. StreamInv'
  <2>1. Positions(off)'
    BY <1>1, <1>2 DEF Positions
  <2>2. ClientAt(off)'
    BY <1>1, <1>5, <1>8, <1>9, <1>11 DEF ClientAt
  <2> QED
    BY <2>1, <2>2 DEF StreamInv
<1>14. PrintedInv'
  <2> SUFFICES ASSUME NEW k \in 1..p + 1
               PROVE  printed'[k] = SubSeq(delivered[k], HeaderLength + 1, Len(delivered[k]))
    BY <1>1, <1>11 DEF PrintedInv
  <2>1. CASE k = p + 1
    BY <1>11, <2>1
  <2>2. CASE k # p + 1
    <3>1. k \in 1..p
      BY <1>3, <2>2
    <3> QED
      BY <1>0, <1>11, <3>1 DEF PrintedInv
  <2> QED
    BY <2>1, <2>2
<1> QED
  BY <1>1, <1>12, <1>13, <1>14 DEF FramingInv

-----------------------------------------------------------------------------
LEMMA FramingNextInv == Padded /\ FramingInv /\ [FramingNext]_framingVars => FramingInv'
<1> SUFFICES ASSUME Padded, FramingInv, [FramingNext]_framingVars PROVE FramingInv'
  OBVIOUS
<1>1. CASE UNCHANGED framingVars
  <2>1. UNCHANGED <<server, client, clientLength, seen, printed>>
    BY <1>1 DEF framingVars, reader
  <2>2. UNCHANGED <<input, taken, session, data_, body_length_, delivered, relayed, from>>
        /\ HeaderInv' /\ MessagesInv'
    BY <2>1, ClientKeepsServer
  <2>3. FramingTypeOK'
    BY <2>1, <2>2 DEF FramingInv, FramingTypeOK
  <2>4. StreamInv' /\ PrintedInv'
    BY <2>1, <2>2, StreamKept
  <2> QED
    BY <2>2, <2>3, <2>4 DEF FramingInv
<1> QED
  BY <1>1, ReadHeaderInv, ReadBodyInv, ReadFailsInv, ClientHeaderInv, ClientBodyInv DEF FramingNext

LEMMA FramingSpecInv == ASSUME Padded PROVE FramingSpec => []FramingInv
<1>1. FramingInv /\ [FramingNext]_framingVars => FramingInv'
  BY FramingNextInv
<1> QED
  BY <1>1, FramingInitInv, PTL DEF FramingSpec

\* What the session reads keeps its types, and what it relays are bytes it has read, never
\* one of an object that is not initialized (chat_message.hpp 52-53).
THEOREM FramingTypeCorrect == ASSUME Padded PROVE FramingSpec => []FramingTypeOK
<1>1. FramingInv => FramingTypeOK
  BY DEF FramingInv
<1> QED
  BY <1>1, FramingSpecInv, PTL

\* For any input, any lengths and any header: every relayed message is a run of the sender's
\* bytes with the header that announced it, and no two overlap (chat_message.hpp 36-45,
\* chat_server.cpp 62-86).
THEOREM RelayedAsSent == ASSUME Padded PROVE FramingSpec => []DeliveredAsSent
<1>1. ASSUME FramingInv PROVE DeliveredAsSent
  <2>0. FramingTypeOK /\ MessagesInv
    BY <1>1 DEF FramingInv
  <2> SUFFICES ASSUME NEW k \in 1..Len(delivered)
               PROVE  /\ delivered[k] = SubSeq(input, from[k] + 1, from[k] + Len(delivered[k]))
                      /\ Accepts(SubSeq(delivered[k], 1, HeaderLength))
                      /\ Len(delivered[k]) = HeaderLength
                                             + DecodeHeader(SubSeq(delivered[k], 1, HeaderLength))
                      /\ k > 1 => from[k] >= from[k - 1] + Len(delivered[k - 1])
    BY DEF DeliveredAsSent
  <2> DEFINE m == delivered[k]
  <2>1. MessageAt(m, from[k])
    BY <2>0 DEF MessagesInv
  <2>2. /\ m \in Seq(Bytes) /\ Len(m) \in Nat /\ from[k] \in Nat /\ taken \in Nat
        /\ taken <= Len(input) /\ Len(input) \in Nat /\ Len(delivered) \in Nat
        /\ \A j \in 1..Len(input) : input[j] \in Bytes
    BY <2>0, FramingTypes
  <2>3. m = SubSeq(input, from[k] + 1, from[k] + Len(m))
    <3>1. \A j \in 1..Len(m) : m[j] = input[from[k] + j]
      BY <2>1 DEF MessageAt
    <3>2. Agree(m, 0, input, from[k], Len(m)) /\ 0 \in Nat
      BY <3>1 DEF Agree
    <3>3. Inside(Bytes, m, 0, Len(m)) /\ m = Cut(m, 0, Len(m))
      BY <2>2, WholeCut
    <3>4. Cut(m, 0, Len(m)) = Cut(input, from[k], Len(m))
      BY <2>2, <3>2, <3>3, SameCut
    <3> QED
      BY <3>3, <3>4 DEF Cut
  <2>4. k > 1 => from[k] >= from[k - 1] + Len(delivered[k - 1])
    <3> SUFFICES ASSUME k > 1 PROVE from[k] >= from[k - 1] + Len(delivered[k - 1])
      OBVIOUS
    <3>1. k - 1 \in 1..Len(delivered) - 1 /\ (k - 1) + 1 = k
      BY <2>2
    <3> QED
      BY <2>0, <3>1 DEF MessagesInv
  <2> QED
    BY <2>1, <2>3, <2>4 DEF MessageAt
<1> QED
  BY <1>1, FramingSpecInv, PTL

\* For any input: the client that reads what is relayed refuses no header and prints the
\* bodies of the messages, one for one and in order (chat_client.cpp 43-73).
THEOREM ReaderKeepsStep == ASSUME Padded PROVE FramingSpec => []ClientInStep
<1>1. ASSUME FramingInv PROVE ClientInStep
  <2>1. FramingTypeOK /\ StreamInv /\ PrintedInv
    BY <1>1 DEF FramingInv
  <2>2. client # "closed" /\ Len(printed) <= Len(delivered)
    BY <2>1, FramingTypes DEF StreamInv, ClientAt, FramingTypeOK
  <2> QED
    BY <2>1, <2>2 DEF PrintedInv, ClientInStep
<1> QED
  BY <1>1, FramingSpecInv, PTL
=============================================================================
