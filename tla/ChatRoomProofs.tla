--------------------------- MODULE ChatRoomProofs ---------------------------
(***************************************************************************)
(* Proofs about ChatRoom for any sessions, any max_recent_msgs and any     *)
(* number of messages: the safety invariants, and that the room implements *)
(* the common log of ChatLog.                                              *)
(***************************************************************************)
EXTENDS ChatRoom, TLAPS

\* What has not been accepted has no state, and what has been accepted was promised a
\* message number.
NewInv ==
  \A s \in Session :
    /\ readOp[s] = "new" => /\ s \notin participants_ /\ writes[s] = 0
                            /\ write_msgs_[s] = <<>> /\ sent[s] = <<>>
    /\ readOp[s] # "new" => first[s] > 0
    /\ first[s] + Len(sent[s]) + Len(write_msgs_[s]) <= delivered + 1

Inv ==
  /\ TypeOK
  /\ NewInv
  /\ OneWriteAtATime
  /\ InOrderNoGaps
  /\ RecentIsTail
  /\ ParticipantReads

-----------------------------------------------------------------------------
\* Facts about sequences of consecutive message numbers.
LEMMA EmptyLen == ASSUME NEW q \in Seq(Nat) PROVE Len(q) \in Nat /\ (q = <<>> <=> Len(q) = 0)
OBVIOUS

LEMMA AppendRun ==
  ASSUME NEW q \in Seq(Nat), NEW f \in Nat, NEW m \in Nat, Run(f, q), m = f + Len(q)
  PROVE  /\ Append(q, m) \in Seq(Nat) /\ Append(q, m) # <<>>
         /\ Len(Append(q, m)) = Len(q) + 1
         /\ Run(f, Append(q, m))
<1>1. Append(q, m) \in Seq(Nat) /\ Len(Append(q, m)) = Len(q) + 1 /\ Len(q) \in Nat
  OBVIOUS
<1>2. ASSUME NEW i \in 1..(Len(q) + 1) PROVE Append(q, m)[i] = f + i - 1
  <2>1. CASE i = Len(q) + 1
    BY <2>1, <1>1
  <2>2. CASE i # Len(q) + 1
    <3>1. i \in 1..Len(q)
      BY <2>2, <1>1
    <3>2. Append(q, m)[i] = q[i]
      BY <3>1
    <3> QED BY <3>1, <3>2 DEF Run
  <2> QED BY <2>1, <2>2
<1> QED BY <1>1, <1>2 DEF Run

LEMMA TailRun ==
  ASSUME NEW q \in Seq(Nat), NEW f \in Nat, Run(f, q), q # <<>>
  PROVE  /\ Tail(q) \in Seq(Nat)
         /\ Len(q) > 0
         /\ Len(Tail(q)) = Len(q) - 1
         /\ Head(q) = f
         /\ Run(f + 1, Tail(q))
<1>1. Tail(q) \in Seq(Nat) /\ Len(Tail(q)) = Len(q) - 1 /\ Len(q) \in Nat /\ Len(q) > 0
  OBVIOUS
<1>2. Head(q) = f
  BY <1>1 DEF Run
<1>3. ASSUME NEW i \in 1..(Len(q) - 1) PROVE Tail(q)[i] = f + 1 + i - 1
  <2>1. Tail(q)[i] = q[i + 1] /\ i + 1 \in 1..Len(q)
    BY <1>1
  <2> QED BY <2>1, <1>1 DEF Run
<1> QED BY <1>1, <1>2, <1>3 DEF Run

LEMMA TrimRun ==
  ASSUME NEW q \in Seq(Nat), NEW f \in Nat, Run(f, q)
  PROVE  /\ Trim(q) \in Seq(Nat)
         /\ Len(Trim(q)) = IF Len(q) > MaxRecent THEN MaxRecent ELSE Len(q)
         /\ Run(f + Len(q) - Len(Trim(q)), Trim(q))
<1>1. CASE Len(q) > MaxRecent
  <2>1. /\ Len(q) \in Nat /\ Trim(q) \in Seq(Nat) /\ Len(Trim(q)) = MaxRecent
        /\ \A i \in 1..MaxRecent : Trim(q)[i] = q[Len(q) - MaxRecent + i]
    BY <1>1, MaxRecentAssumption DEF Trim
  <2>2. ASSUME NEW i \in 1..MaxRecent PROVE Trim(q)[i] = f + Len(q) - MaxRecent + i - 1
    <3>1. Len(q) - MaxRecent + i \in 1..Len(q)
      BY <1>1, <2>1, MaxRecentAssumption
    <3>2. q[Len(q) - MaxRecent + i] = f + (Len(q) - MaxRecent + i) - 1
      BY <3>1 DEF Run
    <3>3. f + (Len(q) - MaxRecent + i) - 1 = f + Len(q) - MaxRecent + i - 1
      BY <2>1, MaxRecentAssumption
    <3> QED
      BY <2>1, <3>2, <3>3
  <2> QED
    BY <1>1, <2>1, <2>2 DEF Run
<1>2. CASE ~(Len(q) > MaxRecent)
  BY <1>2, MaxRecentAssumption DEF Trim, Run
<1> QED
  BY <1>1, <1>2

LEMMA InitInv == Init => Inv
BY MaxRecentAssumption DEF Init, Inv, TypeOK, NewInv, OneWriteAtATime, InOrderNoGaps, RecentIsTail,
   ParticipantReads, Run

LEMMA AcceptInv == ASSUME Inv, NEW s \in Session, Accept(s) PROVE Inv'
<1> USE DEF Inv
<1>1. /\ delivered + 1 - Len(recent_msgs_) \in Nat /\ delivered + 1 - Len(recent_msgs_) > 0
      /\ Len(recent_msgs_) \in Nat /\ delivered \in Nat
  BY MaxRecentAssumption DEF TypeOK, RecentIsTail
<1>2. TypeOK'
  BY <1>1 DEF TypeOK, Accept, Join
<1>3. RecentIsTail' /\ ParticipantReads'
  BY DEF TypeOK, RecentIsTail, ParticipantReads, Accept, Join
<1>4. NewInv'
  BY <1>1 DEF TypeOK, NewInv, Accept, Join
<1>5. OneWriteAtATime'
  BY DEF TypeOK, OneWriteAtATime, Accept, Join
<1>6. InOrderNoGaps'
  <2>1. /\ sent'[s] = <<>> /\ write_msgs_'[s] = recent_msgs_ /\ delivered' = delivered
        /\ first'[s] = delivered + 1 - Len(recent_msgs_)
    BY DEF TypeOK, NewInv, Accept, Join
  <2>2. Run(first'[s], sent'[s]) /\ Len(sent'[s]) = 0
    BY <2>1 DEF Run
  <2>3. Run(first'[s] + Len(sent'[s]), write_msgs_'[s])
    <3>1. first'[s] + Len(sent'[s]) = delivered + 1 - Len(recent_msgs_)
      BY <1>1, <2>1, <2>2
    <3> QED
      BY <2>1, <3>1 DEF RecentIsTail
  <2>4. \A t \in Session \ {s} :
          /\ sent'[t] = sent[t] /\ write_msgs_'[t] = write_msgs_[t] /\ first'[t] = first[t]
          /\ t \in participants_' => t \in participants_
    BY DEF TypeOK, Accept, Join
  <2> QED
    BY <1>1, <2>1, <2>2, <2>3, <2>4 DEF InOrderNoGaps
<1> QED
  BY <1>2, <1>3, <1>4, <1>5, <1>6

LEMMA ReadBodyInv == ASSUME Inv, NEW s \in Session, ReadBody(s) PROVE Inv'
<1> USE DEF Inv
<1>1. /\ delivered \in Nat /\ delivered' = delivered + 1 /\ delivered' \in Nat
      /\ recent_msgs_' = Trim(Append(recent_msgs_, delivered + 1))
      /\ UNCHANGED <<participants_, first, sent>>
      /\ readOp' = [readOp EXCEPT ![s] = "header"] /\ readOp[s] = "body"
  BY DEF TypeOK, ReadBody
<1>2. ASSUME NEW t \in Session
      PROVE  /\ write_msgs_[t] \in Seq(Nat) /\ sent[t] \in Seq(Nat) /\ Len(write_msgs_[t]) \in Nat
             /\ Len(sent[t]) \in Nat /\ first[t] \in Nat /\ writes[t] \in Nat
             /\ Run(first[t], sent[t]) /\ Run(first[t] + Len(sent[t]), write_msgs_[t])
  BY <1>2 DEF TypeOK, InOrderNoGaps
<1>3. ASSUME NEW t \in Session, t \notin participants_
      PROVE  write_msgs_'[t] = write_msgs_[t] /\ writes'[t] = writes[t]
  BY <1>3 DEF ReadBody, Deliver
<1>4. ASSUME NEW t \in Session, t \in participants_
      PROVE  /\ write_msgs_'[t] \in Seq(Nat) /\ write_msgs_'[t] # <<>>
             /\ Run(first[t] + Len(sent[t]), write_msgs_'[t])
             /\ Len(write_msgs_'[t]) = Len(write_msgs_[t]) + 1
             /\ first[t] + Len(sent[t]) + Len(write_msgs_[t]) = delivered + 1
             /\ writes'[t] = IF write_msgs_[t] = <<>> THEN writes[t] + 1 ELSE writes[t]
  <2>1. /\ write_msgs_'[t] = Append(write_msgs_[t], delivered + 1)
        /\ writes'[t] = IF write_msgs_[t] = <<>> THEN writes[t] + 1 ELSE writes[t]
    BY <1>1, <1>4 DEF ReadBody, Deliver
  <2>2. first[t] + Len(sent[t]) + Len(write_msgs_[t]) = delivered + 1
    BY <1>4 DEF InOrderNoGaps
  <2> DEFINE g == first[t] + Len(sent[t])
             q == write_msgs_[t]
  <2>3. g \in Nat /\ q \in Seq(Nat) /\ Run(g, q) /\ delivered + 1 \in Nat /\ delivered + 1 = g + Len(q)
    BY <1>1, <1>2, <2>2
  <2>4. /\ Append(q, delivered + 1) \in Seq(Nat) /\ Append(q, delivered + 1) # <<>>
        /\ Len(Append(q, delivered + 1)) = Len(q) + 1
        /\ Run(g, Append(q, delivered + 1))
    <3> HIDE DEF g, q
    <3> QED
      BY ONLY <2>3, AppendRun
  <2> QED
    BY <2>1, <2>2, <2>4
<1>5. TypeOK' /\ RecentIsTail'
  <2> DEFINE q == Append(recent_msgs_, delivered + 1)
             f == delivered + 1 - Len(recent_msgs_)
  <2>1. /\ Len(recent_msgs_) = IF delivered < MaxRecent THEN delivered ELSE MaxRecent
        /\ recent_msgs_ \in Seq(Nat) /\ f \in Nat /\ Run(f, recent_msgs_)
        /\ delivered + 1 = f + Len(recent_msgs_)
    BY <1>1, MaxRecentAssumption DEF TypeOK, RecentIsTail
  <2> HIDE DEF f
  <2>2. q \in Seq(Nat) /\ Len(q) = Len(recent_msgs_) + 1 /\ Run(f, q)
    BY <1>1, <2>1, AppendRun
  <2> HIDE DEF q
  <2>3. /\ Trim(q) \in Seq(Nat)
        /\ Len(Trim(q)) = IF Len(q) > MaxRecent THEN MaxRecent ELSE Len(q)
        /\ Run(f + Len(q) - Len(Trim(q)), Trim(q))
    BY <2>1, <2>2, TrimRun
  <2>4. recent_msgs_' = Trim(q)
    BY <1>1 DEF q
  <2>5. f + Len(q) - Len(Trim(q)) = delivered' + 1 - Len(recent_msgs_')
    <3>1. Len(q) \in Nat /\ Len(Trim(q)) \in Nat /\ Len(recent_msgs_) \in Nat
      BY <2>1, <2>2, <2>3
    <3>2. f + Len(q) = delivered + 2
      <4>1. /\ delivered \in Nat /\ f \in Nat /\ Len(recent_msgs_) \in Nat
            /\ delivered + 1 = f + Len(recent_msgs_) /\ Len(q) = Len(recent_msgs_) + 1
        BY <1>1, <2>1, <2>2, <3>1
      <4> QED
        BY ONLY <4>1
    <3> QED
      BY ONLY <1>1, <2>1, <2>4, <3>1, <3>2
  <2>6. Len(Trim(q)) = IF delivered' < MaxRecent THEN delivered' ELSE MaxRecent
    BY <1>1, <2>1, <2>2, <2>3, MaxRecentAssumption
  <2>7. RecentIsTail'
    BY <2>3, <2>4, <2>5, <2>6 DEF RecentIsTail
  <2>8. write_msgs_' \in [Session -> Seq(Nat)] /\ writes' \in [Session -> Nat]
    <3>1. \A t \in Session : write_msgs_'[t] \in Seq(Nat) /\ writes'[t] \in Nat
      BY <1>2, <1>3, <1>4
    <3> QED
      BY <3>1 DEF ReadBody, Deliver
  <2> QED
    BY <1>1, <2>3, <2>4, <2>7, <2>8 DEF TypeOK
<1>6. NewInv'
  <2>1. \A t \in Session : readOp'[t] = "new" => readOp[t] = "new"
    BY <1>1 DEF TypeOK
  <2>2. \A t \in Session : readOp'[t] # "new" => readOp[t] # "new"
    BY <1>1 DEF TypeOK
  <2>3. \A t \in Session : first[t] + Len(sent[t]) + Len(write_msgs_'[t]) <= delivered + 2
    <3> TAKE t \in Session
    <3>1. CASE t \in participants_
      <4>1. /\ first[t] \in Nat /\ Len(sent[t]) \in Nat /\ Len(write_msgs_[t]) \in Nat
            /\ delivered \in Nat /\ Len(write_msgs_'[t]) = Len(write_msgs_[t]) + 1
            /\ first[t] + Len(sent[t]) + Len(write_msgs_[t]) = delivered + 1
        BY <1>1, <1>2, <1>4, <3>1
      <4> QED
        BY ONLY <4>1
    <3>2. CASE t \notin participants_
      <4>1. first[t] + Len(sent[t]) + Len(write_msgs_[t]) <= delivered + 1
        BY DEF NewInv
      <4> QED
        BY <1>1, <1>2, <1>3, <3>2, <4>1
    <3> QED
      BY <3>1, <3>2
  <2> QED
    BY <1>1, <1>3, <2>1, <2>2, <2>3 DEF NewInv
<1>7. OneWriteAtATime'
  BY <1>1, <1>2, <1>3, <1>4 DEF OneWriteAtATime
<1>8. InOrderNoGaps'
  <2>1. \A t \in Session : t \in participants_ =>
          first[t] + Len(sent[t]) + Len(write_msgs_'[t]) = delivered + 2
    <3> TAKE t \in Session
    <3> HAVE t \in participants_
    <3>1. /\ first[t] \in Nat /\ Len(sent[t]) \in Nat /\ Len(write_msgs_[t]) \in Nat
          /\ delivered \in Nat /\ Len(write_msgs_'[t]) = Len(write_msgs_[t]) + 1
          /\ first[t] + Len(sent[t]) + Len(write_msgs_[t]) = delivered + 1
      BY <1>1, <1>2, <1>4
    <3> QED
      BY ONLY <3>1
  <2>2. \A t \in Session : Run(first[t] + Len(sent[t]), write_msgs_'[t])
    BY <1>2, <1>3, <1>4
  <2> QED
    BY <1>1, <1>2, <2>1, <2>2 DEF InOrderNoGaps
<1>9. ParticipantReads'
  BY <1>1 DEF TypeOK, ParticipantReads
<1> QED
  BY <1>5, <1>6, <1>7, <1>8, <1>9

LEMMA WriteOkInv == ASSUME Inv, NEW s \in Session, WriteOk(s) PROVE Inv'
<1> USE DEF Inv
<1> DEFINE f == first[s] + Len(sent[s])
<1>1. /\ write_msgs_[s] \in Seq(Nat) /\ write_msgs_[s] # <<>> /\ writes[s] = 1
      /\ sent[s] \in Seq(Nat) /\ Len(sent[s]) \in Nat /\ first[s] \in Nat /\ delivered \in Nat
      /\ Len(write_msgs_[s]) \in Nat /\ f \in Nat
      /\ Run(first[s], sent[s]) /\ Run(f, write_msgs_[s])
  BY DEF TypeOK, OneWriteAtATime, WriteOk, InOrderNoGaps
<1>2. /\ Tail(write_msgs_[s]) \in Seq(Nat) /\ Len(write_msgs_[s]) > 0
      /\ Len(Tail(write_msgs_[s])) = Len(write_msgs_[s]) - 1
      /\ Head(write_msgs_[s]) = f
      /\ Run(f + 1, Tail(write_msgs_[s]))
  BY <1>1, TailRun
<1>3. /\ Append(sent[s], f) \in Seq(Nat)
      /\ Len(Append(sent[s], f)) = Len(sent[s]) + 1
      /\ Run(first[s], Append(sent[s], f))
  BY <1>1, AppendRun
<1>4. /\ sent'[s] = Append(sent[s], f) /\ write_msgs_'[s] = Tail(write_msgs_[s])
      /\ writes'[s] = IF Len(write_msgs_[s]) > 1 THEN 1 ELSE 0
      /\ UNCHANGED <<participants_, recent_msgs_, delivered, first, readOp>>
      /\ \A t \in Session \ {s} : /\ sent'[t] = sent[t] /\ write_msgs_'[t] = write_msgs_[t]
                                  /\ writes'[t] = writes[t]
  BY <1>1, <1>2 DEF TypeOK, WriteOk, room
<1>5. TypeOK'
  <2>1. /\ write_msgs_' \in [Session -> Seq(Nat)] /\ sent' \in [Session -> Seq(Nat)]
        /\ writes' \in [Session -> Nat]
    BY <1>1, <1>2, <1>3 DEF TypeOK, WriteOk
  <2> QED
    BY <2>1, <1>4 DEF TypeOK
<1>6. RecentIsTail' /\ ParticipantReads'
  BY <1>4 DEF RecentIsTail, ParticipantReads
<1>7. first[s] + Len(sent'[s]) = f + 1 /\ Len(write_msgs_'[s]) = Len(write_msgs_[s]) - 1
  BY <1>1, <1>2, <1>3, <1>4
<1>8. NewInv'
  <2>1. readOp[s] # "new" /\ first[s] > 0 /\ f + Len(write_msgs_[s]) <= delivered + 1
    BY <1>1 DEF NewInv
  <2>2. first[s] + Len(sent'[s]) + Len(write_msgs_'[s]) <= delivered + 1
    BY <1>1, <1>7, <2>1
  <2> QED
    BY <1>4, <2>1, <2>2 DEF NewInv
<1>9. OneWriteAtATime'
  <2>1. Len(write_msgs_[s]) > 1 <=> write_msgs_'[s] # <<>>
    <3>1. write_msgs_'[s] # <<>> <=> Len(Tail(write_msgs_[s])) # 0
      BY <1>2, <1>4, EmptyLen
    <3>2. /\ Len(write_msgs_[s]) \in Nat /\ Len(write_msgs_[s]) > 0
          /\ Len(Tail(write_msgs_[s])) = Len(write_msgs_[s]) - 1
      BY <1>1, <1>2
    <3>3. Len(write_msgs_[s]) > 1 <=> Len(Tail(write_msgs_[s])) # 0
      <4> DEFINE n == Len(write_msgs_[s])
                 k == Len(Tail(write_msgs_[s]))
      <4>1. n \in Nat /\ n > 0 /\ k = n - 1
        BY <3>2
      <4> HIDE DEF n, k
      <4>2. n > 1 <=> k # 0
        BY ONLY <4>1
      <4> QED
        BY <4>2 DEF n, k
    <3> QED
      BY ONLY <3>1, <3>3
  <2>2. writes'[s] <= 1 /\ (writes'[s] = 1 <=> write_msgs_'[s] # <<>>)
    BY <1>4, <2>1
  <2> QED
    BY <1>4, <2>2 DEF OneWriteAtATime
<1>10. InOrderNoGaps'
  <2>1. Run(first[s], sent'[s]) /\ Run(first[s] + Len(sent'[s]), write_msgs_'[s])
    BY <1>2, <1>3, <1>4, <1>7
  <2>2. s \in participants_ => first[s] + Len(sent'[s]) + Len(write_msgs_'[s]) = delivered + 1
    <3>1. s \in participants_ => f + Len(write_msgs_[s]) = delivered + 1
      BY DEF InOrderNoGaps
    <3> QED
      BY <1>1, <1>7, <3>1
  <2> QED
    BY <1>4, <2>1, <2>2 DEF InOrderNoGaps
<1> QED
  BY <1>5, <1>6, <1>8, <1>9, <1>10

LEMMA NextInv == Inv /\ [Next]_vars => Inv'
<1> SUFFICES ASSUME Inv, [Next]_vars PROVE Inv'
  OBVIOUS
<1> USE DEF Inv, TypeOK, NewInv, OneWriteAtATime, InOrderNoGaps, RecentIsTail, ParticipantReads
<1>1. ASSUME NEW s \in Session, ReadHeader(s) PROVE Inv'
  BY <1>1 DEF ReadHeader, room
<1>2. ASSUME NEW s \in Session, ReadFails(s) PROVE Inv'
  BY <1>2 DEF ReadFails, Leave
<1>3. ASSUME NEW s \in Session, WriteFails(s) PROVE Inv'
  <2>1. writes[s] = 1
    BY <1>3 DEF WriteFails
  <2>2. /\ writes' = [writes EXCEPT ![s] = 0] /\ participants_' = participants_ \ {s}
        /\ UNCHANGED <<recent_msgs_, delivered, first, write_msgs_, readOp, sent>>
    BY <1>3, <2>1 DEF WriteFails, Leave
  <2>3. \A t \in Session : writes'[t] = IF t = s THEN 0 ELSE writes[t]
    BY <2>2
  <2> QED
    <3>1. TypeOK' /\ RecentIsTail' /\ ParticipantReads'
      BY ONLY Inv, <2>2 DEF Inv, TypeOK, RecentIsTail, ParticipantReads
    <3>2. OneWriteAtATime'
      BY ONLY Inv, <2>2, <2>3 DEF Inv, OneWriteAtATime
    <3>3. NewInv'
      BY ONLY Inv, <2>2, <2>3 DEF Inv, NewInv
    <3>4. InOrderNoGaps'
      BY ONLY Inv, <2>2 DEF Inv, InOrderNoGaps
    <3> QED
      BY ONLY <3>1, <3>2, <3>3, <3>4 DEF Inv
<1>4. CASE UNCHANGED vars
  BY <1>4 DEF vars
<1> QED
  BY <1>1, <1>2, <1>3, <1>4, AcceptInv, ReadBodyInv, WriteOkInv DEF Next, WriteCompletes, AcceptFails

LEMMA SpecInv == Spec => []Inv
BY InitInv, NextInv, PTL DEF Spec

-----------------------------------------------------------------------------
\* The variables keep their types.
THEOREM TypeCorrect == Spec => []TypeOK
BY SpecInv, PTL DEF Inv

\* No session ever has two writes outstanding, and none of its messages waits for a write
\* that nobody starts.
THEOREM WritesSerialized == Spec => []OneWriteAtATime
BY SpecInv, PTL DEF Inv

\* Messages reach a session in room order without gaps or repeats, at any queue length.
THEOREM DeliveryInOrder == Spec => []InOrderNoGaps
BY SpecInv, PTL DEF Inv

\* The replay buffer is exactly the tail of the conversation.
THEOREM ReplayExact == Spec => []RecentIsTail
BY SpecInv, PTL DEF Inv

\* Every participant is still being read from.
THEOREM NoDeadParticipant == Spec => []ParticipantReads
BY SpecInv, PTL DEF Inv

\* A session that has left is out for good.
THEOREM LeavingIsFinal == Spec => LeftIsLeft
<1> DEFINE Gone(s) == readOp[s] # "new" /\ s \notin participants_ =>
                        s \notin participants_' /\ Len(write_msgs_'[s]) <= Len(write_msgs_[s])
<1>1. ASSUME Inv, [Next]_vars, NEW s \in Session PROVE Gone(s)
  <2> USE DEF Inv, TypeOK
  <2>1. ASSUME NEW t \in Session, Accept(t) PROVE Gone(s)
    BY <1>1, <2>1 DEF Accept, Join
  <2>2. ASSUME NEW t \in Session, ReadBody(t) PROVE Gone(s)
    BY <1>1, <2>2 DEF ReadBody, Deliver
  <2>3. ASSUME NEW t \in Session, WriteOk(t) PROVE Gone(s)
    <3>1. write_msgs_[t] \in Seq(Nat) /\ write_msgs_[t] # <<>>
      BY <1>1, <2>3 DEF WriteOk, OneWriteAtATime
    <3> QED
      BY <1>1, <2>3, <3>1 DEF WriteOk, room
  <2>4. ASSUME NEW t \in Session, ReadHeader(t) \/ ReadFails(t) \/ WriteFails(t) PROVE Gone(s)
    BY <1>1, <2>4 DEF ReadHeader, ReadFails, WriteFails, Leave, room
  <2>5. CASE UNCHANGED vars
    BY <1>1, <2>5 DEF vars
  <2> QED
    BY <1>1, <2>1, <2>2, <2>3, <2>4, <2>5 DEF Next, WriteCompletes, AcceptFails
<1>2. Inv /\ [Next]_vars => [\A s \in Session : Gone(s)]_vars
  BY <1>1
<1> QED
  BY <1>2, SpecInv, PTL DEF Spec, LeftIsLeft

\* The room implements the common log.
THEOREM RefinesLog == Spec => ImplementsLog
<1> USE DEF NextOf
<1>1. Init => Log!Init
  BY DEF Init, Log!Init
<1>2. ASSUME Inv, [Next]_vars PROVE [Log!Next]_(Log!vars)
  <2> USE DEF Inv, TypeOK
  <2>1. ASSUME NEW s \in Session, Accept(s) PROVE Log!Join(s)
    <3>1. delivered + 1 - Len(recent_msgs_)
            = IF delivered > MaxRecent THEN delivered - MaxRecent + 1 ELSE 1
      BY <1>2, MaxRecentAssumption DEF RecentIsTail
    <3>2. Len(sent[s]) = 0
      BY <1>2, <2>1 DEF Accept, NewInv
    <3>3. NextOf[s] = 0 /\ participants_' = participants_ \cup {s} /\ UNCHANGED delivered
      BY <2>1 DEF Accept, Join
    <3>4. NextOf' = [NextOf EXCEPT ![s] = delivered + 1 - Len(recent_msgs_)]
      <4>1. /\ readOp'[s] = "header" /\ first'[s] = delivered + 1 - Len(recent_msgs_)
            /\ sent' = sent /\ Len(recent_msgs_) \in Nat
            /\ \A t \in Session \ {s} : readOp'[t] = readOp[t] /\ first'[t] = first[t]
        BY <1>2, <2>1 DEF Accept, Join
      <4>2. NextOf'[s] = delivered + 1 - Len(recent_msgs_)
        BY <1>2, <3>2, <4>1
      <4>3. \A t \in Session \ {s} : NextOf'[t] = NextOf[t]
        BY <4>1
      <4>4. NextOf = [t \in Session |-> NextOf[t]] /\ NextOf' = [t \in Session |-> NextOf'[t]]
        OBVIOUS
      <4> HIDE DEF NextOf
      <4> QED
        BY <4>2, <4>3, <4>4
    <3> HIDE DEF NextOf
    <3> QED
      BY <3>1, <3>3, <3>4 DEF Log!Join
  <2>2. ASSUME NEW s \in Session, ReadBody(s) PROVE Log!Say
    BY <1>2, <2>2 DEF ReadBody, Log!Say
  <2>3. ASSUME NEW s \in Session, WriteOk(s) PROVE Log!Show(s)
    <3>1. write_msgs_[s] \in Seq(Nat) /\ write_msgs_[s] # <<>>
      BY <1>2, <2>3 DEF WriteOk, OneWriteAtATime
    <3>2. readOp[s] # "new" /\ first[s] > 0 /\ first[s] + Len(sent[s]) <= delivered
      BY <1>2, <3>1 DEF NewInv
    <3>3. NextOf[s] # 0 /\ NextOf[s] <= delivered
      BY <1>2, <3>2
    <3>4. NextOf' = [NextOf EXCEPT ![s] = NextOf[s] + 1] /\ UNCHANGED <<delivered, participants_>>
      <4>1. /\ Len(sent'[s]) = Len(sent[s]) + 1
            /\ \A t \in Session \ {s} : sent'[t] = sent[t]
            /\ UNCHANGED <<readOp, first, delivered, participants_>>
        BY <1>2, <2>3, <3>1 DEF WriteOk, room
      <4>2. NextOf'[s] = NextOf[s] + 1
        <5>1. NextOf[s] = first[s] + Len(sent[s]) /\ NextOf'[s] = first[s] + Len(sent'[s])
          BY <3>2, <4>1
        <5>2. first[s] \in Nat /\ Len(sent[s]) \in Nat
          BY <1>2
        <5> QED
          BY ONLY <4>1, <5>1, <5>2
      <4>3. \A t \in Session \ {s} : NextOf'[t] = NextOf[t]
        BY <4>1
      <4>4. NextOf = [t \in Session |-> NextOf[t]] /\ NextOf' = [t \in Session |-> NextOf'[t]]
        OBVIOUS
      <4> HIDE DEF NextOf
      <4> QED
        BY <4>1, <4>2, <4>3, <4>4
    <3> HIDE DEF NextOf
    <3> QED
      BY <3>3, <3>4 DEF Log!Show
  <2>4. ASSUME NEW s \in Session, ReadFails(s) \/ WriteFails(s) PROVE Log!Leave(s)
    BY <1>2, <2>4 DEF ReadFails, WriteFails, Leave, Log!Leave
  <2>5. ASSUME NEW s \in Session, ReadHeader(s) PROVE UNCHANGED Log!vars
    BY <1>2, <2>5 DEF ReadHeader, room, Log!vars
  <2>6. CASE UNCHANGED vars
    BY <1>2, <2>6 DEF vars, Log!vars
  <2> QED
    BY <1>2, <2>1, <2>2, <2>3, <2>4, <2>5, <2>6 DEF Next, WriteCompletes, AcceptFails, Log!Next
<1>3. Inv /\ [Next]_vars => [Log!Next]_(Log!vars)
  BY <1>2
<1> QED
  BY <1>1, <1>3, SpecInv, PTL DEF Spec, ImplementsLog, Log!Spec
=============================================================================
