------------------------- MODULE ActionServerProofs -------------------------
(***************************************************************************)
(* Proofs about ActionServer for any set of peers: type correctness, the   *)
(* registry, what becomes of a handled connection, and that the server     *)
(* implements the safety part of ServerLifecycle, its failures included.   *)
(***************************************************************************)
EXTENDS ActionServer, TLAPS

\* The acceptor is open until the signal handler runs or the process ends; a held peer
\* belongs to an accept result and has no operation.
AcceptInv ==
  /\ acceptor_ <=> signalOp # "done"
  /\ acceptOp \in {"none", "aborted"} => ~acceptor_
  /\ acceptOp \in {"pending", "error", "aborted"} => socket_ = NoConn
  /\ acceptOp = "pending" => acceptor_
  /\ acceptOp = "ok" => socket_ # NoConn
  /\ socket_ # NoConn => sock[socket_] = "open" /\ op[socket_] = "none"
  /\ ~running => NoWork /\ socket_ = NoConn

\* Only reads are ever outstanding, never on a fresh socket, and cancelled or aborted only
\* once the socket is closed.  A handled connection was started and has no operation.
ConnInv ==
  /\ \A c \in Conn :
       /\ sock[c] = "fresh" => op[c] = "none"
       /\ op[c] # "none" /\ res[c] \in {"cancelled", "aborted"} => sock[c] = "closed"
       /\ op[c] # "write"
  /\ \A c \in handled : op[c] = "none" /\ sock[c] # "fresh" /\ c # socket_

\* connections_ holds exactly the started connections whose socket is open, as in
\* HttpServer, here with every exception and abort that may end the process (server.cpp
\* 38-42, connection_manager.cpp).
RegistryExact == connections_ = {c \in Conn : sock[c] = "open" /\ c # socket_}

\* A registered connection is being read from or has been handled: none waits for an
\* operation that nobody has started (connection.cpp 27-67).
RegisteredReadsOrParked == \A c \in connections_ : op[c] = "read" \/ c \in handled

\* After the signal handler has run, no connection is registered (server.cpp 46-52).
StoppedStaysEmpty ==
  signalOp = "done" => connections_ = {} /\ ~acceptor_ /\ acceptOp # "pending"

Inv ==
  /\ TypeOK
  /\ AcceptInv
  /\ ConnInv
  /\ RegistryExact
  /\ RegisteredReadsOrParked
  /\ StoppedStaysEmpty

-----------------------------------------------------------------------------
\* A step that leaves the variables ActionServer adds alone.
Env(A) == A /\ UNCHANGED own

\* Every step has one of these forms.
LEMMA StepCases ==
  ASSUME [Next]_vars
  PROVE  \/ Env(AcceptCompletes) \/ Env(SignalArrives)
         \/ Env(AcceptAfterClose) \/ Env(AcceptStart) \/ Env(AcceptRetry) \/ Env(HandleSignal)
         \/ StopAborts
         \/ Return
         \/ UNCHANGED vars
         \/ \E c \in Conn :
              \/ Env(OperationCompletes(c)) \/ Cancel(c)
              \/ ReadGood(c) \/ ReadBad(c) \/ ReadThrows(c) \/ ReadFailed(c) \/ Aborted(c)
BY DEF Next, Environment, Core, CoreHandlers, ConnHandler, Exited, Env

LEMMA InitInv == Init => Inv
BY NoConnAssumption DEF Init, CoreInit, Inv, TypeOK, CoreTypeOK, AcceptInv, ConnInv, RegistryExact,
   RegisteredReadsOrParked, StoppedStaysEmpty, AcceptResults, Results

\* When the process ends, nothing is left open, registered or outstanding.
LEMMA ProcessEndsInv ==
  ASSUME Inv, ProcessEnds, UNCHANGED status, handled' \subseteq {c \in Conn : sock[c] # "fresh"}
  PROVE  Inv'
BY NoConnAssumption, ZenonT(60) DEF ProcessEnds, Inv, TypeOK, CoreTypeOK, AcceptInv, ConnInv, RegistryExact,
   RegisteredReadsOrParked, StoppedStaysEmpty, AcceptResults, Results, NoWork

LEMMA NextInv == Inv /\ [Next]_vars => Inv'
<1> SUFFICES ASSUME Inv, [Next]_vars PROVE Inv'
  OBVIOUS
<1>1. ASSUME NEW c \in Conn, ReadThrows(c) PROVE Inv'
  <2>1. handled' \subseteq {d \in Conn : sock[d] # "fresh"}
    BY <1>1 DEF ReadThrows, Inv, TypeOK, ConnInv
  <2> QED
    BY <1>1, <2>1, ProcessEndsInv DEF ReadThrows
<1>2. CASE StopAborts
  <2>1. handled' \subseteq {d \in Conn : sock[d] # "fresh"}
    BY <1>2 DEF StopAborts, own, Inv, TypeOK, ConnInv
  <2> QED
    BY <1>2, <2>1, ProcessEndsInv DEF StopAborts, own
<1> USE NoConnAssumption DEF Env, own, Inv, TypeOK, CoreTypeOK, AcceptInv, ConnInv, RegistryExact,
        RegisteredReadsOrParked, StoppedStaysEmpty, AcceptResults, Results
<1>3. CASE Env(AcceptCompletes)
  BY <1>3 DEF AcceptCompletes, NoWork
<1>4. CASE Env(SignalArrives)
  BY <1>4 DEF SignalArrives, NoWork
<1>5. CASE Env(AcceptAfterClose)
  BY <1>5 DEF AcceptAfterClose, NoWork
<1>6. CASE Env(AcceptStart)
  BY <1>6 DEF AcceptStart, StartResult, NoWork
<1>7. CASE Env(AcceptRetry)
  BY <1>7 DEF AcceptRetry, NoWork
<1>8. CASE Env(HandleSignal)
  BY <1>8 DEF HandleSignal, StopAll, Cancelled, NoWork
<1>9. CASE Return
  BY <1>9 DEF Return, RunReturns, NoWork
<1>10. CASE UNCHANGED vars
  BY <1>10 DEF vars, NoWork
<1>11. ASSUME NEW c \in Conn, Env(OperationCompletes(c)) PROVE Inv'
  BY <1>11 DEF OperationCompletes, NoWork
<1>12. ASSUME NEW c \in Conn, Cancel(c) PROVE Inv'
  BY <1>12 DEF Cancel, CancelCompletes, NoWork
<1>13. ASSUME NEW c \in Conn, ReadGood(c) \/ ReadBad(c) PROVE Inv'
  <2>1. op[c] = "read" /\ res[c] = "ok" /\ DoWrite(c)
    BY <1>13 DEF ReadGood, ReadBad
  <2>2. status' \in [Conn -> {"unset", "ok", "created", "bad_request"}]
    BY <1>13 DEF ReadGood, ReadBad, Answer
  <2>3. /\ op' = [op EXCEPT ![c] = "none"] /\ res' = [res EXCEPT ![c] = "pending"]
        /\ handled' = handled \cup {c}
        /\ UNCHANGED <<acceptor_, acceptOp, signalOp, socket_, connections_, sock, running>>
    BY <2>1 DEF DoWrite, NothingStarted
  <2>4. running /\ c # socket_ /\ sock[c] # "fresh"
    BY <2>1 DEF NoWork
  <2>5. TypeOK' /\ RegistryExact' /\ StoppedStaysEmpty'
    BY <2>2, <2>3
  <2>6. AcceptInv' /\ ConnInv' /\ RegisteredReadsOrParked'
    BY <2>3, <2>4
  <2> QED
    BY <2>5, <2>6
<1>14. ASSUME NEW c \in Conn, ReadFailed(c) PROVE Inv'
  BY <1>14 DEF ReadFailed, ManagerStop, NoWork
<1>15. ASSUME NEW c \in Conn, Aborted(c) PROVE Inv'
  BY <1>15 DEF Aborted, NoWork
<1> QED
  BY <1>1, <1>2, <1>3, <1>4, <1>5, <1>6, <1>7, <1>8, <1>9, <1>10, <1>11, <1>12, <1>13, <1>14,
     <1>15, StepCases

LEMMA SpecInv == Spec => []Inv
BY InitInv, NextInv, PTL DEF Spec

-----------------------------------------------------------------------------
\* The variables keep their types.
THEOREM TypeCorrect == Spec => []TypeOK
BY SpecInv, PTL DEF Inv

\* The registry holds exactly the open, started connections, and each of them reads or is
\* parked, whatever throws.
THEOREM RegistryCorrect == Spec => [](RegistryExact /\ RegisteredReadsOrParked)
BY SpecInv, PTL DEF Inv

\* A handled connection is parked until the server stops or fails.
THEOREM HandledIsParked == Spec => ParkedUntilTheEnd
<1> DEFINE Parked(c) ==
      /\ op[c] = "none" /\ op'[c] = "none"
      /\ status'[c] = status[c]
      /\ c \in connections_ => c \in connections_' \/ signalOp' = "done"
<1>1. ASSUME Inv, [Next]_vars, NEW c \in handled PROVE Parked(c)
  <2> USE DEF Inv, TypeOK, CoreTypeOK, ConnInv, Env, own
  <2>0. c \in Conn /\ op[c] = "none" /\ c # socket_
    BY <1>1
  <2>1. ASSUME NEW d \in Conn, ReadGood(d) \/ ReadBad(d) PROVE Parked(c)
    BY <1>1, <2>0, <2>1 DEF ReadGood, ReadBad, DoWrite
  <2>2. ASSUME NEW d \in Conn, ReadThrows(d) PROVE Parked(c)
    BY <1>1, <2>0, <2>2 DEF ReadThrows, ProcessEnds
  <2>3. ASSUME NEW d \in Conn, ReadFailed(d) \/ Aborted(d) PROVE Parked(c)
    BY <1>1, <2>0, <2>3 DEF ReadFailed, Aborted, ManagerStop
  <2>4. ASSUME NEW d \in Conn, Env(OperationCompletes(d)) \/ Cancel(d) PROVE Parked(c)
    BY <1>1, <2>0, <2>4 DEF OperationCompletes, Cancel, CancelCompletes
  <2>5. CASE Env(AcceptStart)
    BY <1>1, <2>0, <2>5 DEF AcceptStart
  <2>6. CASE StopAborts
    BY <1>1, <2>0, <2>6 DEF StopAborts, ProcessEnds
  <2>7. CASE Env(HandleSignal)
    BY <1>1, <2>0, <2>7 DEF HandleSignal, StopAll
  <2>8. CASE \/ Env(AcceptCompletes) \/ Env(SignalArrives) \/ Env(AcceptAfterClose)
             \/ Env(AcceptRetry) \/ Return \/ UNCHANGED vars
    BY <1>1, <2>0, <2>8 DEF AcceptCompletes, SignalArrives, AcceptAfterClose, AcceptRetry, Return,
       RunReturns, vars
  <2> QED
    BY <1>1, <2>1, <2>2, <2>3, <2>4, <2>5, <2>6, <2>7, <2>8, StepCases
<1>2. Inv /\ [Next]_vars => [\A c \in handled : Parked(c)]_vars
  BY <1>1
<1> QED
  BY <1>2, SpecInv, PTL DEF Spec, ParkedUntilTheEnd
-----------------------------------------------------------------------------
\* The server takes only the steps that ServerLifecycle allows: whatever a query throws, the
\* end of the process is one Fail.
THEOREM RefinesLifecycle == Spec => LifecycleSteps
<1> USE DEF Phase, Gone
<1>1. Init => Lifecycle!Init
  BY DEF Init, CoreInit, Lifecycle!Init
<1>2. ASSUME Inv, [Next]_vars
      PROVE  [Lifecycle!Next]_(Lifecycle!vars)
  <2> USE DEF Inv, TypeOK, CoreTypeOK, AcceptInv, ConnInv, RegistryExact, StoppedStaysEmpty, Env,
              AcceptResults, own
  <2>1. CASE Env(AcceptStart)
    <3>1. Lifecycle!Open(socket_)
      BY <1>2, <2>1 DEF AcceptStart, Lifecycle!Open, NoWork
    <3> QED
      BY <1>2, <2>1, <3>1 DEF AcceptStart, Lifecycle!Next
  <2>2. CASE Env(HandleSignal)
    <3>1. Lifecycle!Stop
      BY <1>2, <2>2 DEF HandleSignal, StopAll, Lifecycle!Stop, NoWork
    <3> QED
      BY <3>1 DEF Lifecycle!Next
  <2>3. CASE Return
    <3> DEFINE turned == {socket_} \cap Conn
    <3>1. Gone' = Gone \cup turned /\ turned \in SUBSET (Conn \ Gone)
      <4>1. \A c \in Conn : sock'[c] = "closed" <=> (sock[c] = "closed" \/ c = socket_)
        BY <2>3 DEF Return, RunReturns
      <4>2. socket_ \in Conn => sock[socket_] = "open"
        BY <1>2, NoConnAssumption
      <4> QED
        BY ONLY <4>1, <4>2 DEF Gone
    <3>2. Phase = "draining" /\ Phase' = "exited" /\ UNCHANGED connections_
      BY <2>3 DEF Return, RunReturns, NoWork
    <3>3. \E late \in SUBSET (Conn \ Gone) : Gone' = Gone \cup late
      <4> HIDE DEF turned, Gone
      <4> QED BY ONLY <3>1
    <3>4. Lifecycle!Exit
      BY ONLY <3>2, <3>3 DEF Lifecycle!Exit
    <3> QED
      BY <3>4 DEF Lifecycle!Next
  <2>4. CASE ProcessEnds /\ running
    <3> DEFINE late == {socket_} \cap Conn
    <3>1. Gone' = Gone \cup connections_ \cup late /\ late \in SUBSET (Conn \ (Gone \cup connections_))
      <4>1. \A c \in Conn : sock'[c] = "closed" <=> sock[c] \in {"open", "closed"}
        BY <1>2, <2>4 DEF ProcessEnds
      <4>2. \A c \in Conn : sock[c] = "open" <=> (c \in connections_ \/ c = socket_)
        BY <1>2, NoConnAssumption
      <4>3. connections_ \subseteq Conn /\ socket_ \notin connections_
        BY <1>2
      <4>4. socket_ \in Conn => sock[socket_] # "closed"
        BY <4>2
      <4> QED
        BY ONLY <4>1, <4>2, <4>3, <4>4 DEF Gone
    <3>2. Phase # "exited" /\ Phase' = "exited" /\ connections_' = {}
      BY <2>4 DEF ProcessEnds
    <3>3. \E l \in SUBSET (Conn \ (Gone \cup connections_)) : Gone' = Gone \cup connections_ \cup l
      <4> HIDE DEF late, Gone
      <4> QED BY ONLY <3>1
    <3>4. Lifecycle!Fail
      BY ONLY <3>2, <3>3 DEF Lifecycle!Fail
    <3> QED
      BY <3>4 DEF Lifecycle!Next
  <2>5. ASSUME NEW c \in Conn, ReadThrows(c)
        PROVE  ProcessEnds /\ running
    BY <1>2, <2>5 DEF ReadThrows, NoWork
  <2>6. ASSUME NEW c \in Conn, ReadFailed(c)
        PROVE  [Lifecycle!Next]_(Lifecycle!vars)
    <3>1. CASE c \in connections_
      <4>1. Lifecycle!Close(c)
        BY <1>2, <2>6, <3>1 DEF ReadFailed, ManagerStop, Lifecycle!Close
      <4> QED
        BY <4>1 DEF Lifecycle!Next
    <3>2. CASE c \notin connections_
      <4>1. sock[c] = "closed"
        BY <1>2, <2>6, <3>2, NoConnAssumption DEF ReadFailed
      <4>2. connections_' = connections_ /\ sock' = sock /\ UNCHANGED <<running, signalOp>>
        BY <2>6, <3>2, <4>1, <1>2 DEF ReadFailed, ManagerStop
      <4> QED
        BY <4>2 DEF Lifecycle!vars
    <3> QED
      BY <3>1, <3>2
  <2>7. CASE Env(AcceptCompletes)
    <3>1. Gone' = Gone /\ UNCHANGED <<connections_, running, signalOp>>
      BY <1>2, <2>7 DEF AcceptCompletes
    <3> QED
      BY <3>1 DEF Lifecycle!vars
  <2>8. CASE Env(SignalArrives)
    BY <1>2, <2>8 DEF SignalArrives, Lifecycle!vars
  <2>9. CASE Env(AcceptAfterClose) \/ Env(AcceptRetry) \/ UNCHANGED vars
    BY <2>9 DEF AcceptAfterClose, AcceptRetry, vars, Lifecycle!vars
  <2>10. ASSUME NEW c \in Conn,
                \/ Env(OperationCompletes(c)) \/ Cancel(c)
                \/ ReadGood(c) \/ ReadBad(c) \/ Aborted(c)
         PROVE  UNCHANGED Lifecycle!vars
    BY <2>10 DEF OperationCompletes, Cancel, CancelCompletes, ReadGood, ReadBad, DoWrite, Aborted,
       Lifecycle!vars
  <2>11. CASE StopAborts
    <3>1. ProcessEnds /\ running
      BY <1>2, <2>11 DEF StopAborts, NoWork
    <3> QED
      BY <2>4, <3>1
  <2> QED
    BY <1>2, <2>1, <2>2, <2>3, <2>4, <2>5, <2>6, <2>7, <2>8, <2>9, <2>10, <2>11, StepCases
<1>3. Inv /\ [Next]_vars => [Lifecycle!Next]_(Lifecycle!vars)
  BY <1>2
<1> QED
  BY <1>1, <1>3, SpecInv, PTL DEF Spec, LifecycleSteps
=============================================================================
