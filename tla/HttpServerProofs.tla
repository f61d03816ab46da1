-------------------------- MODULE HttpServerProofs --------------------------
(***************************************************************************)
(* Proofs about HttpServer for any set of peers: type correctness, the     *)
(* safety invariants of the registry, the action properties, and that the  *)
(* server implements the safety part of ServerLifecycle.                   *)
(***************************************************************************)
EXTENDS HttpServer, TLAPS

\* The acceptor is open until the signal handler runs; an accept is outstanding only on
\* an open acceptor with an empty socket_, and a held peer belongs to an accept result.
AcceptInv ==
  /\ acceptor_ <=> signalOp # "done"
  /\ acceptOp \in {"none", "aborted"} => ~acceptor_
  /\ acceptOp \in {"pending", "error", "aborted"} => socket_ = NoConn
  /\ acceptOp = "pending" => acceptor_
  /\ acceptOp = "ok" => socket_ # NoConn
  /\ socket_ # NoConn => sock[socket_] = "open" /\ op[socket_] = "none"
  /\ ~running => NoWork /\ socket_ = NoConn

\* An operation outstanding tells where its connection is: never on a fresh socket, and
\* cancelled or aborted only once the socket is closed.
ConnInv ==
  \A c \in Conn :
    /\ sock[c] = "fresh" => op[c] = "none" /\ parser[c] = "indeterminate"
    /\ op[c] # "none" /\ res[c] \in {"cancelled", "aborted"} => sock[c] = "closed"
    /\ op[c] = "read" => parser[c] = "indeterminate"
    /\ op[c] = "write" => reply[c] # "none"
    /\ sock[c] = "open" /\ op[c] = "none" => parser[c] = "indeterminate"

\* A socket that is closed has no operation waiting for its peer: every operation left
\* over after stop or stop_all completes without the peer's help, so no silent peer can
\* keep ios.run() from returning (connection_manager.cpp 9-17).
ClosedNeverWaits == \A c \in Conn : op[c] # "none" /\ res[c] = "pending" => sock[c] = "open"

Inv ==
  /\ TypeOK
  /\ AcceptInv
  /\ ConnInv
  /\ RegistryExact
  /\ ManagedHasWork
  /\ StoppedStaysEmpty
  /\ ClosedNeverWaits

-----------------------------------------------------------------------------
\* The step of the registry and of the variables HttpServer adds, per kind of action.
Env(A) == A /\ UNCHANGED <<parser, reply>>

\* Every step has one of these forms.
LEMMA StepCases ==
  ASSUME [Next]_vars
  PROVE  \/ Env(AcceptCompletes) \/ Env(SignalArrives)
         \/ Env(AcceptAfterClose) \/ Env(AcceptStart) \/ Env(AcceptRetry) \/ Env(HandleSignal)
         \/ Return
         \/ UNCHANGED vars
         \/ \E c \in Conn :
              \/ Env(OperationCompletes(c))
              \/ Cancel(c)
              \/ \E v \in {"good", "bad"}, s \in HandlerStatus : ReadVerdict(c, v, s)
              \/ ReadMore(c) \/ ReadFailed(c) \/ WriteDone(c) \/ Aborted(c)
<1>1. CASE Environment
  BY <1>1 DEF Environment, Env
<1>2. CASE Core
  BY <1>2 DEF Core, CoreHandlers, Env
<1>3. ASSUME NEW c \in Conn, ConnHandler(c)
      PROVE  \/ \E v \in {"good", "bad"}, s \in HandlerStatus : ReadVerdict(c, v, s)
             \/ ReadMore(c) \/ ReadFailed(c) \/ WriteDone(c) \/ Aborted(c)
  BY <1>3 DEF ConnHandler, ReadGood, ReadBad, HandlerStatus
<1>4. CASE Exited
  BY <1>4 DEF Exited
<1> QED
  BY <1>1, <1>2, <1>3, <1>4 DEF Next

-----------------------------------------------------------------------------
LEMMA InitInv == Init => Inv
BY NoConnAssumption DEF Init, CoreInit, Inv, TypeOK, CoreTypeOK, AcceptInv, ConnInv, RegistryExact,
   ManagedHasWork, StoppedStaysEmpty, ClosedNeverWaits, HandlerStatus, AcceptResults, Results, NoWork

LEMMA NextInv == Inv /\ [Next]_vars => Inv'
<1> SUFFICES ASSUME Inv, [Next]_vars PROVE Inv'
  OBVIOUS
<1> USE NoConnAssumption DEF Env, Inv, TypeOK, CoreTypeOK, AcceptInv, ConnInv, RegistryExact,
        ManagedHasWork, StoppedStaysEmpty, ClosedNeverWaits, HandlerStatus, AcceptResults, Results
<1>1. CASE Env(AcceptCompletes)
  BY <1>1 DEF AcceptCompletes, NoWork
<1>2. CASE Env(SignalArrives)
  BY <1>2 DEF SignalArrives, NoWork
<1>3. CASE Env(AcceptAfterClose)
  BY <1>3 DEF AcceptAfterClose, NoWork
<1>4. CASE Env(AcceptStart)
  BY <1>4 DEF AcceptStart, StartResult, NoWork
<1>5. CASE Env(AcceptRetry)
  BY <1>5 DEF AcceptRetry, NoWork
<1>6. CASE Env(HandleSignal)
  BY <1>6 DEF HandleSignal, StopAll, Cancelled, NoWork
<1>7. CASE Return
  BY <1>7 DEF Return, RunReturns, NoWork
<1>8. CASE UNCHANGED vars
  BY <1>8 DEF vars, NoWork
<1>9. ASSUME NEW c \in Conn, Env(OperationCompletes(c)) PROVE Inv'
  BY <1>9 DEF OperationCompletes, NoWork
<1>10. ASSUME NEW c \in Conn, Cancel(c) PROVE Inv'
  BY <1>10 DEF Cancel, CancelCompletes, NoWork
<1>11. ASSUME NEW c \in Conn, NEW v \in {"good", "bad"}, NEW s \in HandlerStatus,
              ReadVerdict(c, v, s)
       PROVE  Inv'
  BY <1>11 DEF ReadVerdict, Start, StartResult, NoWork
<1>12. ASSUME NEW c \in Conn, ReadMore(c) PROVE Inv'
  BY <1>12 DEF ReadMore, Start, StartResult, NoWork
<1>13. ASSUME NEW c \in Conn, ReadFailed(c) PROVE Inv'
  BY <1>13 DEF ReadFailed, ManagerStop, NoWork
<1>14. ASSUME NEW c \in Conn, WriteDone(c) PROVE Inv'
  BY <1>14 DEF WriteDone, ManagerStop, NoWork
<1>15. ASSUME NEW c \in Conn, Aborted(c) PROVE Inv'
  BY <1>15 DEF Aborted, Abandon, NoWork
<1> QED
  BY <1>1, <1>2, <1>3, <1>4, <1>5, <1>6, <1>7, <1>8, <1>9, <1>10, <1>11, <1>12, <1>13, <1>14,
     <1>15, StepCases

LEMMA SpecInv == Spec => []Inv
BY InitInv, NextInv, PTL DEF Spec

-----------------------------------------------------------------------------
\* The variables keep their types.
THEOREM TypeCorrect == Spec => []TypeOK
BY SpecInv, PTL DEF Inv

\* The registry holds exactly the open, started connections, whatever the order of accept
\* results, read and write results and the stop signal.
THEOREM RegistryCorrect == Spec => []RegistryExact
BY SpecInv, PTL DEF Inv

\* No registered connection is idle.
THEOREM NoIdleConnection == Spec => []ManagedHasWork
BY SpecInv, PTL DEF Inv

\* After the stop signal has been handled nothing is registered or accepted again.
THEOREM StopIsFinal == Spec => []StoppedStaysEmpty
BY SpecInv, PTL DEF Inv

\* The buffers of a write in progress do not change.
THEOREM ReplyStable == Spec => ReplyStableWhileWriting
<1>1. ASSUME Inv, [Next]_vars, NEW c \in Conn, op'[c] = "write"
      PROVE  reply'[c] # "none" /\ (op[c] = "write" => reply'[c] = reply[c])
  <2> USE DEF Inv, TypeOK, CoreTypeOK, ConnInv, Env, HandlerStatus
  <2>1. ASSUME NEW d \in Conn, NEW v \in {"good", "bad"}, NEW s \in HandlerStatus,
               ReadVerdict(d, v, s)
        PROVE  reply'[c] # "none" /\ (op[c] = "write" => reply'[c] = reply[c])
    BY <1>1, <2>1 DEF ReadVerdict, Start
  <2>2. ASSUME NEW d \in Conn, ReadMore(d) \/ ReadFailed(d) \/ WriteDone(d) \/ Aborted(d)
        PROVE  op[c] = "write" /\ reply' = reply
    BY <1>1, <2>2 DEF ReadMore, ReadFailed, WriteDone, Aborted, Start, Abandon, ManagerStop
  <2>3. ASSUME NEW d \in Conn, Env(OperationCompletes(d)) \/ Cancel(d)
        PROVE  op[c] = "write" /\ reply' = reply
    BY <1>1, <2>3 DEF OperationCompletes, Cancel, CancelCompletes
  <2>4. CASE Env(AcceptStart)
    BY <1>1, <2>4 DEF AcceptStart, AcceptInv
  <2>5. CASE \/ Env(AcceptCompletes) \/ Env(SignalArrives) \/ Env(AcceptAfterClose)
             \/ Env(AcceptRetry) \/ Env(HandleSignal) \/ Return \/ UNCHANGED vars
    BY <1>1, <2>5 DEF AcceptCompletes, SignalArrives, AcceptAfterClose, AcceptRetry, HandleSignal,
       Return, RunReturns, vars
  <2> QED
    BY <1>1, <2>1, <2>2, <2>3, <2>4, <2>5, StepCases
<1>2. Inv /\ [Next]_vars => [\A c \in Conn : op'[c] = "write" =>
                               /\ reply'[c] # "none"
                               /\ op[c] = "write" => reply'[c] = reply[c]]_vars
  BY <1>1
<1> QED
  BY <1>2, SpecInv, PTL DEF Spec, ReplyStableWhileWriting

\* The parser is not fed after its verdict and an ended connection stays ended.
THEOREM VerdictFinal == Spec => VerdictIsFinal
<1> DEFINE Final(c) ==
      /\ parser[c] # "indeterminate" => parser'[c] = parser[c] /\ op'[c] # "read"
      /\ sock[c] = "closed" => sock'[c] = "closed" /\ c \notin connections_'
<1>1. ASSUME Inv, [Next]_vars, NEW c \in Conn
      PROVE  Final(c)
  <2> USE DEF Inv, TypeOK, CoreTypeOK, ConnInv, RegistryExact, Env
  <2>1. ASSUME NEW d \in Conn, NEW v \in {"good", "bad"}, NEW s \in HandlerStatus,
               ReadVerdict(d, v, s)
        PROVE  Final(c)
    BY <1>1, <2>1 DEF ReadVerdict, Start
  <2>2. ASSUME NEW d \in Conn, ReadMore(d) \/ ReadFailed(d) \/ WriteDone(d) \/ Aborted(d)
        PROVE  Final(c)
    BY <1>1, <2>2 DEF ReadMore, ReadFailed, WriteDone, Aborted, Start, Abandon, ManagerStop
  <2>3. ASSUME NEW d \in Conn, Env(OperationCompletes(d)) \/ Cancel(d)
        PROVE  Final(c)
    BY <1>1, <2>3 DEF OperationCompletes, Cancel, CancelCompletes
  <2>4. CASE Env(AcceptStart)
    BY <1>1, <2>4 DEF AcceptStart, AcceptInv
  <2>5. CASE \/ Env(AcceptCompletes) \/ Env(SignalArrives) \/ Env(AcceptAfterClose)
             \/ Env(AcceptRetry) \/ Env(HandleSignal) \/ Return \/ UNCHANGED vars
    BY <1>1, <2>5 DEF AcceptCompletes, SignalArrives, AcceptAfterClose, AcceptRetry, HandleSignal,
       StopAll, Return, RunReturns, vars
  <2> QED
    BY <1>1, <2>1, <2>2, <2>3, <2>4, <2>5, StepCases
<1>2. Inv /\ [Next]_vars => [\A c \in Conn : Final(c)]_vars
  BY <1>1
<1> QED
  BY <1>2, SpecInv, PTL DEF Spec, VerdictIsFinal

-----------------------------------------------------------------------------
\* The server takes only the steps that ServerLifecycle allows.
THEOREM RefinesLifecycle == Spec => LifecycleSteps
<1> USE DEF Phase, Gone
<1>1. Init => Lifecycle!Init
  BY DEF Init, CoreInit, Lifecycle!Init
<1>2. ASSUME Inv, [Next]_vars
      PROVE  [Lifecycle!Next]_(Lifecycle!vars)
  <2> USE DEF Inv, TypeOK, CoreTypeOK, AcceptInv, ConnInv, RegistryExact, StoppedStaysEmpty, Env,
              AcceptResults
  <2>1. CASE Env(AcceptStart)
    <3>1. Lifecycle!Open(socket_)
      BY <1>2, <2>1 DEF AcceptStart, Lifecycle!Open, NoWork
    <3> QED
      BY <1>2, <2>1, <3>1 DEF AcceptStart, Lifecycle!Next
  <2>2. CASE Env(HandleSignal)
    <3>1. Lifecycle!Stop
      BY <1>2, <2>2 DEF HandleSignal, StopAll, Lifecycle!Stop, NoWork
    <3> QED
      BY <3>1 DEF Lifecycle!Next
  <2>3. CASE Return
    <3> DEFINE turned == {socket_} \cap Conn
    <3>1. Gone' = Gone \cup turned /\ turned \in SUBSET (Conn \ Gone)
      <4>1. \A c \in Conn : sock'[c] = "closed" <=> (sock[c] = "closed" \/ c = socket_)
        BY <2>3 DEF Return, RunReturns
      <4>2. socket_ \in Conn => sock[socket_] = "open"
        BY <1>2, NoConnAssumption
      <4> QED
        BY ONLY <4>1, <4>2 DEF Gone
    <3>2. Phase = "draining" /\ Phase' = "exited" /\ UNCHANGED connections_
      BY <2>3 DEF Return, RunReturns, NoWork
    <3>3. \E late \in SUBSET (Conn \ Gone) : Gone' = Gone \cup late
      <4> HIDE DEF turned, Gone
      <4> QED BY ONLY <3>1
    <3>4. Lifecycle!Exit
      BY ONLY <3>2, <3>3 DEF Lifecycle!Exit
    <3> QED
      BY <3>4 DEF Lifecycle!Next
  <2>4. ASSUME NEW c \in Conn, ReadFailed(c) \/ WriteDone(c)
        PROVE  [Lifecycle!Next]_(Lifecycle!vars)
    <3>1. CASE c \in connections_
      <4>1. Lifecycle!Close(c)
        BY <1>2, <2>4, <3>1 DEF ReadFailed, WriteDone, ManagerStop, Lifecycle!Close
      <4> QED
        BY <4>1 DEF Lifecycle!Next
    <3>2. CASE c \notin connections_
      <4>1. sock[c] = "closed"
        BY <1>2, <2>4, <3>2, NoConnAssumption DEF ReadFailed, WriteDone
      <4>2. connections_' = connections_ /\ sock' = sock /\ UNCHANGED <<running, signalOp>>
        BY <2>4, <3>2, <4>1, <1>2 DEF ReadFailed, WriteDone, ManagerStop
      <4> QED
        BY <4>2 DEF Lifecycle!vars
    <3> QED
      BY <3>1, <3>2
  <2>5. CASE Env(AcceptCompletes)
    <3>1. Gone' = Gone /\ UNCHANGED <<connections_, running, signalOp>>
      BY <1>2, <2>5 DEF AcceptCompletes
    <3> QED
      BY <3>1 DEF Lifecycle!vars
  <2>6. CASE Env(SignalArrives)
    BY <1>2, <2>6 DEF SignalArrives, Lifecycle!vars
  <2>7. CASE Env(AcceptAfterClose) \/ Env(AcceptRetry) \/ UNCHANGED vars
    BY <2>7 DEF AcceptAfterClose, AcceptRetry, vars, Lifecycle!vars
  <2>8. ASSUME NEW c \in Conn,
               \/ Env(OperationCompletes(c)) \/ Cancel(c) \/ ReadMore(c) \/ Aborted(c)
               \/ \E v \in {"good", "bad"}, s \in HandlerStatus : ReadVerdict(c, v, s)
        PROVE  UNCHANGED Lifecycle!vars
    BY <2>8 DEF OperationCompletes, Cancel, CancelCompletes, ReadMore, Aborted, ReadVerdict,
       Lifecycle!vars
  <2> QED
    BY <1>2, <2>1, <2>2, <2>3, <2>4, <2>5, <2>6, <2>7, <2>8, StepCases
<1>3. Inv /\ [Next]_vars => [Lifecycle!Next]_(Lifecycle!vars)
  BY <1>2
<1> QED
  BY <1>1, <1>3, SpecInv, PTL DEF Spec, LifecycleSteps
=============================================================================
