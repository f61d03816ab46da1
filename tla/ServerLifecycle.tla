--------------------------- MODULE ServerLifecycle ---------------------------
(***************************************************************************)
(* What server.cpp and connection_manager.cpp promise, without sockets,    *)
(* operations or handlers: connections are opened while the server serves, *)
(* each is closed once and never comes back, a stop request closes all of  *)
(* them in one step, and from then on the server only drains and exits.    *)
(* A server whose handlers may throw can also end at any time, all at once. *)
(***************************************************************************)
CONSTANTS
  Conn,
  MayFail   \* whether a handler may throw, which ends ios.run() at once

VARIABLES
  phase,   \* "serving", "draining" after a stop request, "exited"
  live,    \* the connections the server answers for
  gone     \* the peers whose connection is over

vars == <<phase, live, gone>>

Init == phase = "serving" /\ live = {} /\ gone = {}

Open(c) ==
  /\ phase = "serving"
  /\ c \notin live \cup gone
  /\ live' = live \cup {c}
  /\ UNCHANGED <<phase, gone>>

Close(c) ==
  /\ c \in live
  /\ live' = live \ {c}
  /\ gone' = gone \cup {c}
  /\ UNCHANGED phase

Stop ==
  /\ phase = "serving"
  /\ phase' = "draining"
  /\ live' = {}
  /\ gone' = gone \cup live

\* A peer accepted too late to be started is turned away when the server exits.
Exit ==
  /\ phase = "draining"
  /\ phase' = "exited"
  /\ \E late \in SUBSET (Conn \ gone) : gone' = gone \cup late
  /\ UNCHANGED live

\* An exception leaves ios.run(): the server is destroyed with everything it holds.
Fail ==
  /\ MayFail
  /\ phase # "exited"
  /\ phase' = "exited"
  /\ live' = {}
  /\ \E late \in SUBSET (Conn \ (gone \cup live)) : gone' = gone \cup live \cup late

Next == (\E c \in Conn : Open(c) \/ Close(c)) \/ Stop \/ Exit \/ Fail

Spec == Init /\ [][Next]_vars /\ WF_vars(Exit)
=============================================================================
