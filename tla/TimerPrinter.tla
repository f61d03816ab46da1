---------------------------- MODULE TimerPrinter ----------------------------
(***************************************************************************)
(* boost_tut/tut05.cpp: timers whose handlers count together up to a       *)
(* limit, on an io_service that two threads run.  A handler tests count_,  *)
(* increments it and waits again, through the strand; but the first wait   *)
(* of each timer, started by the constructor, is not wrapped, so the first *)
(* handlers run beside each other and beside wrapped ones.  The increment  *)
(* of a plain int is then a load and a store, in between which the other   *)
(* thread may do the same.                                                 *)
(*                                                                         *)
(* There are as many threads as timers, so a handler never waits for one.  *)
(***************************************************************************)
EXTENDS Integers, FiniteSets

CONSTANTS
  Timers,   \* timer1_ and timer2_
  Limit     \* the count at which a handler stops its timer

ASSUME TimersAssumption == IsFiniteSet(Timers) /\ Timers # {}
ASSUME LimitAssumption == Limit \in Nat \ {0}

VARIABLES
  pc,       \* where each timer's handler is; "waiting" while its timer runs
  wrapped,  \* the wait was started with strand_.wrap
  reg,      \* the value of count_ the increment has loaded
  count_,   \* printer::count_
  lines,    \* history: how many lines the handlers have printed
  final     \* what ~printer prints, -1 before

vars == <<pc, wrapped, reg, count_, lines, final>>

\* The constructor has started both waits; both threads are in run().
Init ==
  /\ pc = [t \in Timers |-> "waiting"]
  /\ wrapped = [t \in Timers |-> FALSE]
  /\ reg = [t \in Timers |-> 0]
  /\ count_ = 0
  /\ lines = 0
  /\ final = -1

\* Mutant: handlers are started without the strand.
NoStrand == TRUE

\* asio: the strand runs one of its handlers at a time.
StrandFree == \A t \in Timers : wrapped[t] => pc[t] \in {"waiting", "done"}

\* Mutant: the count is incremented before it is tested.
CountsOnEarly == count_ + 1 < Limit

CountsOn == count_ < Limit

\* The timer expires and its handler tests count_; at the limit it does not wait again.
Test(t) ==
  /\ pc[t] = "waiting"
  /\ wrapped[t] => StrandFree
  /\ pc' = [pc EXCEPT ![t] = IF CountsOn THEN "load" ELSE "done"]
  /\ UNCHANGED <<wrapped, reg, count_, lines, final>>

\* The handler prints a line, and ++count_ reads ...
Load(t) ==
  /\ pc[t] = "load"
  /\ reg' = [reg EXCEPT ![t] = count_]
  /\ pc' = [pc EXCEPT ![t] = "store"]
  /\ lines' = lines + 1
  /\ UNCHANGED <<wrapped, count_, final>>

Incremented(t) == reg[t] + 1

\* ... and writes; then the timer is set again and waited for through the strand.
Store(t) ==
  /\ pc[t] = "store"
  /\ count_' = Incremented(t)
  /\ wrapped' = [wrapped EXCEPT ![t] = TRUE]
  /\ pc' = [pc EXCEPT ![t] = "waiting"]
  /\ UNCHANGED <<reg, lines, final>>

\* Nothing is left to wait for: run() returns in both threads, main joins, p is destroyed.
Finish ==
  /\ \A t \in Timers : pc[t] = "done"
  /\ final = -1
  /\ final' = count_
  /\ UNCHANGED <<pc, wrapped, reg, count_, lines>>

Exited == final # -1 /\ UNCHANGED vars

Handler(t) == Test(t) \/ Load(t) \/ Store(t)

Next == (\E t \in Timers : Handler(t)) \/ Finish \/ Exited

\* Timers expire, and a thread that runs a handler goes on.
Spec == Init /\ [][Next]_vars /\ (\A t \in Timers : WF_vars(Handler(t))) /\ WF_vars(Finish)

-----------------------------------------------------------------------------
(* Properties *)

\* However often a stale store takes the count back, both timers stop and run() returns;
\* the limit has then been reached, and passed by at most one for each handler that was in
\* between its test and its increment with another (tut05.cpp 13-14, 19-34, 46-47).
EndsAtLimit == <>(final \in Limit..Limit + Cardinality(Timers) - 1)

\* Only the first handlers can take the count back, and each only once, because later ones
\* exclude each other: the handlers together print at most Limit lines for each timer.
\* Without the strand they print more (tut05.cpp 13-14, 24, 32).
OutputBounded == lines <= Cardinality(Timers) * Limit
=============================================================================
