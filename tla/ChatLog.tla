------------------------------ MODULE ChatLog ------------------------------
(***************************************************************************)
(* What the chat room promises its sessions: there is one log of messages, *)
(* a session that joins is shown the last MaxRecent messages and then every *)
(* later one, in the order of the log, with none skipped or repeated, for  *)
(* as long as it stays.                                                    *)
(***************************************************************************)
EXTENDS Naturals

CONSTANTS Session, MaxRecent

VARIABLES
  log,      \* the number of messages said in the room
  next,     \* the number of the message each session is shown next, 0 before it joins
  members   \* the sessions in the room

vars == <<log, next, members>>

Init == log = 0 /\ next = [s \in Session |-> 0] /\ members = {}

Say == log' = log + 1 /\ UNCHANGED <<next, members>>

Join(s) ==
  /\ next[s] = 0
  /\ next' = [next EXCEPT ![s] = IF log > MaxRecent THEN log - MaxRecent + 1 ELSE 1]
  /\ members' = members \cup {s}
  /\ UNCHANGED log

Show(s) ==
  /\ next[s] # 0 /\ next[s] <= log
  /\ next' = [next EXCEPT ![s] = next[s] + 1]
  /\ UNCHANGED <<log, members>>

Leave(s) == members' = members \ {s} /\ UNCHANGED <<log, next>>

Next == Say \/ \E s \in Session : Join(s) \/ Show(s) \/ Leave(s)

Spec == Init /\ [][Next]_vars
=============================================================================
