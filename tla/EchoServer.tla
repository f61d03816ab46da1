----------------------------- MODULE EchoServer -----------------------------
(***************************************************************************)
(* boost_alloc/server_03.cpp and server_11.cpp: echo servers that give     *)
(* asio the memory for their handlers.  Each session has one block; asio   *)
(* asks for memory when an operation starts and gives it back when the     *)
(* operation has completed, before it calls the handler, which starts the  *)
(* next one.                                                               *)
(*                                                                         *)
(* server_03 gives the block back through asio_handler_deallocate.         *)
(* server_11 has no such function: asio's own takes the block, and in_use_ *)
(* stays true.  asio keeps the block for a later operation of its own, or  *)
(* frees what was never allocated, and the process ends; the use of a kept *)
(* block is not modelled.  Sessions of both servers run side by side.      *)
(*                                                                         *)
(* A byte is its number in what the peer sends.  A connection holds Window *)
(* bytes in each direction: whoever writes waits for the other to read.    *)
(***************************************************************************)
EXTENDS Naturals, Sequences

CONSTANTS
  Sessions,     \* the sessions of both servers
  Freeing,      \* those of server_03
  BufferSize,   \* the size of data_
  Window,       \* how many bytes the socket buffers of one direction hold
  MaxBytes      \* bound: the bytes each peer sends

ASSUME EchoAssumption ==
  /\ Freeing \subseteq Sessions /\ BufferSize \in Nat \ {0}
  /\ Window \in Nat \ {0} /\ MaxBytes \in [Sessions -> Nat]

VARIABLES
  doing,     \* the operation each session has outstanding: "read" or "write"; "new", "gone"
  in_use_,   \* handler_allocator::in_use_
  memory,    \* where the outstanding operation lives, and whether it fits the block
  sent,      \* how many bytes the peer has sent
  taken,     \* how many of them the session has read
  data_,     \* what the last read has put into data_
  put,       \* how many bytes of it are written
  echoed,    \* the bytes written to the peer
  fetched,   \* how many of them the peer has read
  uses       \* history, server_11 only: how many operations have lived in the block

stream == <<sent, taken, data_, put, echoed, fetched>>
vars   == <<doing, in_use_, memory, stream, uses>>

Nowhere == [place |-> "none", fits |-> TRUE]

\* No connection is accepted yet.
Init ==
  /\ doing = [s \in Sessions |-> "new"]
  /\ in_use_ = [s \in Sessions |-> FALSE]
  /\ memory = [s \in Sessions |-> Nowhere]
  /\ sent = [s \in Sessions |-> 0]
  /\ taken = [s \in Sessions |-> 0]
  /\ data_ = [s \in Sessions |-> <<>>]
  /\ put = [s \in Sessions |-> 0]
  /\ echoed = [s \in Sessions |-> <<>>]
  /\ fetched = [s \in Sessions |-> 0]
  /\ uses = [s \in Sessions |-> 0]

-----------------------------------------------------------------------------
(* handler_allocator *)

\* Mutant: deallocate compares with the wrong address and frees the block like the heap.
InUseNeverReset(s) == in_use_[s]

\* in_use_ once the memory of the completed operation is given back.
InUseAfter(s) == in_use_[s] /\ ~(memory[s].place = "block" /\ s \in Freeing)

\* The operation of s completes and, as its handler does, the operation op is started.  How
\* large that is depends on the build: it fits the block or it does not.
Restart(s, op) ==
  \E fits \in BOOLEAN :
    LET block == ~InUseAfter(s) /\ fits
    IN  /\ in_use_' = [in_use_ EXCEPT ![s] = InUseAfter(s) \/ block]
        /\ memory' = [memory EXCEPT ![s] = [place |-> IF block THEN "block" ELSE "heap",
                                            fits |-> fits]]
        /\ uses' = [uses EXCEPT ![s] = IF block /\ s \notin Freeing THEN @ + 1 ELSE @]
        /\ doing' = [doing EXCEPT ![s] = op]

\* The operation of s completes and nothing is started: the handler held the last reference
\* to the session.
End(s) ==
  /\ in_use_' = [in_use_ EXCEPT ![s] = InUseAfter(s)]
  /\ memory' = [memory EXCEPT ![s] = Nowhere]
  /\ doing' = [doing EXCEPT ![s] = "gone"]
  /\ UNCHANGED uses

-----------------------------------------------------------------------------
(* The servers *)

\* A connection is accepted: start() reads.  The next accept is pending at once.
Accept(s) ==
  /\ doing[s] = "new"
  /\ Restart(s, "read")
  /\ UNCHANGED stream

\* The accept fails: server_03 drops the session made for it, server_11 has made none.
AcceptFails(s) ==
  /\ doing[s] = "new" /\ s \in Freeing
  /\ doing' = [doing EXCEPT ![s] = "gone"]
  /\ UNCHANGED <<in_use_, memory, uses, stream>>

\* handle_read: what async_read_some got, one byte or more, is written back.
HandleRead(s) ==
  /\ doing[s] = "read"
  /\ \E n \in 1..BufferSize :
       /\ taken[s] + n <= sent[s]
       /\ data_' = [data_ EXCEPT ![s] = [k \in 1..n |-> taken[s] + k]]
       /\ taken' = [taken EXCEPT ![s] = @ + n]
  /\ put' = [put EXCEPT ![s] = 0]
  /\ Restart(s, "write")
  /\ UNCHANGED <<sent, echoed, fetched>>

\* Mutant: async_write_some, which is done when some of the bytes are.
AnyWritten(s) == put'[s] > 0

\* async_write is done when all the bytes are.
AllWritten(s) == put'[s] = Len(data_[s])

\* Some of data_ is written, as far as the connection has room.  asio writes on until all of
\* it is; then handle_write reads.
HandleWrite(s) ==
  /\ doing[s] = "write"
  /\ \E n \in 1..Len(data_[s]) - put[s] :
       /\ Len(echoed[s]) + n - fetched[s] <= Window
       /\ put' = [put EXCEPT ![s] = @ + n]
       /\ echoed' = [echoed EXCEPT ![s] = @ \o SubSeq(data_[s], put[s] + 1, put[s] + n)]
  /\ Restart(s, IF AllWritten(s) THEN "read" ELSE "write")
  /\ UNCHANGED <<sent, taken, data_, fetched>>

\* The read or the write fails: the handler does nothing.
Fails(s) ==
  /\ doing[s] \in {"read", "write"}
  /\ End(s)
  /\ UNCHANGED stream

\* server_11: an operation that lives in the block completes, and asio frees the block.
Aborts(s) ==
  /\ s \notin Freeing /\ memory[s].place = "block"
  /\ doing' = [t \in Sessions |-> IF t \in Freeing THEN doing[t] ELSE "gone"]
  /\ memory' = [t \in Sessions |-> IF t \in Freeing THEN memory[t] ELSE Nowhere]
  /\ UNCHANGED <<in_use_, uses, stream>>

\* The peer sends a byte.
PeerSends(s) ==
  /\ doing[s] \in {"read", "write"} /\ sent[s] < MaxBytes[s] /\ sent[s] - taken[s] < Window
  /\ sent' = [sent EXCEPT ![s] = @ + 1]
  /\ UNCHANGED <<doing, in_use_, memory, taken, data_, put, echoed, fetched, uses>>

\* The peer reads a byte.  It may stop reading for ever.
PeerReads(s) ==
  /\ fetched[s] < Len(echoed[s])
  /\ fetched' = [fetched EXCEPT ![s] = @ + 1]
  /\ UNCHANGED <<doing, in_use_, memory, sent, taken, data_, put, echoed, uses>>

-----------------------------------------------------------------------------
(* Properties *)

\* In server_03 the block is in use exactly while the session's operation lives in it, so
\* it is free again whenever a handler starts the next operation, and the heap is used only
\* for one that does not fit.  In server_11 the block serves one operation and no other
\* (server_03.cpp 28-30, 37-53, 78-87; server_11.cpp 16-23, 46-49).
BlockServes ==
  \A s \in Sessions :
    /\ s \in Freeing => /\ in_use_[s] <=> memory[s].place = "block"
                        /\ memory[s].fits => memory[s].place # "heap"
    /\ s \notin Freeing => uses[s] <= 1

\* Reads and writes take turns on one data_: the peer gets back every byte it has sent
\* once and in order, up to those that data_ still holds to be written
\* (server_03.cpp 103-138, server_11.cpp 70-89).
EchoInOrder ==
  \A s \in Sessions :
    /\ \A k \in 1..Len(echoed[s]) : echoed[s][k] = k
    /\ taken[s] = Len(echoed[s]) + Len(data_[s]) - put[s]
    /\ doing[s] = "read" => taken[s] = Len(echoed[s])
=============================================================================
