------------------------ MODULE BoostServersProofs ------------------------
(***************************************************************************)
(* Proofs about the echo servers with their client, and about the daytime  *)
(* servers with theirs.  The two have nothing in common but that they are  *)
(* small; the theorems about the first are about EchoClient's ClientSpec,  *)
(* those about the second about DaytimeClients' Spec.                      *)
(*                                                                         *)
(* Echo, for any sessions, buffer size, lines and number of bytes: what    *)
(* the handler's block is used for, and what the peer gets back.           *)
(*                                                                         *)
(* Daytime, for any number of clients of each kind: who is answered, and   *)
(* when a client's buffers are no longer used.                             *)
(***************************************************************************)
EXTENDS EchoClient, DaytimeClients, SequenceTheorems, TLAPS

-----------------------------------------------------------------------------
(* Echo: the inductive invariant *)

\* Where an operation may live.
Memory == [place : {"none", "block", "heap"}, fits : BOOLEAN]

\* The variables keep their types.
EchoType ==
  /\ doing \in [Sessions -> {"new", "read", "write", "gone"}]
  /\ in_use_ \in [Sessions -> BOOLEAN]
  /\ memory \in [Sessions -> Memory]
  /\ sent \in [Sessions -> Nat]
  /\ taken \in [Sessions -> Nat]
  /\ data_ \in [Sessions -> Seq(Nat)]
  /\ put \in [Sessions -> Nat]
  /\ echoed \in [Sessions -> Seq(Nat)]
  /\ uses \in [Sessions -> Nat]
  /\ fetched \in [Sessions -> Nat]
  /\ client \in [Clients -> {"getline", "write_some", "read_some", "ended"}]
  /\ rest \in [Clients -> Nat]
  /\ wrote \in [Clients -> BOOLEAN]

\* server_03's block is free unless the outstanding operation is in it.  server_11's is taken
\* for good by the first operation that fits.
BlockInv(s) ==
  /\ s \in Freeing => /\ in_use_[s] <=> memory[s].place = "block"
                      /\ memory[s].fits => memory[s].place # "heap"
  /\ s \notin Freeing => uses[s] = IF in_use_[s] THEN 1 ELSE 0

\* data_ holds the last bytes taken, put of which have been echoed; all of them before the
\* next read.
DataInv(s) ==
  /\ put[s] <= Len(data_[s])
  /\ taken[s] = Len(echoed[s]) + (Len(data_[s]) - put[s])
  /\ doing[s] \in {"new", "read"} => put[s] = Len(data_[s])
  /\ \A k \in 1..Len(data_[s]) : data_[s][k] = Len(echoed[s]) - put[s] + k
  /\ \A k \in 1..Len(echoed[s]) : echoed[s][k] = k
  /\ taken[s] <= sent[s]

EchoInv == EchoType /\ \A s \in Sessions : BlockInv(s) /\ DataInv(s)

-----------------------------------------------------------------------------
LEMMA EchoInit == ClientInit => EchoInv
<1> SUFFICES ASSUME ClientInit PROVE EchoInv
  OBVIOUS
<1>1. <<>> \in Seq(Nat) /\ Len(<<>>) = 0
  OBVIOUS
<1>2. EchoType
  BY <1>1 DEF ClientInit, Init, EchoType, Memory, Nowhere
<1>3. ASSUME NEW s \in Sessions PROVE BlockInv(s) /\ DataInv(s)
  <2>1. BlockInv(s)
    BY DEF ClientInit, Init, BlockInv, Nowhere
  <2>2. Len(data_[s]) = 0 /\ Len(echoed[s]) = 0 /\ put[s] = 0 /\ taken[s] = 0 /\ sent[s] = 0
    BY <1>1 DEF ClientInit, Init
  <2> QED
    BY <2>1, <2>2 DEF DataInv
<1> QED
  BY <1>2, <1>3 DEF EchoInv

\* The allocator: whatever operation is started next, its memory is accounted for.
LEMMA RestartMemory ==
  ASSUME EchoInv, NEW s \in Sessions, NEW o \in {"read", "write"}, Restart(s, o)
  PROVE  /\ in_use_' \in [Sessions -> BOOLEAN] /\ memory' \in [Sessions -> Memory]
         /\ uses' \in [Sessions -> Nat] /\ doing' \in [Sessions -> {"new", "read", "write", "gone"}]
         /\ doing'[s] = o /\ \A t \in Sessions \ {s} : doing'[t] = doing[t]
         /\ \A t \in Sessions : BlockInv(t)'
<1>1. PICK fits \in BOOLEAN :
        LET block == ~InUseAfter(s) /\ fits
        IN  /\ in_use_' = [in_use_ EXCEPT ![s] = InUseAfter(s) \/ block]
            /\ memory' = [memory EXCEPT ![s] = [place |-> IF block THEN "block" ELSE "heap",
                                                fits |-> fits]]
            /\ uses' = [uses EXCEPT ![s] = IF block /\ s \notin Freeing THEN @ + 1 ELSE @]
            /\ doing' = [doing EXCEPT ![s] = o]
  BY DEF Restart
<1>2. /\ in_use_' \in [Sessions -> BOOLEAN] /\ memory' \in [Sessions -> Memory]
      /\ uses' \in [Sessions -> Nat] /\ doing' \in [Sessions -> {"new", "read", "write", "gone"}]
      /\ doing'[s] = o /\ \A t \in Sessions \ {s} : doing'[t] = doing[t]
  BY <1>1 DEF EchoInv, EchoType, Memory, InUseAfter
<1>3. ASSUME NEW t \in Sessions PROVE BlockInv(t)'
  BY <1>1 DEF EchoInv, EchoType, BlockInv, Memory, InUseAfter
<1> QED
  BY <1>2, <1>3

\* Bytes numbered on from those in e go to the end of e.
LEMMA EchoOn ==
  ASSUME NEW d \in Seq(Nat), NEW e \in Seq(Nat), NEW p \in Nat, NEW n \in Nat,
         p + n <= Len(d),
         \A k \in 1..Len(d) : d[k] = Len(e) - p + k,
         \A k \in 1..Len(e) : e[k] = k
  PROVE  LET f == e \o SubSeq(d, p + 1, p + n)
         IN  f \in Seq(Nat) /\ Len(f) = Len(e) + n /\ \A k \in 1..Len(f) : f[k] = k
<1> DEFINE out == SubSeq(d, p + 1, p + n)
           f   == e \o out
<1>1. Len(d) \in Nat /\ Len(e) \in Nat
  OBVIOUS
<1>2. \A k \in (p + 1)..(p + n) : k \in 1..Len(d) /\ d[k] \in Nat
  BY <1>1
<1>3. /\ out \in Seq(Nat)
      /\ Len(out) = IF p + 1 <= p + n THEN (p + n) - (p + 1) + 1 ELSE 0
      /\ \A k \in 1..((p + n) - (p + 1) + 1) : out[k] = d[(p + 1) + k - 1]
  BY <1>2, SubSeqProperties
<1> HIDE DEF out
<1>4. Len(out) = n /\ (p + n) - (p + 1) + 1 = n
  BY <1>3
<1>5. /\ f \in Seq(Nat) /\ Len(f) = Len(e) + Len(out)
      /\ \A k \in 1..Len(e) + Len(out) :
            f[k] = IF k <= Len(e) THEN e[k] ELSE out[k - Len(e)]
  BY <1>3, ConcatProperties
<1>6. ASSUME NEW k \in 1..Len(f) PROVE f[k] = k
  <2>1. CASE k <= Len(e)
    BY <1>1, <1>5, <1>6, <2>1
  <2>2. CASE ~(k <= Len(e))
    <3>1. k \in Nat /\ k - Len(e) \in 1..n
      BY <1>1, <1>4, <1>5, <1>6, <2>2
    <3>2. f[k] = out[k - Len(e)]
      BY <1>5, <1>6, <2>2
    <3>3. out[k - Len(e)] = d[(p + 1) + (k - Len(e)) - 1]
      BY <1>3, <1>4, <3>1
    <3>4. (p + 1) + (k - Len(e)) - 1 \in 1..Len(d)
      BY <1>1, <3>1
    <3>5. d[(p + 1) + (k - Len(e)) - 1] = Len(e) - p + ((p + 1) + (k - Len(e)) - 1)
      BY <3>4
    <3> QED
      BY <1>1, <3>1, <3>2, <3>3, <3>5
  <2> QED
    BY <2>1, <2>2
<1> HIDE DEF f
<1>7. f \in Seq(Nat) /\ Len(f) = Len(e) + n /\ \A k \in 1..Len(f) : f[k] = k
  BY <1>4, <1>5, <1>6
<1> QED
  BY <1>7 DEF f, out

\* handle_read takes the next bytes into an empty data_.
LEMMA HandleReadStep == ASSUME EchoInv, NEW s \in Sessions, Serve(s), HandleRead(s) PROVE EchoInv'
<1>1. PICK n \in 1..BufferSize :
        /\ taken[s] + n <= sent[s]
        /\ data_' = [data_ EXCEPT ![s] = [k \in 1..n |-> taken[s] + k]]
        /\ taken' = [taken EXCEPT ![s] = @ + n]
  BY DEF HandleRead
<1>2. n \in Nat /\ taken[s] \in Nat /\ sent[s] \in Nat
  BY EchoAssumption DEF EchoInv, EchoType
<1>3. [k \in 1..n |-> taken[s] + k] \in Seq(Nat) /\ Len([k \in 1..n |-> taken[s] + k]) = n
  BY <1>2
<1>4. /\ put' = [put EXCEPT ![s] = 0] /\ Restart(s, "write")
      /\ UNCHANGED <<sent, echoed, fetched, client, rest, wrote>>
  BY DEF HandleRead, Serve, clientVars
<1>5. EchoType'
  <2>1. /\ in_use_' \in [Sessions -> BOOLEAN] /\ memory' \in [Sessions -> Memory]
        /\ uses' \in [Sessions -> Nat] /\ doing' \in [Sessions -> {"new", "read", "write", "gone"}]
    BY <1>4, RestartMemory
  <2>2. data_' \in [Sessions -> Seq(Nat)]
    BY <1>1, <1>3 DEF EchoInv, EchoType
  <2>3. taken' \in [Sessions -> Nat] /\ put' \in [Sessions -> Nat]
    BY <1>1, <1>2, <1>4 DEF EchoInv, EchoType
  <2> QED
    BY <1>4, <2>1, <2>2, <2>3 DEF EchoInv, EchoType
<1>6. DataInv(s)'
  <2>1. /\ data_'[s] = [k \in 1..n |-> taken[s] + k] /\ Len(data_'[s]) = n /\ put'[s] = 0
        /\ taken'[s] = taken[s] + n /\ echoed'[s] = echoed[s] /\ sent'[s] = sent[s]
        /\ doing'[s] = "write"
    BY <1>1, <1>3, <1>4, RestartMemory DEF EchoInv, EchoType
  <2>2. taken[s] = Len(echoed[s])
    BY DEF EchoInv, EchoType, DataInv, HandleRead
  <2>3. \A k \in 1..n : data_'[s][k] = Len(echoed[s]) - 0 + k
    BY <1>2, <2>1, <2>2
  <2>4. taken[s] + n = Len(echoed[s]) + (n - 0) /\ 0 <= n
    BY <1>2, <2>2
  <2>5. \A k \in 1..Len(echoed[s]) : echoed[s][k] = k
    BY DEF EchoInv, DataInv
  <2> QED
    BY ONLY <1>1, <2>1, <2>3, <2>4, <2>5 DEF DataInv
<1>7. ASSUME NEW t \in Sessions \ {s} PROVE DataInv(t)'
  <2>1. /\ data_'[t] = data_[t] /\ put'[t] = put[t] /\ taken'[t] = taken[t]
        /\ echoed'[t] = echoed[t] /\ sent'[t] = sent[t] /\ doing'[t] = doing[t]
    BY <1>1, <1>4, RestartMemory DEF EchoInv, EchoType
  <2> QED
    BY <2>1 DEF EchoInv, DataInv
<1> QED
  BY <1>4, <1>5, <1>6, <1>7, RestartMemory DEF EchoInv

\* A write that goes on or ends with n more bytes echoes the next n.
LEMMA HandleWriteStep == ASSUME EchoInv, NEW s \in Sessions, Serve(s), HandleWrite(s) PROVE EchoInv'
<1>1. PICK n \in 1..Len(data_[s]) - put[s] :
        /\ put' = [put EXCEPT ![s] = @ + n]
        /\ echoed' = [echoed EXCEPT ![s] = @ \o SubSeq(data_[s], put[s] + 1, put[s] + n)]
  BY DEF HandleWrite
<1> DEFINE f == echoed[s] \o SubSeq(data_[s], put[s] + 1, put[s] + n)
           o == IF AllWritten(s) THEN "read" ELSE "write"
<1>2. /\ data_[s] \in Seq(Nat) /\ Len(data_[s]) \in Nat /\ put[s] \in Nat
      /\ echoed[s] \in Seq(Nat) /\ Len(echoed[s]) \in Nat /\ taken[s] \in Nat
  BY DEF EchoInv, EchoType
<1>3. n \in Nat /\ put[s] + n <= Len(data_[s])
  BY <1>2
<1>4. f \in Seq(Nat) /\ Len(f) = Len(echoed[s]) + n /\ \A k \in 1..Len(f) : f[k] = k
  BY <1>2, <1>3, EchoOn DEF EchoInv, DataInv
<1>5. /\ Restart(s, o) /\ o \in {"read", "write"}
      /\ UNCHANGED <<sent, taken, data_, fetched, client, rest, wrote>>
  BY DEF HandleWrite, Serve, clientVars
<1>6. echoed' = [echoed EXCEPT ![s] = f]
  BY <1>1
<1> HIDE DEF f
<1>7. EchoType'
  <2>1. /\ in_use_' \in [Sessions -> BOOLEAN] /\ memory' \in [Sessions -> Memory]
        /\ uses' \in [Sessions -> Nat] /\ doing' \in [Sessions -> {"new", "read", "write", "gone"}]
    BY <1>5, RestartMemory
  <2>2. echoed' \in [Sessions -> Seq(Nat)]
    BY <1>4, <1>6 DEF EchoInv, EchoType
  <2>3. put' \in [Sessions -> Nat]
    <3>1. put' = [put EXCEPT ![s] = put[s] + n] /\ put[s] + n \in Nat
      BY <1>1, <1>2, <1>3
    <3> QED
      BY <3>1 DEF EchoInv, EchoType
  <2> QED
    BY <1>5, <2>1, <2>2, <2>3 DEF EchoInv, EchoType
<1>8. /\ echoed'[s] = f /\ put'[s] = put[s] + n
      /\ doing'[s] = o /\ data_'[s] = data_[s] /\ taken'[s] = taken[s] /\ sent'[s] = sent[s]
  BY <1>1, <1>5, <1>6, RestartMemory DEF EchoInv, EchoType
<1>9. DataInv(s)'
  <2>1. doing'[s] \in {"new", "read"} => put'[s] = Len(data_'[s])
    BY <1>8 DEF AllWritten
  <2>2. /\ taken[s] = Len(echoed[s]) + (Len(data_[s]) - put[s]) /\ taken[s] <= sent[s]
        /\ \A k \in 1..Len(data_[s]) : data_[s][k] = Len(echoed[s]) - put[s] + k
    BY DEF EchoInv, DataInv
  <2>3. /\ Len(f) - (put[s] + n) = Len(echoed[s]) - put[s]
        /\ taken[s] = Len(f) + (Len(data_[s]) - (put[s] + n))
    <3>1. \A e, d, p, m \in Nat : /\ (e + m) - (p + m) = e - p
                                 /\ e + (d - p) = (e + m) + (d - (p + m))
      OBVIOUS
    <3>2. /\ (Len(echoed[s]) + n) - (put[s] + n) = Len(echoed[s]) - put[s]
          /\ Len(echoed[s]) + (Len(data_[s]) - put[s])
               = (Len(echoed[s]) + n) + (Len(data_[s]) - (put[s] + n))
      BY ONLY <1>2, <1>3, <3>1
    <3> QED
      BY ONLY <1>4, <2>2, <3>2
  <2> QED
    BY <1>3, <1>4, <1>8, <2>1, <2>2, <2>3 DEF DataInv
<1>10. ASSUME NEW t \in Sessions \ {s} PROVE DataInv(t)'
  <2>1. /\ data_'[t] = data_[t] /\ put'[t] = put[t] /\ taken'[t] = taken[t]
        /\ echoed'[t] = echoed[t] /\ sent'[t] = sent[t] /\ doing'[t] = doing[t]
    BY <1>1, <1>5, <1>6, RestartMemory, ZenonT(60) DEF EchoInv, EchoType
  <2> QED
    BY <2>1 DEF EchoInv, DataInv
<1> QED
  BY <1>5, <1>7, <1>9, <1>10, RestartMemory DEF EchoInv

\* The steps that leave the bytes alone, and a read that is the session's first or goes on.
LEMMA DataKept ==
  ASSUME EchoInv, NEW s \in Sessions, UNCHANGED stream,
         doing'[s] \in {"new", "read"} => doing[s] \in {"new", "read"}
  PROVE  DataInv(s)'
BY DEF EchoInv, DataInv, stream

\* The peer sends n more bytes.
LEMMA SentOn ==
  ASSUME EchoInv, EchoType', NEW s \in Sessions, NEW n \in Nat, sent' = [sent EXCEPT ![s] = @ + n],
         UNCHANGED <<doing, in_use_, memory, taken, data_, put, echoed, fetched, uses>>
  PROVE  EchoInv'
<1>1. ASSUME NEW t \in Sessions PROVE BlockInv(t)' /\ DataInv(t)'
  <2>1. sent'[t] >= sent[t] /\ sent[t] \in Nat /\ sent'[t] \in Nat /\ taken[t] \in Nat
    BY SMTT(30) DEF EchoInv, EchoType
  <2> QED
    BY <2>1 DEF EchoInv, BlockInv, DataInv
<1> QED
  BY <1>1 DEF EchoInv

LEMMA OthersStep == ASSUME EchoInv, NEW s \in Sessions, Others(s) PROVE EchoInv'
<1>0. EchoType /\ UNCHANGED <<client, rest, wrote>>
  BY DEF EchoInv, Others, clientVars
<1>1. CASE Accept(s)
  <2>1. Restart(s, "read") /\ UNCHANGED stream /\ doing[s] = "new"
    BY <1>1 DEF Accept
  <2>2. EchoType'
    BY <1>0, <2>1, RestartMemory DEF EchoType, stream
  <2>3. ASSUME NEW t \in Sessions PROVE DataInv(t)'
    BY <2>1, RestartMemory, DataKept
  <2> QED
    BY <2>1, <2>2, <2>3, RestartMemory DEF EchoInv
<1>2. CASE AcceptFails(s)
  <2>1. EchoType' /\ UNCHANGED stream /\ \A t \in Sessions : doing'[t] = doing[t] \/ doing'[t] = "gone"
    BY <1>0, <1>2 DEF AcceptFails, EchoType, stream
  <2>2. ASSUME NEW t \in Sessions PROVE BlockInv(t)' /\ DataInv(t)'
    BY <1>2, <2>1, DataKept DEF AcceptFails, EchoInv, BlockInv
  <2> QED
    BY <2>1, <2>2 DEF EchoInv
<1>3. CASE Fails(s)
  <2>1. EchoType' /\ UNCHANGED stream /\ \A t \in Sessions : doing'[t] = doing[t] \/ doing'[t] = "gone"
    BY <1>0, <1>3 DEF Fails, End, InUseAfter, Nowhere, Memory, EchoType, stream
  <2>2. ASSUME NEW t \in Sessions PROVE BlockInv(t)'
    BY <1>0, <1>3 DEF Fails, End, InUseAfter, Nowhere, EchoInv, EchoType, BlockInv
  <2>3. ASSUME NEW t \in Sessions PROVE DataInv(t)'
    BY <2>1, DataKept
  <2> QED
    BY <2>1, <2>2, <2>3 DEF EchoInv
<1>4. CASE Aborts(s)
  <2>1. EchoType' /\ UNCHANGED stream /\ \A t \in Sessions : doing'[t] = doing[t] \/ doing'[t] = "gone"
    BY <1>0, <1>4 DEF Aborts, Nowhere, Memory, EchoType, stream
  <2>2. ASSUME NEW t \in Sessions PROVE BlockInv(t)'
    BY <1>0, <1>4 DEF Aborts, EchoInv, EchoType, BlockInv
  <2>3. ASSUME NEW t \in Sessions PROVE DataInv(t)'
    BY <2>1, DataKept
  <2> QED
    BY <2>1, <2>2, <2>3 DEF EchoInv
<1>5. CASE PeerSends(s)
  <2>1. /\ sent' = [sent EXCEPT ![s] = sent[s] + 1]
        /\ UNCHANGED <<doing, in_use_, memory, taken, data_, put, echoed, fetched, uses>>
    BY <1>5 DEF PeerSends
  <2>2. EchoType'
    BY <1>0, <2>1, SMTT(30) DEF EchoType
  <2> QED
    BY <1>0, <2>1, <2>2, SentOn
<1>6. CASE PeerReads(s)
  <2>1. /\ fetched' = [fetched EXCEPT ![s] = fetched[s] + 1]
        /\ UNCHANGED <<doing, in_use_, memory, sent, taken, data_, put, echoed, uses>>
    BY <1>6 DEF PeerReads
  <2>2. EchoType'
    BY <1>0, <2>1, SMTT(30) DEF EchoType
  <2> QED
    BY <2>1, <2>2 DEF EchoInv, BlockInv, DataInv
<1> QED
  BY <1>1, <1>2, <1>3, <1>4, <1>5, <1>6 DEF Others

\* The client only adds to what was sent, and takes from what was echoed.
LEMMA ClientStep ==
  ASSUME EchoInv, NEW s \in Clients,
         GetLine(s) \/ WriteSome(s) \/ WriteFails(s) \/ ReadSome(s) \/ ReadEnds(s)
  PROVE  EchoInv'
<1>0. EchoType /\ s \in Sessions
  BY EchoClientAssumption DEF EchoInv
<1>1. CASE GetLine(s)
  <2>1. PICK n \in 0..MaxLine :
          /\ rest' = [rest EXCEPT ![s] = n]
          /\ client' = [client EXCEPT ![s] = IF n = 0 THEN "read_some" ELSE "write_some"]
    BY <1>1 DEF GetLine
  <2>2. n \in Nat /\ wrote' = [wrote EXCEPT ![s] = FALSE] /\ UNCHANGED vars
    BY <1>1 DEF GetLine
  <2>3. EchoType'
    BY ONLY <1>0, <2>1, <2>2 DEF EchoType, vars, stream
  <2> QED
    BY <2>2, <2>3 DEF EchoInv, BlockInv, DataInv, vars, stream
<1>2. CASE WriteSome(s)
  <2>1. PICK n \in 1..rest[s], returns \in BOOLEAN :
          /\ sent' = [sent EXCEPT ![s] = @ + n]
          /\ wrote' = [wrote EXCEPT ![s] = TRUE]
          /\ rest' = [rest EXCEPT ![s] = IF returns THEN 0 ELSE @ - n]
          /\ client' = [client EXCEPT ![s] = IF returns THEN "read_some" ELSE @]
    BY <1>2 DEF WriteSome
  <2>2. UNCHANGED <<doing, in_use_, memory, taken, data_, put, echoed, fetched, uses>>
    BY <1>2 DEF WriteSome
  <2>3. n \in Nat /\ sent[s] + n \in Nat /\ rest[s] - n \in Nat
    BY <1>0 DEF EchoType
  <2>4. EchoType'
    BY ONLY <1>0, <2>1, <2>2, <2>3 DEF EchoType
  <2> QED
    BY <1>0, <2>1, <2>2, <2>3, <2>4, SentOn
<1>3. CASE ReadSome(s)
  <2>1. PICK n \in 1..Len(echoed[s]) - fetched[s] : fetched' = [fetched EXCEPT ![s] = @ + n]
    BY <1>3 DEF ReadSome
  <2>2. /\ UNCHANGED <<rest, wrote, doing, in_use_, memory, sent, taken, data_, put, echoed, uses>>
        /\ client' = [client EXCEPT ![s] = "getline"]
    BY <1>3 DEF ReadSome
  <2>3. n \in Nat /\ fetched[s] + n \in Nat
    BY <1>0, <2>1, SMTT(30) DEF EchoType
  <2>4. EchoType'
    BY ONLY <1>0, <2>1, <2>2, <2>3 DEF EchoType
  <2> QED
    BY <2>2, <2>4 DEF EchoInv, BlockInv, DataInv
<1>4. CASE WriteFails(s) \/ ReadEnds(s)
  <2>1. PICK at \in {"read_some", "ended"} : client' = [client EXCEPT ![s] = at]
    BY <1>4 DEF WriteFails, ReadEnds
  <2>2. rest' \in [Clients -> Nat] /\ UNCHANGED <<wrote, vars>>
    <3>1. rest' = rest \/ rest' = [rest EXCEPT ![s] = 0]
      BY <1>4 DEF WriteFails, ReadEnds
    <3>2. UNCHANGED <<wrote, vars>>
      BY <1>4 DEF WriteFails, ReadEnds
    <3>3. rest \in [Clients -> Nat]
      BY <1>0 DEF EchoType
    <3>4. [rest EXCEPT ![s] = 0] \in [Clients -> Nat]
      BY <3>3
    <3> QED
      BY <3>1, <3>2, <3>3, <3>4
  <2>3. client' \in [Clients -> {"getline", "write_some", "read_some", "ended"}]
    BY ONLY <1>0, <2>1 DEF EchoType
  <2>4. EchoType'
    BY ONLY <1>0, <2>2, <2>3 DEF EchoType, vars, stream
  <2> QED
    BY <1>4, <2>2, <2>4 DEF WriteFails, ReadEnds, EchoInv, BlockInv, DataInv, vars, stream
<1> QED
  BY <1>1, <1>2, <1>3, <1>4

LEMMA EchoNext == EchoInv /\ [ClientNext]_<<vars, clientVars>> => EchoInv'
<1> SUFFICES ASSUME EchoInv, [ClientNext]_<<vars, clientVars>> PROVE EchoInv'
  OBVIOUS
<1>1. ASSUME NEW s \in Sessions, Serve(s) PROVE EchoInv'
  BY <1>1, HandleReadStep, HandleWriteStep DEF Serve
<1>2. CASE UNCHANGED <<vars, clientVars>>
  BY <1>2 DEF vars, stream, clientVars, EchoInv, EchoType, BlockInv, DataInv
<1> QED
  BY <1>1, <1>2, OthersStep, ClientStep DEF ClientNext

LEMMA EchoInvariant == ClientSpec => []EchoInv
BY EchoInit, EchoNext, PTL DEF ClientSpec

-----------------------------------------------------------------------------
\* The variables keep their types.
THEOREM EchoTypeCorrect == ClientSpec => []EchoType
BY EchoInvariant, PTL DEF EchoInv

\* In server_03 the block is in use exactly while the session's operation lives in it and the
\* heap serves only what does not fit; in server_11 the block is granted to one operation, and
\* to no other after it (server_03.cpp 37-53, server_11.cpp 46-49).
THEOREM BlockAlwaysServes == ClientSpec => []BlockServes
<1>1. ASSUME EchoInv, NEW s \in Sessions
      PROVE  /\ s \in Freeing => /\ in_use_[s] <=> memory[s].place = "block"
                                 /\ memory[s].fits => memory[s].place # "heap"
             /\ s \notin Freeing => uses[s] <= 1
  BY <1>1 DEF EchoInv, BlockInv
<1>2. EchoInv => BlockServes
  BY <1>1 DEF BlockServes
<1> QED
  BY <1>2, EchoInvariant, PTL

\* The peer gets back what it has sent, in order, whatever the reads and writes cut.
THEOREM EchoIsInOrder == ClientSpec => []EchoInOrder
<1>1. ASSUME EchoInv, NEW s \in Sessions
      PROVE  /\ \A k \in 1..Len(echoed[s]) : echoed[s][k] = k
             /\ taken[s] = Len(echoed[s]) + Len(data_[s]) - put[s]
             /\ doing[s] = "read" => taken[s] = Len(echoed[s])
  <2>1. /\ Len(echoed[s]) \in Nat /\ Len(data_[s]) \in Nat /\ put[s] \in Nat /\ taken[s] \in Nat
        /\ DataInv(s)
    BY <1>1 DEF EchoInv, EchoType
  <2> QED
    BY ONLY <2>1 DEF DataInv
<1>2. EchoInv => EchoInOrder
  BY <1>1 DEF EchoInOrder
<1> QED
  BY <1>2, EchoInvariant, PTL

\* Nothing is echoed that the peer has not sent (server_03.cpp 113-138).
THEOREM EchoedWasSent == ClientSpec => [](\A s \in Sessions : Len(echoed[s]) <= sent[s])
<1>1. ASSUME EchoInv, NEW s \in Sessions PROVE Len(echoed[s]) <= sent[s]
  <2>1. /\ Len(echoed[s]) \in Nat /\ Len(data_[s]) \in Nat /\ put[s] \in Nat /\ taken[s] \in Nat
        /\ sent[s] \in Nat /\ DataInv(s)
    BY <1>1 DEF EchoInv, EchoType
  <2> QED
    BY ONLY <2>1 DEF DataInv
<1>2. EchoInv => \A s \in Sessions : Len(echoed[s]) <= sent[s]
  BY <1>1
<1> QED
  BY <1>2, EchoInvariant, PTL

-----------------------------------------------------------------------------
(* Daytime: the inductive invariant *)

DaytimeType ==
  /\ accepting \in BOOLEAN /\ running \in BOOLEAN
  /\ caller \in [Callers -> {"away", "queued", "writing", "failed", "served"}]
  /\ queue \in Seq(Askers)
  /\ receive \in {"pending", "ready", "failed", "ended"}
  /\ source \in Askers \cup {Nobody}
  /\ remote_endpoint \in Askers \cup {Nobody}
  /\ sends \in SUBSET [to : Askers, answers : Askers]
  /\ reply \in [Askers -> {"none", "sent", "here", "lost"}]
  /\ pc \in [Askers -> {"socket", "resolve", "send", "receive", "join", "done", "aborted"}]
  /\ op \in [Askers -> {"none", "resolve", "send", "receive"}]
  /\ result \in [Askers -> {"pending", "ok", "error"}]
  /\ ioThread \in [Askers -> BOOLEAN]
  /\ lost \in SUBSET Askers

\* While a datagram waits to be handled, remote_endpoint is its sender, whatever earlier
\* answers are still under way.
EndpointInv ==
  /\ receive = "ready" => remote_endpoint = source /\ source \in Askers
  /\ \A x \in sends : x.to = x.answers

\* A datagram of a is in the socket, or handled, or answered.
Requested(a) ==
  \/ \E k \in 1..Len(queue) : queue[k] = a
  \/ receive = "ready" /\ source = a
  \/ \E x \in sends : x.to = a
  \/ reply[a] # "none"

\* The one send of a client has completed.
Asked(a) == /\ pc[a] # "socket"
            /\ a \in Futures => op[a] = "receive" \/ (op[a] = "send" /\ result[a] = "ok")

\* A datagram is under way, or was lost on the way, only for a client whose send has completed;
\* not both.
AskedInv == \A a \in Askers : /\ a \in lost => Asked(a)
                              /\ Requested(a) => a \notin lost /\ Asked(a)

\* How far get_daytime is, and the operation that goes with it.
ProgressInv ==
  \A a \in Futures :
    /\ pc[a] = "socket" => op[a] = "resolve"
    /\ pc[a] \in {"resolve", "send", "receive"} => op[a] = pc[a]
    /\ pc[a] \in {"join", "done"} => result[a] = "ok"
    /\ pc[a] = "aborted" => op[a] = "resolve" \/ result[a] = "error"

DaytimeInv == DaytimeType /\ EndpointInv /\ AskedInv /\ ProgressInv

-----------------------------------------------------------------------------
(* Daytime: the steps of the server and of the network *)

LEMMA DaytimeInit == ClientsInit => DaytimeInv
<1> SUFFICES ASSUME ClientsInit PROVE DaytimeInv
  OBVIOUS
<1>1. DaytimeType
  BY DEF ClientsInit, ServerInit, DaytimeType
<1>2. EndpointInv
  BY DEF ClientsInit, ServerInit, EndpointInv
<1>3. \A a \in Askers : ~Requested(a)
  <2>1. 1..Len(queue) = {} /\ receive # "ready" /\ sends = {} /\ \A a \in Askers : reply[a] = "none"
    BY DEF ClientsInit, ServerInit
  <2>2. QED BY <2>1 DEF Requested
<1>4. AskedInv
  BY <1>3 DEF AskedInv, ClientsInit
<1>5. ProgressInv
  BY ClientsAssumption DEF ClientsInit, ProgressInv
<1>6. QED BY <1>1, <1>2, <1>4, <1>5 DEF DaytimeInv

\* A step that leaves the clients alone and brings no datagram of a new client.
LEMMA ServerFrame ==
  ASSUME AskedInv, ProgressInv, UNCHANGED clientsVars,
         \A a \in Askers : Requested(a)' => Requested(a)
  PROVE  AskedInv' /\ ProgressInv'
<1>1. AskedInv'
  BY DEF AskedInv, Asked, clientsVars
<1>2. ProgressInv'
  BY DEF ProgressInv, clientsVars
<1>3. QED BY <1>1, <1>2

\* Steps of the TCP half, and those that end the receiving.
LEMMA TcpStep ==
  ASSUME DaytimeInv, UNCHANGED clientsVars, UNCHANGED <<queue, source, remote_endpoint, sends, reply>>,
         receive' \in {receive, "failed", "ended"},
         accepting' \in BOOLEAN, running' \in BOOLEAN,
         caller' \in [Callers -> {"away", "queued", "writing", "failed", "served"}]
  PROVE  DaytimeInv'
<1>1. DaytimeType'
  BY DEF DaytimeInv, DaytimeType, clientsVars
<1>2. EndpointInv'
  BY DEF DaytimeInv, EndpointInv
<1>3. \A a \in Askers : Requested(a)' => Requested(a)
  BY DEF Requested
<1>4. QED BY <1>1, <1>2, <1>3, ServerFrame DEF DaytimeInv

\* What a receive that takes a datagram does.
LEMMA TakeMoves ==
  ASSUME DaytimeType, Take
  PROVE  /\ queue' \in Seq(Askers) /\ receive' = "ready"
         /\ source' \in Askers /\ remote_endpoint' = source'
         /\ 1 \in 1..Len(queue) /\ source' = queue[1]
         /\ \A k \in 1..Len(queue') : k + 1 \in 1..Len(queue) /\ queue'[k] = queue[k + 1]
<1>1. queue \in Seq(Askers) /\ queue # <<>> /\ queue' = Tail(queue)
  BY DEF DaytimeType, Take
<1>2. Len(queue) \in Nat /\ 1 \in 1..Len(queue) /\ queue[1] \in Askers /\ Head(queue) = queue[1]
  BY <1>1
<1>3. queue' \in Seq(Askers) /\ Len(queue') = Len(queue) - 1
  BY <1>1
<1>4. \A k \in 1..Len(queue') : k + 1 \in 1..Len(queue) /\ queue'[k] = queue[k + 1]
  BY <1>1, <1>2, <1>3
<1>5. QED BY <1>2, <1>3, <1>4 DEF Take

LEMMA ReceiveStep ==
  ASSUME DaytimeInv, UNCHANGED clientsVars, ReceiveCompletes
  PROVE  DaytimeInv'
<1>1. DaytimeType /\ Take /\ UNCHANGED <<running, accepting, caller, sends, reply>>
  BY DEF DaytimeInv, ReceiveCompletes, tcpVars
<1>2. DaytimeType'
  BY <1>1, TakeMoves DEF DaytimeType, clientsVars
<1>3. EndpointInv'
  BY <1>1, TakeMoves DEF DaytimeInv, EndpointInv
<1>4. \A a \in Askers : Requested(a)' => Requested(a)
  BY <1>1, TakeMoves DEF Requested
<1>5. QED BY <1>2, <1>3, <1>4, ServerFrame DEF DaytimeInv

\* The answer goes to the endpoint as it was before the next receive was started.
LEMMA HandleReceiveStep ==
  ASSUME DaytimeInv, UNCHANGED clientsVars, HandleReceive
  PROVE  DaytimeInv'
<1> DEFINE x == [to |-> remote_endpoint, answers |-> source]
<1>1. /\ receive = "ready" /\ StartReceive /\ sends' = sends \cup {x}
      /\ UNCHANGED <<running, accepting, caller, reply>>
  BY DEF HandleReceive, SendEndpoint, tcpVars
<1>2. x.to = source /\ x.answers = source /\ source \in Askers /\ x \in [to : Askers, answers : Askers]
  BY <1>1 DEF DaytimeInv, EndpointInv
<1>3. DaytimeType /\ sends' \in SUBSET [to : Askers, answers : Askers]
  BY <1>1, <1>2 DEF DaytimeInv, DaytimeType
<1>4. \A y \in sends' : y.to = y.answers
  BY <1>1, <1>2 DEF DaytimeInv, EndpointInv
<1> HIDE DEF x
<1>5. CASE Take
  <2>1. DaytimeType'
    BY <1>1, <1>3, <1>5, TakeMoves DEF DaytimeType, clientsVars
  <2>2. EndpointInv'
    BY <1>3, <1>4, <1>5, TakeMoves DEF EndpointInv
  <2>3. \A a \in Askers : Requested(a)' => Requested(a)
    BY <1>1, <1>2, <1>3, <1>5, TakeMoves DEF Requested
  <2>4. QED BY <2>1, <2>2, <2>3, ServerFrame DEF DaytimeInv
<1>6. CASE receive' = "pending" /\ UNCHANGED <<queue, source, remote_endpoint>>
  <2>1. DaytimeType'
    BY <1>1, <1>3, <1>6 DEF DaytimeType, clientsVars
  <2>2. EndpointInv'
    BY <1>4, <1>6 DEF EndpointInv
  <2>3. \A a \in Askers : Requested(a)' => Requested(a)
    BY <1>1, <1>2, <1>6 DEF Requested
  <2>4. QED BY <2>1, <2>2, <2>3, ServerFrame DEF DaytimeInv
<1>7. QED BY <1>1, <1>5, <1>6 DEF StartReceive

LEMMA HandleSendStep ==
  ASSUME DaytimeInv, UNCHANGED clientsVars, NEW x \in sends, HandleSend(x)
  PROVE  DaytimeInv'
<1>1. PICK r \in {"sent", "lost"} : reply' = [reply EXCEPT ![x.to] = r]
  BY DEF HandleSend
<1>2. /\ sends' = sends \ {x}
      /\ UNCHANGED <<running, accepting, caller, queue, receive, source, remote_endpoint>>
  BY DEF HandleSend, tcpVars
<1>3. DaytimeType'
  BY <1>1, <1>2 DEF DaytimeInv, DaytimeType, clientsVars
<1>4. EndpointInv'
  BY <1>2 DEF DaytimeInv, EndpointInv
<1>5. \A a \in Askers : Requested(a)' => Requested(a)
  BY <1>1, <1>2 DEF Requested, DaytimeInv, DaytimeType
<1>6. QED BY <1>3, <1>4, <1>5, ServerFrame DEF DaytimeInv

LEMMA NetworkStep ==
  ASSUME DaytimeInv, NEW a \in Askers, Network(a)
  PROVE  DaytimeInv'
<1>1. PICK r \in {"here", "lost"} : reply' = [reply EXCEPT ![a] = r]
  BY DEF Network, Arrive, Lose
<1>2. /\ reply[a] = "sent" /\ UNCHANGED clientsVars
      /\ UNCHANGED <<running, accepting, caller, queue, receive, source, remote_endpoint, sends>>
  BY DEF Network, Arrive, Lose, tcpVars
<1>3. DaytimeType'
  BY <1>1, <1>2 DEF DaytimeInv, DaytimeType, clientsVars
<1>4. EndpointInv'
  BY <1>2 DEF DaytimeInv, EndpointInv
<1>5. \A b \in Askers : Requested(b)' => Requested(b)
  BY <1>1, <1>2 DEF Requested, DaytimeInv, DaytimeType
<1>6. QED BY <1>2, <1>3, <1>4, <1>5, ServerFrame DEF DaytimeInv

LEMMA ServerStep ==
  ASSUME DaytimeInv, UNCHANGED clientsVars,
         Server \/ ReceiveFails \/ AcceptErrs \/ \E c \in Callers : Connect(c)
  PROVE  DaytimeInv'
<1>1. ASSUME NEW c \in Callers, Connect(c) \/ HandleAccept(c) \/ HandleTimeWrite(c) PROVE DaytimeInv'
  <2>1. UNCHANGED <<running, queue, receive, source, remote_endpoint, sends, reply>>
    BY <1>1 DEF Connect, HandleAccept, HandleTimeWrite, udpVars
  <2>2. accepting' \in BOOLEAN /\ caller' \in [Callers -> {"away", "queued", "writing", "failed", "served"}]
    <3>1. PICK o \in {"queued", "writing", "failed", "served"} : caller' = [caller EXCEPT ![c] = o]
      BY <1>1 DEF Connect, HandleAccept, HandleTimeWrite
    <3>2. accepting' \in {accepting, TRUE}
      BY <1>1 DEF Connect, HandleAccept, HandleTimeWrite, AcceptsAgain
    <3>3. QED BY <3>1, <3>2 DEF DaytimeInv, DaytimeType
  <2>3. running' \in BOOLEAN
    BY <2>1 DEF DaytimeInv, DaytimeType
  <2>4. QED BY <2>1, <2>2, <2>3, TcpStep
<1>2. CASE ReceiveFails \/ HandleReceiveError \/ RunReturns
  <2>1. /\ UNCHANGED <<accepting, caller, queue, source, remote_endpoint, sends, reply>>
        /\ receive' \in {receive, "failed", "ended"} /\ running' \in {running, FALSE}
    BY <1>2 DEF ReceiveFails, HandleReceiveError, RunReturns, tcpVars, udpVars
  <2>2. QED BY <2>1, TcpStep DEF DaytimeInv, DaytimeType
<1>3. CASE ReceiveCompletes
  BY <1>3, ReceiveStep
<1>4. CASE HandleReceive
  BY <1>4, HandleReceiveStep
<1>5. ASSUME NEW x \in sends, HandleSend(x) PROVE DaytimeInv'
  BY <1>5, HandleSendStep
<1>6. CASE AcceptErrs
  <2>1. UNCHANGED <<running, caller, queue, receive, source, remote_endpoint, sends, reply>>
    BY <1>6 DEF AcceptErrs, udpVars
  <2>2. accepting' \in BOOLEAN /\ caller' \in [Callers -> {"away", "queued", "writing", "failed", "served"}]
    BY <1>6, <2>1 DEF AcceptErrs, AcceptsAgain, DaytimeInv, DaytimeType
  <2>3. running' \in BOOLEAN
    BY <2>1 DEF DaytimeInv, DaytimeType
  <2>4. QED BY <2>1, <2>2, <2>3, TcpStep
<1>7. QED BY <1>1, <1>2, <1>3, <1>4, <1>5, <1>6 DEF Server, Handlers

-----------------------------------------------------------------------------
(* Daytime: the steps of the clients *)

\* A step of client a that does not touch the server and undoes nothing that it has sent.
LEMMA ClientFrame ==
  ASSUME DaytimeInv, NEW a \in Askers, UNCHANGED serverVars, DaytimeType', lost' = lost,
         \A b \in Askers \ {a} : /\ pc'[b] = pc[b] /\ op'[b] = op[b]
                                 /\ result'[b] = result[b] /\ ioThread'[b] = ioThread[b],
         Asked(a) => Asked(a)',
         a \in Futures => /\ pc'[a] = "socket" => op'[a] = "resolve"
                          /\ pc'[a] \in {"resolve", "send", "receive"} => op'[a] = pc'[a]
                          /\ pc'[a] \in {"join", "done"} => result'[a] = "ok"
                          /\ pc'[a] = "aborted" => op'[a] = "resolve" \/ result'[a] = "error"
  PROVE  DaytimeInv'
<1>1. UNCHANGED <<running, accepting, caller, queue, receive, source, remote_endpoint, sends, reply>>
  BY DEF serverVars, tcpVars, udpVars
<1>2. EndpointInv'
  BY <1>1 DEF DaytimeInv, EndpointInv
<1>3. \A b \in Askers : Requested(b)' => Requested(b)
  BY <1>1 DEF Requested
<1>4. \A b \in Askers \ {a} : Asked(b) => Asked(b)'
  BY DEF Asked
<1>5. AskedInv'
  BY <1>3, <1>4 DEF DaytimeInv, AskedInv
<1>6. ProgressInv'
  <2>1. Futures \subseteq Askers
    BY ClientsAssumption
  <2>2. QED BY <2>1 DEF DaytimeInv, ProgressInv
<1>7. QED BY <1>2, <1>5, <1>6 DEF DaytimeInv

LEMMA OpenSocketStep ==
  ASSUME DaytimeInv, NEW a \in Askers, OpenSocket(a)
  PROVE  DaytimeInv'
<1>1. /\ a \in Futures /\ pc[a] = "socket" /\ op[a] = "resolve"
      /\ UNCHANGED <<serverVars, op, result, lost>>
  BY DEF OpenSocket, DaytimeInv, ProgressInv
<1>2. PICK p \in {"resolve", "aborted"} : pc' = [pc EXCEPT ![a] = p]
  BY DEF OpenSocket
<1>3. ioThread' = ioThread \/ ioThread' = [ioThread EXCEPT ![a] = FALSE]
  BY DEF OpenSocket
<1>4. DaytimeType'
  BY <1>1, <1>2, <1>3 DEF DaytimeInv, DaytimeType, serverVars, tcpVars, udpVars
<1>5. pc'[a] = p /\ \A b \in Askers \ {a} : pc'[b] = pc[b] /\ ioThread'[b] = ioThread[b]
  BY <1>2, <1>3 DEF DaytimeInv, DaytimeType
<1>6. ~Asked(a)
  BY <1>1 DEF Asked
<1>7. QED BY <1>1, <1>4, <1>5, <1>6, ClientFrame

LEMMA StartStep ==
  ASSUME DaytimeInv, NEW a \in Askers, NEW at, NEW next \in {"send", "receive"}, Step(a, at, next),
         at = "resolve" \/ (at = "send" /\ next = "receive")
  PROVE  DaytimeInv'
<1>1. /\ a \in Futures /\ pc[a] = at /\ op[a] = at /\ result[a] = "ok"
      /\ op' = [op EXCEPT ![a] = next] /\ result' = [result EXCEPT ![a] = "pending"]
      /\ pc' = [pc EXCEPT ![a] = next]
      /\ UNCHANGED <<serverVars, ioThread, lost>>
  BY DEF Step, Ready, DaytimeInv, ProgressInv
<1>2. DaytimeType'
  BY <1>1 DEF DaytimeInv, DaytimeType, serverVars, tcpVars, udpVars
<1>3. /\ pc'[a] = next /\ op'[a] = next
      /\ \A b \in Askers \ {a} : pc'[b] = pc[b] /\ op'[b] = op[b] /\ result'[b] = result[b]
  BY <1>1 DEF DaytimeInv, DaytimeType
<1>4. Asked(a) => Asked(a)'
  BY <1>1, <1>3 DEF Asked
<1>5. QED BY <1>1, <1>2, <1>3, <1>4, ClientFrame

LEMMA EndingStep ==
  ASSUME DaytimeInv, NEW a \in Askers,
         PrintAndStop(a) \/ GetThrows(a) \/ ThreadEnds(a) \/ Join(a)
  PROVE  DaytimeInv'
<1>1. a \in Futures /\ UNCHANGED <<serverVars, op, result, lost>>
  BY DEF PrintAndStop, GetThrows, ThreadEnds, Join
<1>2. ioThread' = ioThread \/ ioThread' = [ioThread EXCEPT ![a] = FALSE]
  BY DEF PrintAndStop, GetThrows, ThreadEnds, Join
<1>3. PICK p \in {"join", "aborted", "done"} : pc' = [pc EXCEPT ![a] = p]
  <2>1. CASE ThreadEnds(a)
    <3>1. pc[a] = "join" /\ pc' = pc
      BY <2>1 DEF ThreadEnds
    <3>2. pc' = [pc EXCEPT ![a] = "join"]
      BY <3>1 DEF DaytimeInv, DaytimeType
    <3>3. QED BY <3>2
  <2>2. QED BY <2>1 DEF PrintAndStop, GetThrows, Join
<1>4. DaytimeType'
  BY <1>1, <1>2, <1>3 DEF DaytimeInv, DaytimeType, serverVars, tcpVars, udpVars
<1>5. pc'[a] = p /\ \A b \in Askers \ {a} : pc'[b] = pc[b] /\ ioThread'[b] = ioThread[b]
  BY <1>2, <1>3 DEF DaytimeInv, DaytimeType
<1>6. Asked(a) => Asked(a)'
  BY <1>1, <1>5 DEF Asked
<1>7. (p \in {"join", "done"} => result[a] = "ok") /\ (p = "aborted" => result[a] = "error")
  BY <1>5 DEF PrintAndStop, GetThrows, ThreadEnds, Join, Ready, DaytimeInv, DaytimeType, ProgressInv
<1>8. QED BY <1>1, <1>4, <1>5, <1>6, <1>7, ClientFrame

\* A datagram of a is sent, for the first time: it reaches the socket or is lost.
LEMMA AskFrame ==
  ASSUME DaytimeInv, NEW a \in Askers, Ask(a), ~Asked(a), DaytimeType',
         UNCHANGED <<receive, source, remote_endpoint, sends, reply>>,
         Asked(a)',
         \A b \in Askers \ {a} : pc'[b] = pc[b] /\ op'[b] = op[b] /\ result'[b] = result[b],
         ProgressInv'
  PROVE  DaytimeInv'
<1>1. EndpointInv'
  BY DEF DaytimeInv, EndpointInv
<1>2. ~Requested(a) /\ a \notin lost
  BY DEF DaytimeInv, AskedInv
<1>3. \A b \in Askers : Asked(b) => Asked(b)'
  BY DEF Asked
<1>4. CASE queue' = Append(queue, a) /\ lost' = lost
  <2>1. queue \in Seq(Askers)
    BY DEF DaytimeInv, DaytimeType
  <2>2. \A k \in 1..Len(queue') : queue'[k] = a \/ (k \in 1..Len(queue) /\ queue'[k] = queue[k])
    BY <1>4, <2>1
  <2>3. \A b \in Askers : Requested(b)' => b = a \/ Requested(b)
    BY <2>2 DEF Requested
  <2>4. AskedInv'
    BY <1>2, <1>3, <1>4, <2>3 DEF DaytimeInv, AskedInv
  <2>5. QED BY <1>1, <2>4 DEF DaytimeInv
<1>5. CASE queue' = queue /\ lost' = lost \cup {a}
  <2>1. \A b \in Askers : Requested(b)' => Requested(b)
    BY <1>5 DEF Requested
  <2>2. AskedInv'
    BY <1>2, <1>3, <1>5, <2>1 DEF DaytimeInv, AskedInv
  <2>3. QED BY <1>1, <2>2 DEF DaytimeInv
<1>6. QED BY <1>4, <1>5 DEF Ask

\* asio completes the operation of a future client: with a send, the datagram goes out.
LEMMA CompleteStep ==
  ASSUME DaytimeInv, NEW a \in Askers, Complete(a)
  PROVE  DaytimeInv'
<1>1. /\ a \in Futures /\ ioThread[a] /\ result[a] = "pending"
      /\ UNCHANGED <<running, accepting, caller, receive, source, remote_endpoint, sends, reply,
                     pc, op, ioThread>>
  BY DEF Complete, tcpVars
<1>2. PICK r \in {"ok", "error"} : result' = [result EXCEPT ![a] = r]
  BY DEF Complete
<1>3. result'[a] = r /\ \A b \in Askers \ {a} : result'[b] = result[b]
  BY <1>2 DEF DaytimeInv, DaytimeType
<1>4. DaytimeType'
  <2>1. queue' \in Seq(Askers) /\ lost' \in SUBSET Askers
    <3>1. Ask(a) \/ UNCHANGED <<queue, lost>>
      BY DEF Complete
    <3>2. queue \in Seq(Askers) /\ lost \in SUBSET Askers
      BY DEF DaytimeInv, DaytimeType
    <3>3. QED BY <3>1, <3>2 DEF Ask
  <2>2. QED BY <1>1, <1>2, <2>1 DEF DaytimeInv, DaytimeType
<1>5. ProgressInv'
  BY <1>1, <1>3, ClientsAssumption DEF DaytimeInv, ProgressInv
<1>6. CASE Ask(a) /\ op[a] = "send" /\ r = "ok"
  <2>1. ~Asked(a)
    BY <1>1, <1>6 DEF Asked
  <2>2. Asked(a)'
    BY <1>1, <1>3, <1>6 DEF Asked, DaytimeInv, ProgressInv
  <2>3. QED BY <1>1, <1>3, <1>4, <1>5, <1>6, <2>1, <2>2, AskFrame
<1>7. CASE UNCHANGED <<queue, lost>>
  <2>1. UNCHANGED serverVars
    BY <1>1, <1>7 DEF serverVars, tcpVars, udpVars
  <2>2. Asked(a) => Asked(a)'
    BY <1>1, <1>3 DEF Asked
  <2>3. /\ pc'[a] = "socket" => op'[a] = "resolve"
        /\ pc'[a] \in {"resolve", "send", "receive"} => op'[a] = pc'[a]
        /\ pc'[a] \in {"join", "done"} => result'[a] = "ok"
        /\ pc'[a] = "aborted" => op'[a] = "resolve" \/ result'[a] = "error"
    BY <1>1, <1>5 DEF ProgressInv
  <2>4. QED BY <1>1, <1>3, <1>4, <1>7, <2>1, <2>2, <2>3, ClientFrame
<1>8. CASE ~(UNCHANGED <<queue, lost>>)
  <2>1. Ask(a) /\ op[a] = "send" /\ result' = [result EXCEPT ![a] = "ok"]
    BY <1>8 DEF Complete
  <2>2. result'[a] = "ok"
    BY <2>1 DEF DaytimeInv, DaytimeType
  <2>3. QED BY <1>3, <1>6, <2>1, <2>2
<1>9. QED BY <1>7, <1>8

LEMMA SyncStep ==
  ASSUME DaytimeInv, NEW a \in Askers, SyncSend(a) \/ SyncReceive(a)
  PROVE  DaytimeInv'
<1>1. /\ a \in Syncs /\ a \notin Futures
      /\ UNCHANGED <<running, accepting, caller, receive, source, remote_endpoint, sends, reply,
                     op, ioThread>>
  BY ClientsAssumption DEF SyncSend, SyncReceive, tcpVars, serverVars, udpVars
<1>2. PICK p \in {"receive", "done"} : pc' = [pc EXCEPT ![a] = p]
  BY DEF SyncSend, SyncReceive
<1>3. result' = result \/ \E r \in {"ok", "error"} : result' = [result EXCEPT ![a] = r]
  BY DEF SyncSend, SyncReceive
<1>4. /\ pc'[a] = p /\ \A b \in Askers \ {a} : pc'[b] = pc[b] /\ result'[b] = result[b]
      /\ \A b \in Futures : b \in Askers \ {a}
  BY <1>1, <1>2, <1>3, ClientsAssumption DEF DaytimeInv, DaytimeType
<1>5. Ask(a) \/ UNCHANGED <<queue, lost>>
  BY DEF SyncSend, SyncReceive, serverVars, udpVars
<1>6. DaytimeType'
  <2>1. queue' \in Seq(Askers) /\ lost' \in SUBSET Askers
    <3>1. queue \in Seq(Askers) /\ lost \in SUBSET Askers
      BY DEF DaytimeInv, DaytimeType
    <3>2. QED BY <1>5, <3>1 DEF Ask
  <2>2. QED BY <1>1, <1>2, <1>3, <2>1 DEF DaytimeInv, DaytimeType
<1>7. Asked(a)'
  BY <1>1, <1>4 DEF Asked
<1>8. ProgressInv'
  BY <1>1, <1>4 DEF DaytimeInv, ProgressInv
<1>9. CASE UNCHANGED <<queue, lost>>
  <2>1. UNCHANGED serverVars
    BY <1>1, <1>9 DEF serverVars, tcpVars, udpVars
  <2>2. QED BY <1>1, <1>4, <1>6, <1>7, <1>9, <2>1, ClientFrame
<1>10. CASE ~(UNCHANGED <<queue, lost>>)
  <2>1. SyncSend(a) /\ Ask(a)
    BY <1>10 DEF SyncSend, SyncReceive, serverVars, udpVars
  <2>2. ~Asked(a)
    BY <2>1 DEF SyncSend, Asked
  <2>3. QED BY <1>1, <1>4, <1>6, <1>7, <1>8, <2>1, <2>2, AskFrame
<1>11. QED BY <1>9, <1>10

-----------------------------------------------------------------------------
(* Daytime: theorems *)

LEMMA DaytimeStep == DaytimeInv /\ [Next]_allVars => DaytimeInv'
<1> SUFFICES ASSUME DaytimeInv, [Next]_allVars PROVE DaytimeInv'
  OBVIOUS
<1>1. CASE UNCHANGED allVars
  <2>1. UNCHANGED <<running, accepting, caller, queue, receive, source, remote_endpoint, sends,
                    reply, pc, op, result, ioThread, lost>>
    BY <1>1 DEF allVars, serverVars, tcpVars, udpVars, clientsVars
  <2>2. DaytimeType' /\ EndpointInv' /\ ProgressInv'
    BY <2>1 DEF DaytimeInv, DaytimeType, EndpointInv, ProgressInv
  <2>3. \A a \in Askers : (Requested(a)' <=> Requested(a)) /\ (Asked(a)' <=> Asked(a))
    BY <2>1 DEF Requested, Asked
  <2>4. AskedInv'
    BY <2>1, <2>3 DEF DaytimeInv, AskedInv
  <2>5. QED BY <2>2, <2>4 DEF DaytimeInv
<1>2. CASE /\ UNCHANGED clientsVars
           /\ Server \/ ReceiveFails \/ AcceptErrs \/ \E c \in Callers : Connect(c)
  BY <1>2, ServerStep
<1>3. ASSUME NEW a \in Askers, Client(a) PROVE DaytimeInv'
  <2>1. CASE StartSend(a) \/ StartReceiveOf(a)
    BY <2>1, StartStep DEF StartSend, StartReceiveOf
  <2>2. QED BY <1>3, <2>1, OpenSocketStep, EndingStep, SyncStep DEF Client
<1>4. ASSUME NEW a \in Askers, Complete(a) \/ SyncReceive(a) \/ Network(a) PROVE DaytimeInv'
  BY <1>4, CompleteStep, SyncStep, NetworkStep
<1>5. QED BY <1>1, <1>2, <1>3, <1>4 DEF Next, Quiet

LEMMA DaytimeInvariant == Spec => []DaytimeInv
<1>1. QED BY DaytimeInit, DaytimeStep, PTL DEF Spec

\* The variables of the daytime servers and their clients keep their types.
THEOREM DaytimeTypeCorrect == Spec => []DaytimeType
<1>1. DaytimeInv => DaytimeType
  BY DEF DaytimeInv
<1>2. QED BY <1>1, DaytimeInvariant, PTL

\* For any number of clients, every answer goes to the client that asked, and a client is
\* answered only after it has asked (boost_comb/async_ds.cpp 68-82, boost_udp/async_ds.cpp
\* 21-39).
THEOREM AnswersGoBack == Spec => []AnswersTheAsker
<1>1. DaytimeInv => AnswersTheAsker
  BY DEF DaytimeInv, EndpointInv, AskedInv, Requested, Asked, AnswersTheAsker
<1>2. QED BY <1>1, DaytimeInvariant, PTL

\* Whichever way get_daytime is left, no operation still uses its buffers
\* (daytime_client.cpp 16-32).
THEOREM NoBufferLeftBehind == Spec => []FrameOutlivesOperation
<1>1. DaytimeInv => FrameOutlivesOperation
  <2> SUFFICES ASSUME DaytimeInv, NEW a \in Futures,
                      op[a] \in {"send", "receive"}, result[a] = "pending"
               PROVE  pc[a] \in {"send", "receive"}
    BY DEF FrameOutlivesOperation
  <2>1. a \in Askers
    BY ClientsAssumption
  <2>2. QED BY <2>1 DEF DaytimeInv, DaytimeType, ProgressInv
<1>2. QED BY <1>1, DaytimeInvariant, PTL
=============================================================================
