------------------------- MODULE TimerPrinterProofs -------------------------
(***************************************************************************)
(* Proofs about TimerPrinter for any number of timers and any limit: how   *)
(* many lines the handlers print, and what the destructor prints.          *)
(***************************************************************************)
EXTENDS TimerPrinter, FiniteSetTheorems, TLAPS

\* The variables keep their types.
TypeOK ==
  /\ pc \in [Timers -> {"waiting", "load", "store", "done"}]
  /\ wrapped \in [Timers -> BOOLEAN]
  /\ reg \in [Timers -> Nat]
  /\ count_ \in Nat
  /\ lines \in Nat
  /\ final \in Nat \cup {-1}

N == Cardinality(Timers)

\* The timers whose first handler, the one outside the strand, is over; those whose first
\* handler has not printed and may.
Wrapped   == {t \in Timers : wrapped[t]}
Unprinted == {t \in Timers : ~wrapped[t] /\ pc[t] \in {"waiting", "load"}}

\* A handler in the strand between its test and its store.  There is at most one.
Active(t) == wrapped[t] /\ pc[t] \in {"load", "store"}
StrandInv == \A t, u \in Timers : Active(t) /\ Active(u) => t = u

\* The lines that handlers one after the other print from the count c on.
Above(c) == IF c < Limit THEN Limit - c ELSE 0

\* Every first handler prints a line, and its store can take the count back to 1, so that
\* Limit - 1 lines are printed again.  What is left of that.
Budget == N + Cardinality(Wrapped) * (Limit - 1) - Cardinality(Unprinted) - lines

\* What is left covers what the strand's handlers print until the next first handler stores:
\* it starts from the count, or from what the active one will store.
LinesInv ==
  /\ Budget >= 0
  /\ \A t \in Timers : wrapped[t] /\ pc[t] = "load" => Above(count_ + 1) + 1 <= Budget
  /\ \A t \in Timers : wrapped[t] /\ pc[t] = "store" => Above(reg[t] + 1) <= Budget
  /\ Wrapped # {} /\ (\A t \in Timers : ~Active(t)) => Above(count_) <= Budget

\* The count passes the limit by one for each first handler that has stored, and what is
\* loaded stays below that as long as a handler of the strand has its own increment before
\* it: it has seen the count below the limit, which a first handler must have taken back.
Highest == Limit - 1 + Cardinality(Wrapped)

CountInv ==
  /\ count_ <= Highest
  /\ \A t \in Timers : pc[t] = "store" => /\ reg[t] <= Highest
                                          /\ reg[t] = Highest => count_ >= Limit \/ Wrapped = {}
  /\ \A w \in Timers : Active(w) =>
       count_ < Highest /\ \A t \in Timers : pc[t] = "store" => reg[t] < Highest

\* The last handler to stop has seen the limit reached, and nobody takes the count back then.
FinalInv ==
  /\ (\A t \in Timers : pc[t] = "done") => count_ >= Limit
  /\ final # -1 => final = count_ /\ \A t \in Timers : pc[t] = "done"

Inv == TypeOK /\ StrandInv /\ LinesInv /\ CountInv /\ FinalInv

-----------------------------------------------------------------------------
(* Counting *)

\* Multiplication, as far as it is needed.
LEMMA Product == \A w, l \in Nat : w * l \in Nat /\ (w + 1) * l = w * l + l
OBVIOUS

LEMMA Numbers ==
  ASSUME TypeOK
  PROVE  /\ IsFiniteSet(Wrapped) /\ IsFiniteSet(Unprinted)
         /\ N \in Nat /\ Cardinality(Wrapped) \in Nat /\ Cardinality(Unprinted) \in Nat
         /\ Cardinality(Wrapped) <= N
         /\ Wrapped # {} => Cardinality(Wrapped) >= 1
         /\ Limit - 1 \in Nat /\ Cardinality(Wrapped) * (Limit - 1) \in Nat
         /\ Budget \in Int /\ Highest \in Nat
<1>1. Wrapped \in SUBSET Timers /\ Unprinted \in SUBSET Timers
  BY DEF Wrapped, Unprinted
<1>2. /\ IsFiniteSet(Wrapped) /\ IsFiniteSet(Unprinted) /\ IsFiniteSet(Timers)
      /\ Cardinality(Wrapped) <= N
  BY <1>1, TimersAssumption, FS_Subset DEF N
<1>3. N \in Nat /\ Cardinality(Wrapped) \in Nat /\ Cardinality(Unprinted) \in Nat
  BY <1>2, FS_CardinalityType DEF N
<1>4. Wrapped # {} => Cardinality(Wrapped) >= 1
  BY <1>2, <1>3, FS_EmptySet
<1>5. Limit - 1 \in Nat
  BY LimitAssumption
<1>6. Cardinality(Wrapped) * (Limit - 1) \in Nat
  BY <1>3, <1>5, Product
<1>7. Budget \in Int /\ Highest \in Nat
  BY <1>3, <1>5, <1>6 DEF Budget, Highest, TypeOK
<1> QED
  BY <1>2, <1>3, <1>4, <1>5, <1>6, <1>7

LEMMA InitInv == Init => Inv
<1> SUFFICES ASSUME Init PROVE Inv
  OBVIOUS
<1>1. TypeOK
  BY DEF Init, TypeOK
<1>2. StrandInv
  BY DEF Init, StrandInv, Active
<1>3. Wrapped = {} /\ Unprinted = Timers
  BY DEF Init, Wrapped, Unprinted
<1>4. Cardinality(Wrapped) = 0 /\ Cardinality(Unprinted) = N
  BY <1>3, FS_EmptySet DEF N
<1>5. Budget = 0
  BY <1>1, <1>4, Numbers, LimitAssumption DEF Budget, Init
<1>6. LinesInv
  BY <1>3, <1>5 DEF LinesInv, Init
<1>7. CountInv
  <2>1. Highest = Limit - 1 /\ 0 <= Limit - 1
    BY <1>4, LimitAssumption DEF Highest
  <2> QED
    BY <2>1 DEF CountInv, Init, Active
<1>8. FinalInv
  BY TimersAssumption DEF Init, FinalInv
<1> QED
  BY <1>1, <1>2, <1>6, <1>7, <1>8 DEF Inv

-----------------------------------------------------------------------------
(* The steps *)

\* A handler starts, in the strand only when no other is in it, or stops its timer.
LEMMA TestInv == ASSUME Inv, NEW t \in Timers, Test(t) PROVE Inv'
<1>0. TypeOK /\ StrandInv /\ LinesInv /\ CountInv /\ FinalInv
  BY DEF Inv
<1>1. /\ pc[t] = "waiting" /\ UNCHANGED <<wrapped, reg, count_, lines, final>>
      /\ pc' = [pc EXCEPT ![t] = IF count_ < Limit THEN "load" ELSE "done"]
      /\ wrapped[t] => \A u \in Timers : ~Active(u)
  BY DEF Test, CountsOn, StrandFree, Active
<1>2. TypeOK'
  BY <1>0, <1>1 DEF TypeOK
<1>3. \A u \in Timers \ {t} : pc'[u] = pc[u] /\ (Active(u)' <=> Active(u))
  BY <1>0, <1>1 DEF TypeOK, Active
<1>4. /\ pc'[t] = IF count_ < Limit THEN "load" ELSE "done"
      /\ Active(t)' <=> wrapped[t] /\ count_ < Limit
  BY <1>0, <1>1 DEF TypeOK, Active
<1>5. StrandInv'
  BY <1>0, <1>1, <1>3, <1>4 DEF StrandInv
<1>6. Wrapped' = Wrapped /\ Cardinality(Wrapped') = Cardinality(Wrapped) /\ Highest' = Highest
  BY <1>1 DEF Wrapped, Highest
<1>7. Budget' \in Int /\ Budget \in Int /\ Budget <= Budget'
  <2>1. Unprinted' \in SUBSET Unprinted /\ IsFiniteSet(Unprinted)
    BY <1>0, <1>1, <1>3, <1>4, Numbers DEF Unprinted
  <2>2. Cardinality(Unprinted') <= Cardinality(Unprinted) /\ Cardinality(Unprinted') \in Nat
    BY <2>1, FS_Subset, FS_CardinalityType
  <2>3. /\ N \in Nat /\ Cardinality(Unprinted) \in Nat /\ lines \in Nat
        /\ Cardinality(Wrapped) * (Limit - 1) \in Nat
    BY <1>0, Numbers DEF TypeOK
  <2>4. /\ Budget = N + Cardinality(Wrapped) * (Limit - 1) - Cardinality(Unprinted) - lines
        /\ Budget' = N + Cardinality(Wrapped) * (Limit - 1) - Cardinality(Unprinted') - lines
    BY <1>1, <1>6 DEF Budget, N
  <2> HIDE DEF N
  <2> QED
    BY ONLY <2>2, <2>3, <2>4
<1>8. LinesInv'
  <2>1. Budget' >= 0
    BY ONLY <1>0, <1>7 DEF LinesInv
  <2>2. ASSUME NEW u \in Timers, (wrapped[u] /\ pc[u] = "load")' PROVE Above(count_ + 1) + 1 <= Budget'
    <3>1. CASE u = t
      <4>1. wrapped[t] /\ Wrapped # {} /\ count_ < Limit /\ \A v \in Timers : ~Active(v)
        BY <1>1, <1>4, <2>2, <3>1 DEF Wrapped
      <4>2. Above(count_) <= Budget
        BY <1>0, <4>1 DEF LinesInv
      <4>3. Above(count_ + 1) + 1 <= Above(count_)
        BY <1>0, <4>1, LimitAssumption DEF Above, TypeOK
      <4>4. Above(count_ + 1) \in Nat /\ Above(count_) \in Nat
        BY <1>0, LimitAssumption DEF Above, TypeOK
      <4> QED
        BY ONLY <1>7, <4>2, <4>3, <4>4
    <3>2. CASE u # t
      <4>1. Above(count_ + 1) + 1 <= Budget
        BY <1>0, <1>1, <1>3, <2>2, <3>2 DEF LinesInv
      <4>2. Above(count_ + 1) \in Nat
        BY <1>0, LimitAssumption DEF Above, TypeOK
      <4> QED
        BY ONLY <1>7, <4>1, <4>2
    <3> QED
      BY <3>1, <3>2
  <2>3. ASSUME NEW u \in Timers, (wrapped[u] /\ pc[u] = "store")' PROVE Above(reg[u] + 1) <= Budget'
    <3>1. wrapped[u] /\ pc[u] = "store"
      BY <1>1, <1>3, <1>4, <2>3
    <3>2. Above(reg[u] + 1) <= Budget
      BY <1>0, <3>1 DEF LinesInv
    <3>3. Above(reg[u] + 1) \in Nat
      BY <1>0, LimitAssumption DEF Above, TypeOK
    <3> QED
      BY ONLY <1>7, <3>2, <3>3
  <2>4. ASSUME Wrapped # {}, \A u \in Timers : ~Active(u)' PROVE Above(count_) <= Budget'
    <3>1. \A u \in Timers : ~Active(u)
      BY <1>1, <1>3, <2>4 DEF Active
    <3>2. Above(count_) <= Budget
      BY <1>0, <2>4, <3>1 DEF LinesInv
    <3>3. Above(count_) \in Nat
      BY <1>0, LimitAssumption DEF Above, TypeOK
    <3> QED
      BY ONLY <1>7, <3>2, <3>3
  <2> QED
    BY <1>1, <1>6, <2>1, <2>2, <2>3, <2>4 DEF LinesInv, Above
<1>9. CountInv'
  <2>1. count_ <= Highest
    BY <1>0 DEF CountInv
  <2>2. ASSUME NEW u \in Timers, pc'[u] = "store" PROVE pc[u] = "store"
    BY <1>3, <1>4, <2>2
  <2>3. ASSUME NEW w \in Timers, Active(w)'
        PROVE  count_ < Highest /\ \A u \in Timers : pc'[u] = "store" => reg[u] < Highest
    <3>1. CASE w = t
      <4>1. wrapped[t] /\ Wrapped # {} /\ count_ < Limit
        BY <1>4, <2>3, <3>1 DEF Wrapped
      <4>2. Cardinality(Wrapped) >= 1 /\ Cardinality(Wrapped) \in Nat /\ Limit \in Nat /\ count_ \in Nat
        BY <1>0, <4>1, Numbers, LimitAssumption DEF TypeOK
      <4>3. count_ < Highest
        BY ONLY <4>1, <4>2 DEF Highest
      <4>4. ASSUME NEW u \in Timers, pc'[u] = "store" PROVE reg[u] < Highest
        <5>1. reg[u] <= Highest /\ (reg[u] = Highest => count_ >= Limit)
          BY <1>0, <2>2, <4>1, <4>4 DEF CountInv
        <5>2. reg[u] \in Nat /\ Highest \in Nat
          BY <1>0, Numbers DEF TypeOK
        <5> QED
          BY ONLY <4>1, <4>2, <5>1, <5>2
      <4> QED
        BY <4>3, <4>4
    <3>2. CASE w # t
      <4>1. Active(w)
        BY <1>3, <2>3, <3>2
      <4> QED
        BY <1>0, <2>2, <4>1 DEF CountInv
    <3> QED
      BY <3>1, <3>2
  <2>4. ASSUME NEW u \in Timers, pc'[u] = "store"
        PROVE  reg[u] <= Highest /\ (reg[u] = Highest => count_ >= Limit \/ Wrapped = {})
    BY <1>0, <2>2, <2>4 DEF CountInv
  <2> QED
    BY <1>1, <1>6, <2>1, <2>3, <2>4 DEF CountInv
<1>10. FinalInv'
  <2>1. (\A u \in Timers : pc'[u] = "done") => count_ >= Limit
    BY <1>0, <1>4, LimitAssumption DEF TypeOK
  <2>2. final = -1
    BY <1>0, <1>1 DEF FinalInv
  <2> QED
    BY <1>1, <2>1, <2>2 DEF FinalInv
<1> QED
  BY <1>2, <1>5, <1>8, <1>9, <1>10 DEF Inv

\* A handler prints a line and loads the count.
LEMMA LoadInv == ASSUME Inv, NEW t \in Timers, Load(t) PROVE Inv'
<1>0. TypeOK /\ StrandInv /\ LinesInv /\ CountInv /\ FinalInv
  BY DEF Inv
<1>1. /\ pc[t] = "load" /\ UNCHANGED <<wrapped, count_, final>> /\ lines' = lines + 1
      /\ pc' = [pc EXCEPT ![t] = "store"] /\ reg' = [reg EXCEPT ![t] = count_]
  BY DEF Load
<1>2. TypeOK'
  BY <1>0, <1>1 DEF TypeOK
<1>3. \A u \in Timers \ {t} : pc'[u] = pc[u] /\ reg'[u] = reg[u]
  BY <1>0, <1>1 DEF TypeOK
<1>4. pc'[t] = "store" /\ reg'[t] = count_ /\ \A u \in Timers : Active(u)' <=> Active(u)
  BY <1>0, <1>1, <1>3 DEF TypeOK, Active
<1>5. StrandInv'
  BY <1>0, <1>4 DEF StrandInv
<1>6. Wrapped' = Wrapped /\ Cardinality(Wrapped') = Cardinality(Wrapped) /\ Highest' = Highest
  BY <1>1 DEF Wrapped, Highest
<1>7. Budget \in Int /\ Budget' = IF wrapped[t] THEN Budget - 1 ELSE Budget
  <2>1. Unprinted' = Unprinted \ {t} /\ (t \in Unprinted <=> ~wrapped[t]) /\ IsFiniteSet(Unprinted)
    BY <1>0, <1>1, <1>3, <1>4, Numbers DEF Unprinted
  <2>2. Cardinality(Unprinted')
          = IF wrapped[t] THEN Cardinality(Unprinted) ELSE Cardinality(Unprinted) - 1
    BY <2>1, FS_RemoveElement
  <2>3. /\ N \in Nat /\ Cardinality(Unprinted) \in Nat /\ lines \in Nat /\ Budget \in Int
        /\ Cardinality(Wrapped) * (Limit - 1) \in Nat
    BY <1>0, Numbers DEF TypeOK
  <2>4. /\ Budget = N + Cardinality(Wrapped) * (Limit - 1) - Cardinality(Unprinted) - lines
        /\ Budget' = N + Cardinality(Wrapped) * (Limit - 1) - Cardinality(Unprinted') - (lines + 1)
    BY <1>1, <1>6 DEF Budget, N
  <2> HIDE DEF N
  <2> QED
    BY ONLY <2>2, <2>3, <2>4
<1>8. LinesInv'
  <2>0. \A c \in Nat : Above(c) \in Nat
    BY LimitAssumption DEF Above
  <2>1. CASE wrapped[t]
    <3>1. Above(count_ + 1) \in Nat /\ Above(count_ + 1) + 1 <= Budget
      BY <1>0, <1>1, <2>0, <2>1 DEF LinesInv, TypeOK
    <3>2. Above(count_ + 1) <= Budget' /\ Budget' >= 0
      BY ONLY <1>7, <2>1, <3>1
    <3>3. Active(t)
      BY <1>1, <2>1 DEF Active
    <3>4. ASSUME NEW u \in Timers, wrapped[u], pc'[u] \in {"load", "store"} PROVE u = t
      BY <1>0, <1>4, <3>3, <3>4, <1>1 DEF StrandInv, Active
    <3> QED
      BY <1>1, <1>4, <1>6, <3>2, <3>3, <3>4 DEF LinesInv, Above
  <2>2. CASE ~wrapped[t]
    <3>1. Budget' = Budget
      BY <1>7, <2>2
    <3>2. \A u \in Timers : wrapped[u] => pc'[u] = pc[u] /\ reg'[u] = reg[u]
      BY <1>3, <2>2
    <3> QED
      BY <1>0, <1>1, <1>4, <1>6, <3>1, <3>2 DEF LinesInv, Above
  <2> QED
    BY <2>1, <2>2
<1>9. CountInv'
  <2>0. /\ count_ \in Nat /\ Highest \in Nat /\ Limit \in Nat /\ Cardinality(Wrapped) \in Nat
        /\ Wrapped # {} => Cardinality(Wrapped) >= 1
    BY <1>0, Numbers, LimitAssumption DEF TypeOK
  <2>1. count_ <= Highest /\ (count_ = Highest => count_ >= Limit \/ Wrapped = {})
    <3>1. count_ <= Highest
      BY <1>0 DEF CountInv
    <3> QED
      BY ONLY <2>0, <3>1 DEF Highest
  <2>2. ASSUME NEW u \in Timers, pc'[u] = "store"
        PROVE  reg'[u] <= Highest /\ (reg'[u] = Highest => count_ >= Limit \/ Wrapped = {})
    BY <1>0, <1>3, <1>4, <2>1, <2>2 DEF CountInv
  <2>3. ASSUME NEW w \in Timers, Active(w)
        PROVE  count_ < Highest /\ \A u \in Timers : pc'[u] = "store" => reg'[u] < Highest
    BY <1>0, <1>3, <1>4, <2>3 DEF CountInv
  <2> QED
    BY <1>1, <1>4, <1>6, <2>1, <2>2, <2>3 DEF CountInv
<1>10. FinalInv'
  <2>1. final = -1
    BY <1>0, <1>1 DEF FinalInv
  <2> QED
    BY <1>1, <1>4, <2>1 DEF FinalInv
<1> QED
  BY <1>2, <1>5, <1>8, <1>9, <1>10 DEF Inv

\* A first handler's store may take the count back; one in the strand adds one to what it
\* has loaded.
LEMMA StoreInv == ASSUME Inv, NEW t \in Timers, Store(t) PROVE Inv'
<1>0. TypeOK /\ StrandInv /\ LinesInv /\ CountInv /\ FinalInv
  BY DEF Inv
<1>1. /\ pc[t] = "store" /\ UNCHANGED <<reg, lines, final>> /\ count_' = reg[t] + 1
      /\ pc' = [pc EXCEPT ![t] = "waiting"] /\ wrapped' = [wrapped EXCEPT ![t] = TRUE]
  BY DEF Store, Incremented
<1>2. TypeOK'
  BY <1>0, <1>1 DEF TypeOK
<1>3. \A u \in Timers \ {t} :
        pc'[u] = pc[u] /\ wrapped'[u] = wrapped[u] /\ (Active(u)' <=> Active(u))
  BY <1>0, <1>1 DEF TypeOK, Active
<1>4. pc'[t] = "waiting" /\ wrapped'[t] /\ ~Active(t)'
  BY <1>0, <1>1 DEF TypeOK, Active
<1>5. StrandInv'
  BY <1>0, <1>3, <1>4 DEF StrandInv
<1>6. Wrapped' = Wrapped \cup {t} /\ Unprinted' = Unprinted
  BY <1>0, <1>1, <1>3, <1>4 DEF Wrapped, Unprinted
<1>7. /\ Cardinality(Wrapped)
           \in Nat /\ Cardinality(Wrapped') = IF wrapped[t] THEN Cardinality(Wrapped)
                                              ELSE Cardinality(Wrapped) + 1
      /\ Highest \in Nat /\ Highest' = IF wrapped[t] THEN Highest ELSE Highest + 1
  <2>1. IsFiniteSet(Wrapped) /\ Cardinality(Wrapped) \in Nat /\ (t \in Wrapped <=> wrapped[t])
    BY <1>0, Numbers DEF Wrapped
  <2>2. Cardinality(Wrapped') = IF wrapped[t] THEN Cardinality(Wrapped) ELSE Cardinality(Wrapped) + 1
    BY <1>6, <2>1, FS_AddElement
  <2> QED
    BY <2>1, <2>2, LimitAssumption DEF Highest
<1>8. Budget \in Int /\ Budget' = IF wrapped[t] THEN Budget ELSE Budget + (Limit - 1)
  <2>1. /\ N \in Nat /\ Cardinality(Unprinted) \in Nat /\ lines \in Nat /\ Budget \in Int
        /\ Cardinality(Wrapped) * (Limit - 1) \in Nat /\ Limit - 1 \in Nat
    BY <1>0, Numbers DEF TypeOK
  <2>2. /\ Budget = N + Cardinality(Wrapped) * (Limit - 1) - Cardinality(Unprinted) - lines
        /\ Budget' = N + Cardinality(Wrapped') * (Limit - 1) - Cardinality(Unprinted) - lines
    BY <1>1, <1>6 DEF Budget, N
  <2>3. Cardinality(Wrapped') * (Limit - 1)
          = IF wrapped[t] THEN Cardinality(Wrapped) * (Limit - 1)
            ELSE Cardinality(Wrapped) * (Limit - 1) + (Limit - 1)
    BY <1>7, <2>1, Product
  <2> HIDE DEF N
  <2> QED
    BY ONLY <2>1, <2>2, <2>3
<1>9. /\ reg[t] \in Nat /\ Limit \in Nat /\ Limit >= 1 /\ count_ \in Nat
      /\ \A c \in Nat : Above(c) \in Nat
  BY <1>0, LimitAssumption DEF TypeOK, Above
<1>10. LinesInv'
  <2>1. CASE wrapped[t]
    <3>1. Active(t)
      BY <1>1, <2>1 DEF Active
    <3>2. \A u \in Timers : ~Active(u)'
      BY <1>0, <1>3, <1>4, <3>1 DEF StrandInv
    <3>3. Above(reg[t] + 1) <= Budget' /\ Budget' >= 0
      BY <1>0, <1>1, <1>8, <2>1 DEF LinesInv
    <3>4. \A u \in Timers : wrapped'[u] => pc'[u] # "load" /\ pc'[u] # "store"
      BY <1>4, <3>2 DEF Active
    <3> QED
      BY <1>1, <3>2, <3>3, <3>4 DEF LinesInv, Above
  <2>2. CASE ~wrapped[t]
    <3>0. Budget \in Int /\ Budget' = Budget + (Limit - 1) /\ Budget >= 0
      BY <1>0, <1>8, <2>2 DEF LinesInv
    <3>1. Budget' >= 0
      BY ONLY <1>9, <3>0
    <3>2. ASSUME NEW u \in Timers, wrapped'[u], pc'[u] = "load"
          PROVE  Above(count_' + 1) + 1 <= Budget'
      <4>1. wrapped[u] /\ pc[u] = "load"
        BY <1>3, <1>4, <3>2
      <4>2. Above(count_ + 1) + 1 <= Budget /\ Above(count_ + 1) \in Nat
        BY <1>0, <1>9, <4>1 DEF LinesInv
      <4>3. Above((reg[t] + 1) + 1) = 0 \/ Above((reg[t] + 1) + 1) + 1 <= Limit - 1
        BY <1>9 DEF Above
      <4>4. Above((reg[t] + 1) + 1) \in Nat
        BY <1>9
      <4>5. Above((reg[t] + 1) + 1) + 1 <= Budget'
        BY ONLY <1>9, <3>0, <4>2, <4>3, <4>4
      <4> QED
        BY <1>1, <4>5
    <3>3. ASSUME NEW u \in Timers, wrapped'[u], pc'[u] = "store"
          PROVE  Above(reg[u] + 1) <= Budget'
      <4>1. wrapped[u] /\ pc[u] = "store"
        BY <1>3, <1>4, <3>3
      <4>2. Above(reg[u] + 1) <= Budget /\ Above(reg[u] + 1) \in Nat
        BY <1>0, <1>9, <4>1 DEF LinesInv, TypeOK
      <4> QED
        BY ONLY <1>9, <3>0, <4>2
    <3>4. Above(count_') <= Budget'
      <4>1. Above(reg[t] + 1) <= Limit - 1 /\ Above(reg[t] + 1) \in Nat
        BY <1>9 DEF Above
      <4>2. Above(reg[t] + 1) <= Budget'
        BY ONLY <1>9, <3>0, <4>1
      <4> QED
        BY <1>1, <4>2
    <3> QED
      BY <1>1, <3>1, <3>2, <3>3, <3>4 DEF LinesInv, Above
  <2> QED
    BY <2>1, <2>2
<1>11. CountInv'
  <2>0. /\ reg[t] <= Highest /\ \A u \in Timers : pc[u] = "store" => reg[u] <= Highest
        /\ \A u \in Timers : reg[u] \in Nat
        /\ \A u \in Timers : pc'[u] = "store" => pc[u] = "store"
    BY <1>0, <1>1, <1>3, <1>4 DEF CountInv, TypeOK
  <2>1. CASE wrapped[t]
    <3>1. Active(t)
      BY <1>1, <2>1 DEF Active
    <3>2. \A u \in Timers : ~Active(u)'
      BY <1>0, <1>3, <1>4, <3>1 DEF StrandInv
    <3>3. Highest' = Highest /\ \A u \in Timers : pc'[u] = "store" => reg[u] < Highest
      BY <1>0, <1>7, <2>0, <2>1, <3>1 DEF CountInv
    <3>4. reg[t] + 1 <= Highest
      <4>1. reg[t] < Highest
        BY <1>0, <1>1, <3>1 DEF CountInv
      <4> QED
        BY ONLY <1>7, <1>9, <4>1
    <3>5. \A u \in Timers : pc'[u] = "store" => reg[u] <= Highest /\ reg[u] # Highest
      BY ONLY <1>7, <2>0, <3>3
    <3> QED
      BY <1>1, <3>2, <3>3, <3>4, <3>5 DEF CountInv
  <2>2. CASE ~wrapped[t]
    <3>1. Highest' = Highest + 1 /\ reg[t] + 1 <= Highest + 1
      BY <1>7, <1>9, <2>0, <2>2
    <3>2. \A u \in Timers : pc'[u] = "store" => reg[u] < Highest + 1 /\ reg[u] <= Highest + 1
                                                /\ reg[u] # Highest + 1
      BY ONLY <1>7, <2>0
    <3>3. ASSUME NEW w \in Timers, Active(w)' PROVE reg[t] + 1 < Highest + 1
      <4>1. Active(w)
        BY <1>3, <1>4, <3>3
      <4>2. reg[t] < Highest
        BY <1>0, <1>1, <4>1 DEF CountInv
      <4> QED
        BY ONLY <1>7, <1>9, <4>2
    <3> QED
      BY <1>1, <3>1, <3>2, <3>3 DEF CountInv
  <2> QED
    BY <2>1, <2>2
<1>12. FinalInv'
  <2>1. final = -1
    BY <1>0, <1>1 DEF FinalInv
  <2> QED
    BY <1>1, <1>4, <2>1 DEF FinalInv
<1> QED
  BY <1>2, <1>5, <1>10, <1>11, <1>12 DEF Inv

LEMMA NextInv == Inv /\ [Next]_vars => Inv'
<1> SUFFICES ASSUME Inv, [Next]_vars PROVE Inv'
  OBVIOUS
<1>1. CASE Finish
  <2>1. TypeOK' /\ FinalInv'
    BY <1>1 DEF Finish, Inv, TypeOK, FinalInv
  <2>2. UNCHANGED <<pc, wrapped, reg, count_, lines>>
    BY <1>1 DEF Finish
  <2> QED
    BY <2>1, <2>2 DEF Inv, StrandInv, Active, LinesInv, CountInv, Budget, N, Wrapped, Unprinted,
       Highest, Above
<1>2. CASE Exited \/ UNCHANGED vars
  <2>1. UNCHANGED vars
    BY <1>2 DEF Exited
  <2> QED
    BY <2>1 DEF vars, Inv, TypeOK, StrandInv, Active, LinesInv, CountInv, FinalInv, Budget, N,
       Wrapped, Unprinted, Highest, Above
<1> QED
  BY <1>1, <1>2, TestInv, LoadInv, StoreInv DEF Next, Handler

LEMMA SpecInv == Spec => []Inv
BY InitInv, NextInv, PTL DEF Spec

-----------------------------------------------------------------------------
\* The variables keep their types.
THEOREM TypeCorrect == Spec => []TypeOK
BY SpecInv, PTL DEF Inv

\* The handlers print at most Limit lines for each timer, however often first handlers take
\* the count back, with any number of timers and any limit.
THEOREM OutputIsBounded == Spec => []OutputBounded
<1>1. ASSUME Inv PROVE OutputBounded
  <2>1. TypeOK /\ Budget >= 0
    BY <1>1 DEF Inv, LinesInv
  <2>2. /\ N \in Nat /\ Cardinality(Wrapped) \in Nat /\ Cardinality(Wrapped) <= N
        /\ Cardinality(Unprinted) \in Nat /\ lines \in Nat /\ Limit - 1 \in Nat /\ Limit \in Nat
        /\ Cardinality(Wrapped) * (Limit - 1) \in Nat
    BY <2>1, Numbers, LimitAssumption DEF TypeOK
  <2>3. \A w, n, l \in Nat : w <= n => w * l <= n * l
    OBVIOUS
  <2>4. Cardinality(Wrapped) * (Limit - 1) <= N * (Limit - 1) /\ N * (Limit - 1) \in Nat
    BY ONLY <2>2, <2>3, Product
  <2>5. N * Limit = N + N * (Limit - 1)
    BY ONLY <2>2
  <2>6. N + Cardinality(Wrapped) * (Limit - 1) - Cardinality(Unprinted) - lines >= 0
    BY <2>1 DEF Budget
  <2>7. lines <= N * Limit
    BY ONLY <2>2, <2>4, <2>5, <2>6
  <2> QED
    BY <2>7 DEF OutputBounded, N
<1> QED
  BY <1>1, SpecInv, PTL

\* What the destructor prints is the limit or more, by less than the number of timers: what
\* EndsAtLimit says of the end, if it comes (tut05.cpp 13-14, 19-34).
THEOREM FinalCountInRange == Spec => [](final # -1 => final \in Limit..Limit + N - 1)
<1>1. ASSUME Inv, final # -1 PROVE final \in Limit..Limit + N - 1
  <2>1. TypeOK /\ final = count_ /\ count_ >= Limit /\ count_ <= Highest
    BY <1>1 DEF Inv, FinalInv, CountInv
  <2>2. /\ N \in Nat /\ Cardinality(Wrapped) \in Nat /\ Cardinality(Wrapped) <= N
        /\ Limit \in Nat /\ count_ \in Nat
    BY <2>1, Numbers, LimitAssumption DEF TypeOK
  <2> HIDE DEF N
  <2> QED
    BY ONLY <2>1, <2>2 DEF Highest
<1>2. Inv => (final # -1 => final \in Limit..Limit + N - 1)
  BY <1>1
<1> QED
  BY <1>2, SpecInv, PTL
=============================================================================
