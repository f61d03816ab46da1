------------------------ MODULE RequestHandlerProofs ------------------------
(***************************************************************************)
(* Theorems about RequestHandler, for every set of uris, every size of a   *)
(* file and every size of the buffer.                                      *)
(***************************************************************************)
EXTENDS RequestHandler, SequenceTheorems, FiniteSetTheorems, WellFoundedInduction, TLAPS

-----------------------------------------------------------------------------
(* The inductive invariant *)

\* What the loop over a file has appended after n bytes.
Numbered(n) == [k \in 1..n |-> k]

\* The reply of a file that has been read.
FileReply ==
  [status  |-> "ok",
   content |-> Numbered(size),
   headers |-> <<HeaderField("Conetent-Length", size),
                 HeaderField("Content-type", ExtensionToType(extension))>>]

\* The reply is filled in only by the branch that ends the request, or by the read loop.
RepInv ==
  /\ pc = "decode" => rep = FreshReply
  /\ pc = "read" => \E n \in 0..size :
                      rep = [status |-> "ok", content |-> Numbered(n), headers |-> <<>>]
  /\ pc = "done" => rep \in {StockReply("bad_request"), StockReply("not_found"), FileReply}

\* What was opened and what its type goes by are those of the completed path, which is
\* still a usable one.
NameInv ==
  /\ pc = "decode" => opened = <<>>
  /\ opened # <<>> \/ rep.status = "ok" =>
       /\ Usable(request_path)
       /\ opened = CString(request_path)
       /\ extension = Extension(request_path)

\* The index is not inside an escape.
Aligned == /\ i > 0 => uri[i] # Percent
           /\ i > 1 => uri[i - 1] # Percent

\* out holds what the places before the index stand for.
DecodedSoFar ==
  /\ Len(request_path) = Rank(uri, i)
  /\ \A n \in 1..Len(request_path) :
       \E k \in Starts(uri) : Rank(uri, k) = n /\ request_path[n] = Stands(uri, k)

DecodeInv ==
  WellFormed(uri) => /\ pc = "decode" => Aligned /\ DecodedSoFar
                     /\ pc # "decode" => i = Len(uri)

\* The index is never past a bad escape.
RefuseInv ==
  \A k \in 1..Len(uri) : BadAt(uri, k) =>
    /\ pc = "decode" => i < k
    /\ pc # "decode" => pc = "done" /\ opened = <<>> /\ rep.status = "bad_request"

Inv == TypeOK /\ RepInv /\ NameInv /\ DecodeInv /\ RefuseInv

-----------------------------------------------------------------------------
(* Places in a sequence: the first and the last *)

LEMMA FirstPlace ==
  ASSUME NEW S \in SUBSET Nat, S # {}
  PROVE  \E k \in S : \A j \in S : k <= j
<1> DEFINE T == {S \cap (0..k) : k \in S}
<1>1. T \subseteq FiniteSubsetsOf(Nat) /\ T # {}
  <2>1. ASSUME NEW k \in S PROVE S \cap (0..k) \in FiniteSubsetsOf(Nat)
    <3>1. IsFiniteSet(0..k)
      BY FS_Interval
    <3>2. IsFiniteSet(S \cap (0..k))
      BY <3>1, FS_Subset
    <3>3. QED BY <3>2 DEF FiniteSubsetsOf
  <2>2. QED BY <2>1
<1>2. PICK x \in T : \A y \in T : ~(<<y, x>> \in StrictSubsetOrdering(Nat))
  BY <1>1, FS_StrictSubsetOrderingWellFounded, WFMin
<1>3. PICK k \in S : x = S \cap (0..k)
  BY <1>2
<1>4. ASSUME NEW j \in S, j < k PROVE FALSE
  <2>1. S \cap (0..j) \subseteq x /\ k \in x /\ k \notin S \cap (0..j)
    BY <1>3, <1>4
  <2>2. S \cap (0..j) \in T /\ S \cap (0..j) \in SUBSET Nat /\ x \in SUBSET Nat
    BY <1>3
  <2>3. <<S \cap (0..j), x>> \in StrictSubsetOrdering(Nat)
    BY <2>1, <2>2 DEF StrictSubsetOrdering
  <2>4. QED BY <1>2, <2>2, <2>3
<1>5. QED BY <1>4

LEMMA LastPlace ==
  ASSUME NEW n \in Nat, NEW S \in SUBSET (1..n), S # {}
  PROVE  \E k \in S : \A j \in S : j <= k
<1>1. {n - k : k \in S} \in SUBSET Nat /\ {n - k : k \in S} # {}
  <2>1. ASSUME NEW k \in S PROVE n - k \in Nat
    <3>1. k \in 1..n
      OBVIOUS
    <3>2. QED BY <3>1
  <2>2. QED BY <2>1
<1>2. PICK m \in {n - k : k \in S} : \A d \in {n - k : k \in S} : m <= d
  BY <1>1, FirstPlace
<1>3. PICK k \in S : m = n - k
  BY <1>2
<1>4. ASSUME NEW j \in S PROVE j <= k
  <2>1. n - k <= n - j
    BY <1>2, <1>3
  <2>2. QED BY <2>1
<1>5. QED BY <1>4

\* What LastOf returns: 0 if c is not in p, else the last of its places.
LEMMA LastOfPlace ==
  ASSUME NEW p \in Seq(Byte), NEW c
  PROVE  /\ LastOf(p, c) \in 0..Len(p)
         /\ LastOf(p, c) # 0 => p[LastOf(p, c)] = c
         /\ \A k \in 1..Len(p) : p[k] = c => k <= LastOf(p, c)
<1> DEFINE P == {k \in 1..Len(p) : p[k] = c}
<1>1. Len(p) \in Nat /\ P \in SUBSET (1..Len(p))
  OBVIOUS
<1>2. CASE P = {}
  <2>1. LastOf(p, c) = 0
    BY <1>2 DEF LastOf
  <2>2. QED BY <1>1, <1>2, <2>1
<1>3. CASE P # {}
  <2>1. \E k \in P : \A j \in P : j <= k
    BY <1>1, <1>3, LastPlace
  <2>2. LastOf(p, c) = CHOOSE k \in P : \A j \in P : j <= k
    BY <1>3 DEF LastOf
  <2>3. LastOf(p, c) \in P /\ \A j \in P : j <= LastOf(p, c)
    BY <2>1, <2>2
  <2>4. QED BY <1>1, <2>3
<1>4. QED BY <1>2, <1>3

\* What CString returns: all of p up to its first 0.
LEMMA CStringPrefix ==
  ASSUME NEW p \in Seq(Byte)
  PROVE  /\ CString(p) \in Seq(Byte \ {0})
         /\ Len(CString(p)) <= Len(p)
         /\ \A k \in 1..Len(CString(p)) : CString(p)[k] = p[k]
         /\ p # <<>> /\ p[1] # 0 => CString(p) # <<>>
         /\ (\A k \in 1..Len(p) : p[k] # 0) => CString(p) = p
<1> DEFINE Z == {k \in 1..Len(p) : p[k] = 0}
           z == CHOOSE k \in Z : \A j \in Z : k <= j
<1>1. Len(p) \in Nat /\ Z \in SUBSET (1..Len(p)) /\ Z \in SUBSET Nat
  OBVIOUS
<1>2. CASE Z = {}
  <2>1. CString(p) = p
    BY <1>2 DEF CString
  <2>2. \A k \in 1..Len(p) : p[k] \in Byte \ {0}
    BY <1>2, ElementOfSeq
  <2>3. p \in Seq(Byte \ {0})
    BY <2>2
  <2>4. QED BY <2>1, <2>3
<1>3. CASE Z # {}
  <2>1. z \in Z /\ \A j \in Z : z <= j
    <3>1. \E k \in Z : \A j \in Z : k <= j
      BY <1>1, <1>3, FirstPlace
    <3>2. QED BY <3>1
  <2> HIDE DEF z
  <2>2. CString(p) = SubSeq(p, 1, z - 1)
    BY <1>3 DEF CString, z
  <2>3. z \in 1..Len(p) /\ p[z] = 0
    BY <2>1
  <2>4. \A k \in 1..(z - 1) : p[k] \in Byte \ {0}
    <3>1. ASSUME NEW k \in 1..(z - 1) PROVE p[k] \in Byte \ {0}
      <4>1. k \in 1..Len(p) /\ k < z
        BY <1>1, <2>3
      <4>2. k \notin Z
        BY <2>1, <4>1
      <4>3. QED BY <4>1, <4>2, ElementOfSeq
    <3>2. QED BY <3>1
  <2>5. /\ CString(p) \in Seq(Byte \ {0})
        /\ Len(CString(p)) = z - 1
        /\ \A k \in 1..(z - 1) : CString(p)[k] = p[k]
    <3>1. 1 \in Int /\ z - 1 \in Int
      BY <2>3
    <3>2. /\ SubSeq(p, 1, z - 1) \in Seq(Byte \ {0})
          /\ Len(SubSeq(p, 1, z - 1)) = IF 1 <= z - 1 THEN (z - 1) - 1 + 1 ELSE 0
          /\ \A k \in 1..((z - 1) - 1 + 1) : SubSeq(p, 1, z - 1)[k] = p[1 + k - 1]
      BY <2>4, <3>1, SubSeqProperties
    <3>3. QED BY <2>2, <2>3, <3>2
  <2>6. p[1] # 0 => CString(p) # <<>>
    BY <2>3, <2>5
  <2>7. QED BY <1>1, <2>3, <2>5, <2>6
<1>4. QED BY <1>2, <1>3

-----------------------------------------------------------------------------
(* What the pieces of handle_request return *)

LEMMA HexDigits ==
  \A c : IsHex(c) => c # Percent /\ c # Plus /\ c # Minus /\ c \notin LetterX
BY DEF IsHex, Percent, Plus, Minus, LetterX

LEMMA ExtractedIsByte ==
  ASSUME NEW a \in Byte, NEW b \in Byte, Extracts(a, b)
  PROVE  Extracted(a, b) \in Byte
<1>1. \A c : IsHex(c) => HexValue(c) \in 0..15
  BY DEF IsHex, HexValue
<1>2. CASE IsHex(a)
  <2>1. HexValue(a) \in 0..15
    BY <1>1, <1>2
  <2>2. CASE IsHex(b)
    <3>0. a # Plus /\ a # Minus
      BY <1>2 DEF Plus, Minus, IsHex
    <3>1. HexValue(b) \in 0..15 /\ Extracted(a, b) = 16 * HexValue(a) + HexValue(b)
      BY <1>1, <1>2, <2>2, <3>0 DEF Extracted
    <3>2. \A h, l \in 0..15 : 16 * h + l \in Byte
      BY DEF Byte
    <3>3. QED BY ONLY <2>1, <3>1, <3>2
  <2>3. CASE ~IsHex(b)
    <3>1. Extracted(a, b) = HexValue(a)
      BY <1>2, <2>3 DEF Extracted, Plus, Minus, IsHex
    <3>2. QED BY <2>1, <3>1 DEF Byte
  <2>4. QED BY <2>2, <2>3
<1>3. CASE ~IsHex(a)
  <2>1. a \in {Plus, Minus} /\ IsHex(b)
    BY <1>3 DEF Extracts
  <2>2. HexValue(b) \in 0..15
    BY <1>1, <2>1
  <2>3. Extracted(a, b) \in {HexValue(b), (256 - HexValue(b)) % 256}
    BY <1>3, <2>1 DEF Extracted, Plus, Minus
  <2>4. \A h \in 0..15 : (256 - h) % 256 \in Byte
    BY SMT DEF Byte
  <2>5. QED BY <2>2, <2>3, <2>4 DEF Byte
<1>4. QED BY <1>2, <1>3

\* index.html brings no "..": the path ends in "/" before it and it has one dot.
LEMMA IndexKeepsUsable ==
  ASSUME NEW p \in Seq(Byte), Usable(p)
  PROVE  WithIndex(p) \in Seq(Byte) /\ Usable(WithIndex(p))
<1>1. CASE p[Len(p)] # Slash
  BY <1>1 DEF WithIndex
<1>2. CASE p[Len(p)] = Slash
  <2>1. IndexHtml \in Seq(Byte) /\ Len(IndexHtml) = 10
    BY DEF IndexHtml, Byte, Dot
  <2>2. \A k \in 1..10 : IndexHtml[k] = Dot => k = 6
    BY SMTT(30) DEF IndexHtml, Dot
  <2> DEFINE q == p \o IndexHtml
  <2>3. WithIndex(p) = q
    BY <1>2 DEF WithIndex
  <2>4. /\ q \in Seq(Byte) /\ Len(q) = Len(p) + 10
        /\ \A k \in 1..(Len(p) + 10) : q[k] = IF k <= Len(p) THEN p[k] ELSE IndexHtml[k - Len(p)]
    <3>1. /\ q \in Seq(Byte) /\ Len(q) = Len(p) + Len(IndexHtml)
          /\ \A k \in 1..(Len(p) + Len(IndexHtml)) :
               q[k] = IF k <= Len(p) THEN p[k] ELSE IndexHtml[k - Len(p)]
      BY <2>1, ConcatProperties
    <3>2. QED BY <2>1, <3>1
  <2>5. Len(p) \in Nat /\ Len(p) >= 1 /\ p[1] = Slash
    BY DEF Usable
  <2> HIDE DEF q
  <2>6. ASSUME NEW k \in 1..(Len(q) - 1), q[k] = Dot, q[k + 1] = Dot PROVE FALSE
    <3>1. k \in 1..(Len(p) + 9) /\ k \in 1..(Len(p) + 10) /\ k + 1 \in 1..(Len(p) + 10)
      BY <2>4, <2>5
    <3>2. CASE k < Len(p)
      <4>1. q[k] = p[k] /\ q[k + 1] = p[k + 1] /\ k \in 1..(Len(p) - 1)
        BY <2>4, <2>5, <3>1, <3>2
      <4>2. QED BY <2>6, <4>1 DEF Usable
    <3>3. CASE k = Len(p)
      <4>1. q[k] = p[k]
        BY <2>4, <3>1, <3>3
      <4>2. QED BY <1>2, <2>6, <3>3, <4>1 DEF Slash, Dot
    <3>4. CASE k > Len(p)
      <4>0. /\ k - Len(p) \in 1..10 /\ (k + 1) - Len(p) \in 1..10
            /\ ~(k <= Len(p)) /\ ~(k + 1 <= Len(p))
        BY ONLY <2>5, <3>1, <3>4
      <4>1. q[k] = IndexHtml[k - Len(p)] /\ q[k + 1] = IndexHtml[(k + 1) - Len(p)]
        BY <2>4, <3>1, <4>0
      <4>2. k - Len(p) = 6 /\ (k + 1) - Len(p) = 6
        BY <2>2, <2>6, <4>0, <4>1
      <4>3. QED BY <2>5, <3>1, <4>2
    <3>5. QED BY <2>5, <3>1, <3>2, <3>3, <3>4
  <2>7. q # <<>> /\ q[1] = Slash
    BY <2>4, <2>5
  <2>8. QED BY <2>3, <2>4, <2>6, <2>7 DEF Usable
<1>3. QED BY <1>1, <1>2

LEMMA ExtensionType ==
  ASSUME NEW p \in Seq(Byte)
  PROVE  Extension(p) \in Seq(Byte)
<1>1. LastOf(p, Dot) \in 0..Len(p) /\ Len(p) \in Nat
  BY LastOfPlace
<1>2. \A k \in (LastOf(p, Dot) + 1)..Len(p) : p[k] \in Byte
  BY <1>1, ElementOfSeq
<1>3. SubSeq(p, LastOf(p, Dot) + 1, Len(p)) \in Seq(Byte)
  BY <1>1, <1>2, SubSeqProperties
<1>4. QED BY <1>3 DEF Extension

-----------------------------------------------------------------------------
(* The invariant holds at the start *)

LEMMA InitInv == Init => Inv
<1> SUFFICES ASSUME Init PROVE Inv
  OBVIOUS
<1>1. uri \in Seq(Byte) /\ Len(uri) \in Nat
  <2>1. uri \in Seq(Byte \ {32})
    BY UrisAssumption DEF Init
  <2>2. QED BY <2>1, SeqMonotonic DEF Byte
<1>2. TypeOK
  BY <1>1 DEF Init, TypeOK, FreshReply
<1>3. RepInv /\ NameInv
  BY DEF Init, RepInv, NameInv, FreshReply
<1>4. DecodedSoFar
  <2>1. {j \in Starts(uri) : j <= 0} = {}
    BY DEF Starts
  <2>2. Rank(uri, 0) = 0
    BY <2>1, FS_EmptySet DEF Rank
  <2>3. QED BY <2>2 DEF Init, DecodedSoFar
<1>5. DecodeInv
  BY <1>4 DEF Init, DecodeInv, Aligned
<1>6. RefuseInv
  BY DEF Init, RefuseInv
<1>7. QED BY <1>2, <1>3, <1>5, <1>6 DEF Inv

-----------------------------------------------------------------------------
(* The types and the reply *)

LEMMA TypeStep ==
  ASSUME TypeOK, RepInv, Next
  PROVE  TypeOK'
<1>1. Len(uri) \in Nat /\ i \in Nat
  BY DEF TypeOK
<1>2. CASE DecodeEscape
  <2>1. At(1) \in Byte /\ At(2) \in Byte /\ i' \in 0..Len(uri)
    <3>1. /\ i + 1 + 1 \in 1..Len(uri) /\ i + 2 + 1 \in 1..Len(uri) /\ i' = i + 3
          /\ i + 1 < Len(uri) /\ i + 2 < Len(uri)
      BY <1>1, <1>2 DEF DecodeEscape, PastEscape, Whole
    <3>2. QED BY <1>1, <1>2, <3>1, ElementOfSeq DEF DecodeEscape, At, TypeOK
  <2>2. request_path' \in Seq(Byte)
    BY <1>2, <2>1, ExtractedIsByte DEF DecodeEscape, TypeOK
  <2>3. QED BY <1>2, <2>1, <2>2 DEF DecodeEscape, TypeOK
<1>3. CASE DecodeFails
  BY <1>3 DEF DecodeFails, Fails, StockReply, TypeOK
<1>4. CASE DecodePlain
  <2>1. i + 1 \in 1..Len(uri) /\ i + 0 + 1 = i + 1 /\ i + 0 < Len(uri)
    BY <1>1, <1>4 DEF DecodePlain, Decoding
  <2>2. At(0) \in Byte /\ Space \in Byte
    BY <2>1, ElementOfSeq DEF At, TypeOK, Space, Byte
  <2>3. request_path' \in Seq(Byte)
    BY <1>4, <2>2 DEF DecodePlain, TypeOK
  <2>4. QED BY <1>4, <2>1, <2>3 DEF DecodePlain, TypeOK
<1>5. CASE RefusePath
  BY <1>5 DEF RefusePath, Fails, StockReply, TypeOK
<1>6. CASE OpenFile
  <2>1. request_path' \in Seq(Byte)
    BY <1>6, IndexKeepsUsable DEF OpenFile, TypeOK
  <2>2. extension' \in Seq(Byte) /\ opened' \in Seq(Byte \ {0})
    BY <1>6, <2>1, ExtensionType, CStringPrefix DEF OpenFile
  <2>3. size' \in Nat
    BY <1>6, SizesAssumption DEF OpenFile, TypeOK
  <2>4. rep'.status \in {"ok", "not_found"}
    BY <1>6 DEF OpenFile, Decoded, RepInv, FreshReply, StockReply
  <2>5. QED BY <1>6, <2>1, <2>2, <2>3, <2>4 DEF OpenFile, TypeOK
<1>7. CASE ReadSome
  BY <1>7 DEF ReadSome, RepInv, TypeOK
<1>8. CASE ReadEnd
  BY <1>8 DEF ReadEnd, RepInv, TypeOK
<1>9. QED BY <1>2, <1>3, <1>4, <1>5, <1>6, <1>7, <1>8 DEF Next

\* One read appends the numbers that come next.
LEMMA ReadAppends ==
  ASSUME NEW n \in Nat, NEW g \in Nat
  PROVE  Numbered(n) \o [k \in 1..g |-> n + k] = Numbered(n + g)
<1> DEFINE s == Numbered(n)
           t == [k \in 1..g |-> n + k]
<1>1. s \in Seq(Nat) /\ t \in Seq(Nat) /\ Len(s) = n /\ Len(t) = g
  BY DEF Numbered
<1>2. \A k \in 1..n : s[k] = k
  BY DEF Numbered
<1>3. \A k \in 1..g : t[k] = n + k
  OBVIOUS
<1>4. Numbered(n + g) \in Seq(Nat) /\ Len(Numbered(n + g)) = n + g
  BY DEF Numbered
<1>5. \A k \in 1..(n + g) : Numbered(n + g)[k] = k
  BY DEF Numbered
<1> HIDE DEF s, t
<1>6. s \o t \in Seq(Nat) /\ Len(s \o t) = n + g
  BY <1>1, ConcatProperties
<1>7. \A k \in 1..(n + g) : (s \o t)[k] = IF k <= n THEN s[k] ELSE t[k - n]
  <2>1. \A k \in 1..(Len(s) + Len(t)) : (s \o t)[k] = IF k <= Len(s) THEN s[k] ELSE t[k - Len(s)]
    BY <1>1, ConcatProperties
  <2>2. QED BY <1>1, <2>1
<1>8. ASSUME NEW k \in 1..(n + g) PROVE (s \o t)[k] = k
  <2>1. CASE k <= n
    <3>1. k \in 1..n
      BY <2>1
    <3>2. QED BY <1>2, <1>7, <2>1, <3>1
  <2>2. CASE ~(k <= n)
    <3>1. k - n \in 1..g /\ n + (k - n) = k
      BY <2>2
    <3>2. QED BY <1>3, <1>7, <2>2, <3>1
  <2>3. QED BY <2>1, <2>2
<1>9. s \o t = Numbered(n + g)
  BY <1>4, <1>5, <1>6, <1>8, SeqEqual
<1>10. QED BY <1>9 DEF s, t

\* The reply is either the fresh one, a stock reply, or what the read loop makes of a file:
\* after ReadEnd, all of it, because gcount() is 0 only at the end.
LEMMA RepStep ==
  ASSUME TypeOK, RepInv, Next
  PROVE  RepInv'
<1>1. CASE DecodeEscape \/ DecodePlain
  BY <1>1 DEF DecodeEscape, DecodePlain, Decoding, RepInv, FreshReply
<1>2. CASE DecodeFails \/ RefusePath
  BY <1>2 DEF DecodeFails, RefusePath, Fails, RepInv
<1>3. CASE OpenFile
  <2>1. CASE rep' = StockReply("not_found") /\ pc' = "done"
    BY <2>1 DEF RepInv
  <2>2. CASE size' \in Sizes \cup {0} /\ pc' = "read" /\ rep' = [rep EXCEPT !.status = "ok"]
    <3>1. rep' = [status |-> "ok", content |-> <<>>, headers |-> <<>>]
      BY <1>3, <2>2 DEF OpenFile, Decoded, RepInv, FreshReply
    <3>2. Numbered(0) = <<>>
      BY DEF Numbered
    <3>3. 0 \in 0..size'
      BY <2>2, SizesAssumption
    <3>4. QED BY <2>2, <3>1, <3>2, <3>3 DEF RepInv
  <2>3. QED BY <1>3, <2>1, <2>2 DEF OpenFile
<1>4. CASE ReadSome \/ ReadEnd
  <2>1. PICK n \in 0..size :
          rep = [status |-> "ok", content |-> Numbered(n), headers |-> <<>>]
    BY <1>4 DEF ReadSome, ReadEnd, RepInv
  <2>2. rep.content = Numbered(n) /\ Len(rep.content) = n /\ n \in Nat /\ size \in Nat
    BY <2>1 DEF Numbered, TypeOK
  <2>3. Gcount \in Nat /\ n + Gcount \in 0..size /\ (Gcount = 0 => n = size)
    <3>1. Gcount = IF size - n < BufSize THEN size - n ELSE BufSize
      BY <2>2 DEF Gcount
    <3>2. QED BY <2>1, <2>2, <3>1, BufSizeAssumption
  <2>4. CASE ReadSome
    <3>1. rep' = [status |-> "ok", content |-> Numbered(n) \o [k \in 1..Gcount |-> n + k],
                  headers |-> <<>>]
      BY <2>1, <2>2, <2>4 DEF ReadSome
    <3>2. rep' = [status |-> "ok", content |-> Numbered(n + Gcount), headers |-> <<>>]
      BY <2>2, <2>3, <3>1, ReadAppends
    <3>3. size' = size /\ pc' = "read"
      BY <2>4 DEF ReadSome
    <3>4. QED BY <2>3, <3>2, <3>3 DEF RepInv
  <2>5. CASE ReadEnd
    <3>1. n = size /\ pc' = "done" /\ size' = size /\ extension' = extension
      BY <2>3, <2>5 DEF ReadEnd
    <3>2. rep' = FileReply
      BY <2>1, <2>2, <2>5, <3>1 DEF ReadEnd, FileReply
    <3>3. FileReply' = FileReply
      BY <3>1 DEF FileReply, Numbered, HeaderField
    <3>4. QED BY <3>1, <3>2, <3>3 DEF RepInv
  <2>6. QED BY <1>4, <2>4, <2>5
<1>5. QED BY <1>1, <1>2, <1>3, <1>4 DEF Next

-----------------------------------------------------------------------------
(* The name that is opened *)

LEMMA NameStep ==
  ASSUME TypeOK, RepInv, NameInv, Next
  PROVE  NameInv'
<1>1. CASE OpenFile
  <2>1. request_path' = WithIndex(request_path) /\ Usable(request_path')
    BY <1>1, IndexKeepsUsable DEF OpenFile, TypeOK
  <2>2. QED BY <1>1, <2>1 DEF OpenFile, NameInv
<1>2. CASE ReadSome \/ ReadEnd
  <2>1. rep.status = "ok" /\ UNCHANGED <<request_path, opened, extension>> /\ pc' # "decode"
    BY <1>2 DEF ReadSome, ReadEnd, RepInv
  <2>2. QED BY <2>1 DEF NameInv
<1>3. CASE DecodeEscape \/ DecodePlain \/ DecodeFails \/ RefusePath
  <2>1. opened' = opened /\ rep'.status # "ok"
    BY <1>3 DEF DecodeEscape, DecodePlain, DecodeFails, RefusePath, Fails, Decoding, Decoded,
                StockReply, RepInv, FreshReply
  <2>2. opened = <<>>
    BY <1>3 DEF DecodeEscape, DecodePlain, DecodeFails, RefusePath, Decoding, Decoded, NameInv
  <2>3. QED BY <2>1, <2>2 DEF NameInv
<1>4. QED BY <1>1, <1>2, <1>3 DEF Next

-----------------------------------------------------------------------------
(* The rank of a place: how many characters of the output come up to it *)

LEMMA RankType ==
  ASSUME NEW u \in Seq(Byte), NEW k \in Nat
  PROVE  /\ IsFiniteSet({j \in Starts(u) : j <= k})
         /\ Rank(u, k) \in Nat
<1>1. IsFiniteSet(1..Len(u)) /\ {j \in Starts(u) : j <= k} \in SUBSET (1..Len(u))
  BY FS_Interval DEF Starts
<1>2. IsFiniteSet({j \in Starts(u) : j <= k})
  BY <1>1, FS_Subset
<1>3. QED BY <1>2, FS_CardinalityType DEF Rank

\* From a to b there is one more character if a + 1 is the only place between that starts one.
LEMMA RankNext ==
  ASSUME NEW u \in Seq(Byte), NEW a \in Nat, NEW b \in Nat, a < b,
         a + 1 \in Starts(u), \A j \in (a + 2)..b : j \notin Starts(u)
  PROVE  Rank(u, b) = Rank(u, a) + 1
<1> DEFINE A == {j \in Starts(u) : j <= a}
<1>1. {j \in Starts(u) : j <= b} = A \cup {a + 1}
  <2>1. Starts(u) \in SUBSET Nat
    BY DEF Starts
  <2>2. ASSUME NEW j \in Starts(u), j <= b, ~(j <= a) PROVE j = a + 1
    BY <2>1, <2>2
  <2>3. ASSUME NEW j \in Starts(u), j <= a PROVE j <= b
    BY <2>1, <2>3
  <2>4. QED BY <2>2, <2>3
<1>2. a + 1 \notin A
  OBVIOUS
<1>3. IsFiniteSet(A) /\ Rank(u, a) = Cardinality(A)
  BY RankType DEF Rank
<1> HIDE DEF A
<1>4. Cardinality(A \cup {a + 1}) = Cardinality(A) + 1
  BY <1>2, <1>3, FS_AddElement
<1>5. QED BY <1>1, <1>3, <1>4 DEF Rank

LEMMA RankInjective ==
  ASSUME NEW u \in Seq(Byte), NEW k \in Starts(u), NEW l \in Starts(u), Rank(u, k) = Rank(u, l)
  PROVE  k = l
<1>1. ASSUME NEW a \in Starts(u), NEW b \in Starts(u), a < b PROVE Rank(u, a) # Rank(u, b)
  <2>1. a \in Nat /\ b \in Nat
    BY DEF Starts
  <2>2. /\ {j \in Starts(u) : j <= a} \in SUBSET {j \in Starts(u) : j <= b}
        /\ b \notin {j \in Starts(u) : j <= a} /\ b \in {j \in Starts(u) : j <= b}
    BY <1>1, <2>1 DEF Starts
  <2>3. {j \in Starts(u) : j <= a} # {j \in Starts(u) : j <= b}
    BY <2>2
  <2>4. QED BY <2>1, <2>2, <2>3, RankType, FS_Subset DEF Rank
<1>2. k \in Nat /\ l \in Nat
  BY DEF Starts
<1>3. QED BY <1>1, <1>2

\* One more character is put out, and the index moves past the place that stands for it.
LEMMA DecodedGrows ==
  ASSUME TypeOK, DecodedSoFar, uri' = uri, i' \in Nat, i < i',
         i + 1 \in Starts(uri), \A j \in (i + 2)..i' : j \notin Starts(uri),
         Stands(uri, i + 1) \in Byte, request_path' = Append(request_path, Stands(uri, i + 1))
  PROVE  DecodedSoFar'
<1>1. i \in Nat /\ i + 1 \in Nat /\ uri \in Seq(Byte) /\ request_path \in Seq(Byte)
  BY DEF TypeOK
<1>2. Rank(uri, i') = Rank(uri, i) + 1
  BY <1>1, RankNext
<1>3. Rank(uri, i + 1) = Rank(uri, i) + 1
  <2>1. \A j \in (i + 2)..(i + 1) : j \notin Starts(uri)
    BY <1>1
  <2>2. QED BY <1>1, <2>1, RankNext
<1>4. Rank(uri, i) \in Nat /\ Len(request_path) = Rank(uri, i)
  BY <1>1, RankType DEF DecodedSoFar
<1>5. /\ Len(request_path') = Rank(uri, i) + 1
      /\ \A n \in 1..Len(request_path) : request_path'[n] = request_path[n]
      /\ request_path'[Rank(uri, i) + 1] = Stands(uri, i + 1)
  BY <1>1, <1>4
<1>6. ASSUME NEW n \in 1..Len(request_path')
      PROVE  \E k \in Starts(uri) : Rank(uri, k) = n /\ request_path'[n] = Stands(uri, k)
  <2>1. CASE n \in 1..Len(request_path)
    BY <1>5, <2>1 DEF DecodedSoFar
  <2>2. CASE n \notin 1..Len(request_path)
    <3>1. n = Rank(uri, i) + 1
      BY <1>4, <1>5, <2>2
    <3>2. QED BY <1>3, <1>5, <3>1
  <2>3. QED BY <2>1, <2>2
<1>7. QED BY <1>2, <1>5, <1>6 DEF DecodedSoFar

-----------------------------------------------------------------------------
(* The loop of url_decode *)

LEMMA EscapeStep ==
  ASSUME TypeOK, DecodeInv, WellFormed(uri), DecodeEscape
  PROVE  Aligned' /\ DecodedSoFar'
<1>1. /\ i \in Nat /\ Len(uri) \in Nat /\ uri \in Seq(Byte) /\ i + 1 \in 1..Len(uri)
      /\ i' = i + 3 /\ uri' = uri /\ i + 0 + 1 = i + 1 /\ i + 1 + 1 = i + 2 /\ i + 2 + 1 = i + 3
      /\ i + 0 < Len(uri) /\ i + 1 < Len(uri) /\ i + 2 < Len(uri)
  BY DEF DecodeEscape, Decoding, PastEscape, Whole, TypeOK
<1>2. uri[i + 1] = Percent /\ Aligned /\ DecodedSoFar
  BY <1>1 DEF DecodeEscape, Decoding, At, DecodeInv
<1>3. IsHex(uri[i + 2]) /\ IsHex(uri[i + 3]) /\ i + 3 <= Len(uri)
  <2>1. (i + 1) + 1 = i + 2 /\ (i + 1) + 2 = i + 3
    BY <1>1
  <2>2. QED BY <1>1, <1>2, <2>1 DEF WellFormed
<1>4. uri[i + 2] # Percent /\ uri[i + 3] # Percent
  BY <1>3, HexDigits
<1>5. Aligned'
  BY <1>1, <1>4 DEF Aligned
<1>6. i + 1 \in Starts(uri)
  BY <1>1, <1>2 DEF Starts, Aligned
<1>7. \A j \in (i + 2)..(i + 3) : j \notin Starts(uri)
  <2>1. i + 2 \notin Starts(uri)
    BY <1>1, <1>2 DEF Starts
  <2>2. i + 3 \notin Starts(uri)
    BY <1>1, <1>2 DEF Starts
  <2>3. \A j \in (i + 2)..(i + 3) : j = i + 2 \/ j = i + 3
    BY <1>1
  <2>4. QED BY <2>1, <2>2, <2>3
<1>8. At(1) = uri[i + 2] /\ At(2) = uri[i + 3]
  BY <1>1 DEF At
<1>9. /\ Extracts(At(1), At(2))
      /\ request_path' = Append(request_path, Extracted(At(1), At(2)))
  BY DEF DecodeEscape
<1>10. Stands(uri, i + 1) = Extracted(At(1), At(2))
  <2>1. uri[i + 2] # Plus /\ uri[i + 2] # Minus
    BY <1>3, HexDigits
  <2>2. Extracted(uri[i + 2], uri[i + 3]) = 16 * HexValue(uri[i + 2]) + HexValue(uri[i + 3])
    BY <1>3, <2>1 DEF Extracted
  <2>3. (i + 1) + 1 = i + 2 /\ (i + 1) + 2 = i + 3
    BY <1>1
  <2>4. Stands(uri, i + 1) = 16 * HexValue(uri[i + 2]) + HexValue(uri[i + 3])
    BY <1>2, <2>3 DEF Stands, Percent, Plus
  <2>5. QED BY <1>8, <2>2, <2>4
<1>11. Stands(uri, i + 1) \in Byte
  <2>1. uri[i + 2] \in Byte /\ uri[i + 3] \in Byte
    BY <1>1, <1>3, ElementOfSeq
  <2>2. QED BY <1>8, <1>9, <1>10, <2>1, ExtractedIsByte
<1>12. i' \in Nat /\ i < i' /\ \A j \in (i + 2)..i' : j \notin Starts(uri)
  BY <1>1, <1>7
<1>13. DecodedSoFar'
  BY <1>1, <1>2, <1>6, <1>9, <1>10, <1>11, <1>12, DecodedGrows
<1>14. QED BY <1>5, <1>13

LEMMA PlainStep ==
  ASSUME TypeOK, DecodeInv, WellFormed(uri), DecodePlain
  PROVE  Aligned' /\ DecodedSoFar'
<1>1. /\ i \in Nat /\ Len(uri) \in Nat /\ uri \in Seq(Byte) /\ i + 1 \in 1..Len(uri)
      /\ i' = i + 1 /\ uri' = uri /\ i + 0 + 1 = i + 1 /\ i + 0 < Len(uri)
  BY DEF DecodePlain, Decoding, TypeOK
<1>2. uri[i + 1] # Percent /\ Aligned /\ DecodedSoFar
  BY <1>1 DEF DecodePlain, Decoding, At, DecodeInv
<1>3. Aligned'
  BY <1>1, <1>2 DEF Aligned
<1>4. i + 1 \in Starts(uri)
  BY <1>1, <1>2 DEF Starts, Aligned
<1>5. i' \in Nat /\ i < i' /\ \A j \in (i + 2)..i' : j \notin Starts(uri)
  BY <1>1
<1>6. /\ Stands(uri, i + 1) = IF uri[i + 1] = Plus THEN Space ELSE uri[i + 1]
      /\ uri[i + 1] \in Byte /\ Space \in Byte
  <2>1. uri[i + 1] \in Byte
    BY <1>1, ElementOfSeq
  <2>2. QED BY <1>2, <2>1 DEF Stands, Space, Byte
<1>7. request_path' = Append(request_path, Stands(uri, i + 1))
  BY <1>1, <1>6 DEF DecodePlain, At
<1>8. DecodedSoFar'
  BY <1>1, <1>2, <1>4, <1>5, <1>6, <1>7, DecodedGrows
<1>9. QED BY <1>3, <1>8

LEMMA DecodeStep ==
  ASSUME TypeOK, DecodeInv, Next
  PROVE  DecodeInv'
<1> SUFFICES ASSUME WellFormed(uri') PROVE /\ pc' = "decode" => Aligned' /\ DecodedSoFar'
                                           /\ pc' # "decode" => i' = Len(uri')
  BY DEF DecodeInv
<1>1. uri' = uri
  BY DEF Next, DecodeEscape, DecodeFails, DecodePlain, RefusePath, OpenFile, ReadSome, ReadEnd, Fails
<1>2. WellFormed(uri) /\ i \in 0..Len(uri) /\ Len(uri) \in Nat
  BY <1>1 DEF TypeOK
<1>3. CASE DecodeEscape
  BY <1>2, <1>3, EscapeStep DEF DecodeEscape, Decoding
<1>4. CASE DecodePlain
  BY <1>2, <1>4, PlainStep DEF DecodePlain, Decoding
<1>5. CASE DecodeFails
  <2>1. /\ i + 1 \in 1..Len(uri) /\ i + 0 + 1 = i + 1 /\ i + 1 + 1 = i + 2 /\ i + 2 + 1 = i + 3
        /\ (i + 1) + 1 = i + 2 /\ (i + 1) + 2 = i + 3 /\ i + 0 < Len(uri)
    BY <1>2, <1>5 DEF DecodeFails, Decoding
  <2>2. uri[i + 1] = Percent
    BY <1>5, <2>1 DEF DecodeFails, At
  <2>3. i + 3 <= Len(uri) /\ IsHex(uri[i + 2]) /\ IsHex(uri[i + 3])
    BY <1>2, <2>1, <2>2 DEF WellFormed
  <2>4. uri[i + 3] \notin LetterX
    BY <2>3, HexDigits
  <2>5. Extracts(At(1), At(2)) /\ Whole
    <3>1. i + 1 < Len(uri) /\ i + 2 < Len(uri)
      BY <1>2, <2>3
    <3>2. QED BY <2>1, <2>3, <2>4, <3>1 DEF Extracts, At, Whole
  <2>6. QED BY <1>5, <2>5 DEF DecodeFails
<1>6. CASE RefusePath \/ OpenFile
  <2>1. i' = i /\ pc' # "decode" /\ i = Len(uri)
    BY <1>2, <1>6 DEF RefusePath, OpenFile, Fails, Decoded
  <2>2. QED BY <1>1, <2>1
<1>7. CASE ReadSome \/ ReadEnd
  <2>1. i' = i /\ pc' # "decode" /\ pc # "decode"
    BY <1>7 DEF ReadSome, ReadEnd
  <2>2. QED BY <1>1, <1>2, <2>1 DEF DecodeInv
<1>8. QED BY <1>3, <1>4, <1>5, <1>6, <1>7 DEF Next

LEMMA RefuseStep ==
  ASSUME TypeOK, NameInv, RefuseInv, Next
  PROVE  RefuseInv'
<1>1. uri' = uri
  BY DEF Next, DecodeEscape, DecodeFails, DecodePlain, RefusePath, OpenFile, ReadSome, ReadEnd, Fails
<1> SUFFICES ASSUME NEW k \in 1..Len(uri), BadAt(uri, k)
             PROVE  /\ pc' = "decode" => i' < k
                    /\ pc' # "decode" => pc' = "done" /\ opened' = <<>> /\ rep'.status = "bad_request"
  BY <1>1 DEF RefuseInv
<1>2. k \in Nat /\ i \in Nat /\ Len(uri) \in Nat /\ k <= Len(uri)
  BY DEF TypeOK
<1>3. /\ pc = "decode" => i < k
      /\ pc # "decode" => pc = "done" /\ opened = <<>> /\ rep.status = "bad_request"
  BY DEF RefuseInv
<1>4. CASE DecodeEscape
  <2>1. /\ pc = "decode" /\ pc' = pc /\ i' = i + 3 /\ i + 0 < Len(uri) /\ i + 3 <= Len(uri)
        /\ i + 1 < Len(uri) /\ i + 2 < Len(uri) /\ Extracts(At(1), At(2)) /\ At(0) = Percent
    BY <1>2, <1>4 DEF DecodeEscape, Decoding, PastEscape, Whole
  <2>2. i + 0 + 1 = i + 1 /\ i + 1 + 1 = i + 2 /\ i + 2 + 1 = i + 3
    BY <1>2
  <2>3. uri[i + 1] = Percent /\ Extracts(uri[i + 2], uri[i + 3])
    BY <2>1, <2>2 DEF At
  <2>4. k # i + 1
    <3>1. (i + 1) + 1 = i + 2 /\ (i + 1) + 2 = i + 3
      BY <1>2
    <3>2. QED BY <2>1, <2>3, <3>1 DEF BadAt
  <2>5. k # i + 2
    <3>1. (i + 2) - 1 = i + 1 /\ i + 2 > 1
      BY <1>2
    <3>2. QED BY <2>3, <3>1 DEF BadAt
  <2>6. k # i + 3
    <3>1. (i + 3) - 2 = i + 1 /\ i + 3 > 2
      BY <1>2
    <3>2. QED BY <2>3, <3>1 DEF BadAt
  <2>7. i' < k
    BY <1>2, <1>3, <2>1, <2>4, <2>5, <2>6
  <2>8. QED BY <2>1, <2>7
<1>5. CASE DecodePlain
  <2>1. /\ pc = "decode" /\ pc' = pc /\ i' = i + 1 /\ i + 0 < Len(uri) /\ i + 0 + 1 = i + 1
        /\ At(0) # Percent
    BY <1>2, <1>5 DEF DecodePlain, Decoding
  <2>2. k # i + 1
    BY <2>1 DEF At, BadAt
  <2>3. QED BY <1>2, <1>3, <2>1, <2>2
<1>6. CASE DecodeFails
  BY <1>6 DEF DecodeFails, Decoding, Fails, StockReply, NameInv
<1>7. CASE RefusePath \/ OpenFile
  BY <1>2, <1>3, <1>7 DEF RefusePath, OpenFile, Decoded
<1>8. CASE ReadSome \/ ReadEnd
  BY <1>3, <1>8 DEF ReadSome, ReadEnd
<1>9. QED BY <1>4, <1>5, <1>6, <1>7, <1>8 DEF Next

-----------------------------------------------------------------------------
(* The type of a path *)

\* What follows the last slash.
LEMMA LastSegmentIs ==
  ASSUME NEW p \in Seq(Byte), p # <<>>, p[1] = Slash
  PROVE  /\ LastOf(p, Slash) \in 1..Len(p)
         /\ LastSegment(p) = SubSeq(p, LastOf(p, Slash) + 1, Len(p))
<1> DEFINE sl == LastOf(p, Slash)
           After(k) == SubSeq(p, k + 1, Len(p))
<1>1. Len(p) \in Nat /\ 1 \in 1..Len(p)
  OBVIOUS
<1>2. sl \in 1..Len(p) /\ p[sl] = Slash /\ \A k \in 1..Len(p) : p[k] = Slash => k <= sl
  <2>1. 1 <= sl
    BY <1>1, LastOfPlace
  <2>2. QED BY <1>1, <2>1, LastOfPlace
<1>3. ASSUME NEW k \in 1..Len(p) PROVE Len(After(k)) = Len(p) - k
  <2>1. \A j \in (k + 1)..Len(p) : p[j] \in Byte
    BY <1>1, ElementOfSeq
  <2>2. Len(After(k)) = IF k + 1 <= Len(p) THEN Len(p) - (k + 1) + 1 ELSE 0
    BY <1>1, <2>1, SubSeqProperties
  <2>3. QED BY <1>1, <2>2
<1> HIDE DEF sl
<1>4. Segments(p) = {After(k) : k \in {j \in 1..Len(p) : p[j] = Slash}}
  BY DEF Segments
<1> HIDE DEF After
<1>5. After(sl) \in Segments(p) /\ \A t \in Segments(p) : Len(After(sl)) <= Len(t)
  <2>1. After(sl) \in Segments(p)
    BY <1>2, <1>4
  <2>2. ASSUME NEW k \in 1..Len(p), p[k] = Slash PROVE Len(After(sl)) <= Len(After(k))
    BY <1>1, <1>2, <1>3, <2>2
  <2>3. QED BY <1>4, <2>1, <2>2
<1>6. LastSegment(p) \in Segments(p) /\ Len(LastSegment(p)) <= Len(After(sl))
  BY <1>5 DEF LastSegment
<1>7. PICK k \in 1..Len(p) : p[k] = Slash /\ LastSegment(p) = After(k)
  BY <1>4, <1>6
<1>8. k = sl
  <2>1. Len(p) - k <= Len(p) - sl
    BY <1>2, <1>3, <1>6, <1>7
  <2>2. k <= sl
    BY <1>2, <1>7
  <2>3. QED BY <1>1, <1>2, <2>1, <2>2
<1>9. QED BY <1>2, <1>7, <1>8 DEF sl, After

\* The last part of a path ends in a dot and e, for an e without dots, if and only if e is
\* the extension.
LEMMA EndsInExtension ==
  ASSUME NEW p \in Seq(Byte), p # <<>>, p[1] = Slash,
         NEW e \in Seq(Byte), e # <<>>, \A k \in 1..Len(e) : e[k] # Dot
  PROVE  EndsIn(LastSegment(p), e) <=> Extension(p) = e
<1> DEFINE sl == LastOf(p, Slash)
           dt == LastOf(p, Dot)
           s  == LastSegment(p)
<1>1. Len(p) \in Nat /\ sl \in 1..Len(p)
  BY LastSegmentIs
<1>2. dt \in 0..Len(p) /\ (dt # 0 => p[dt] = Dot) /\ \A k \in 1..Len(p) : p[k] = Dot => k <= dt
  BY LastOfPlace
<1>3. s = SubSeq(p, sl + 1, Len(p))
  BY LastSegmentIs
<1>4. Extension(p) = IF dt # 0 /\ dt > sl THEN SubSeq(p, dt + 1, Len(p)) ELSE <<>>
  BY DEF Extension
<1> HIDE DEF sl, dt, s
<1>5. s \in Seq(Byte) /\ Len(s) = Len(p) - sl /\ \A k \in 1..(Len(p) - sl) : s[k] = p[sl + k]
  <2>1. \A j \in (sl + 1)..Len(p) : p[j] \in Byte
    BY <1>1, ElementOfSeq
  <2>2. /\ s \in Seq(Byte)
        /\ Len(s) = IF sl + 1 <= Len(p) THEN Len(p) - (sl + 1) + 1 ELSE 0
        /\ \A k \in 1..(Len(p) - (sl + 1) + 1) : s[k] = p[sl + 1 + k - 1]
    BY <1>1, <1>3, <2>1, SubSeqProperties
  <2>3. QED BY <1>1, <2>2
<1>6. ASSUME NEW d \in 1..Len(s)
      PROVE  /\ SubSeq(s, d + 1, Len(s)) = SubSeq(p, sl + d + 1, Len(p))
             /\ sl + d \in 1..Len(p)
  <2>0. Len(s) \in Nat /\ sl + d \in 1..Len(p) /\ Len(s) - (d + 1) + 1 = Len(p) - (sl + d + 1) + 1
    BY <1>1, <1>5
  <2>1. \A j \in (sl + d + 1)..Len(p) : p[j] \in Byte
    BY <1>1, <2>0, ElementOfSeq
  <2>2. \A j \in (d + 1)..Len(s) : s[j] \in Byte
    BY <1>5, <2>0, ElementOfSeq
  <2> DEFINE n == Len(p) - (sl + d + 1) + 1
             x == SubSeq(p, sl + d + 1, Len(p))
             y == SubSeq(s, d + 1, Len(s))
  <2>3. /\ x \in Seq(Byte) /\ Len(x) = IF sl + d + 1 <= Len(p) THEN n ELSE 0
        /\ \A k \in 1..n : x[k] = p[sl + d + 1 + k - 1]
    BY <1>1, <2>0, <2>1, SubSeqProperties
  <2>4. /\ y \in Seq(Byte) /\ Len(y) = IF d + 1 <= Len(s) THEN Len(s) - (d + 1) + 1 ELSE 0
        /\ \A k \in 1..(Len(s) - (d + 1) + 1) : y[k] = s[d + 1 + k - 1]
    BY <1>5, <2>0, <2>2, SubSeqProperties, SMTT(30)
  <2> HIDE DEF x, y
  <2>5. n \in Nat /\ Len(x) = n /\ Len(y) = n
    <3>1. \A a, m \in Nat : a \in 1..m =>
            LET r == m - (a + 1) + 1
            IN  r \in Nat /\ (IF a + 1 <= m THEN r ELSE 0) = r
      OBVIOUS
    <3>2. n \in Nat /\ (IF sl + d + 1 <= Len(p) THEN n ELSE 0) = n
      BY <1>1, <2>0, <3>1
    <3>3. (IF d + 1 <= Len(s) THEN Len(s) - (d + 1) + 1 ELSE 0) = n
      BY <2>0, <3>1
    <3>4. QED BY <2>3, <2>4, <3>2, <3>3
  <2>6. ASSUME NEW k \in 1..n PROVE x[k] = y[k]
    <3>1. y[k] = s[d + k] /\ x[k] = p[sl + d + k]
      <4>1. d + 1 + k - 1 = d + k /\ sl + d + 1 + k - 1 = sl + d + k
        BY <1>1, <1>5, <2>0, <2>5
      <4>2. k \in 1..(Len(s) - (d + 1) + 1)
        BY <2>0
      <4>3. QED BY <2>3, <2>4, <4>1, <4>2
    <3>2. d + k \in 1..(Len(p) - sl) /\ sl + (d + k) = sl + d + k
      BY ONLY <1>1, <1>5, <2>0, <2>6, <2>5
    <3>3. QED BY <1>5, <3>1, <3>2
  <2>7. x = y
    BY <2>3, <2>4, <2>5, <2>6, SeqEqual
  <2>8. QED BY <2>0, <2>7 DEF x, y
<1>7. ASSUME EndsIn(s, e) PROVE Extension(p) = e
  <2>1. PICK d \in 1..Len(s) : s[d] = Dot /\ SubSeq(s, d + 1, Len(s)) = e
    BY <1>7 DEF EndsIn
  <2>2. sl + d \in 1..Len(p) /\ p[sl + d] = Dot /\ sl + d <= dt
    BY <1>1, <1>2, <1>5, <1>6, <2>1
  <2>3. dt = sl + d
    <3>1. SUFFICES ASSUME sl + d < dt PROVE FALSE
      BY <1>1, <1>2, <2>2
    <3> DEFINE k == dt - (sl + d)
    <3>2. \A j \in (d + 1)..Len(s) : s[j] \in Byte
      BY <1>5, ElementOfSeq
    <3>3. /\ Len(e) = IF d + 1 <= Len(s) THEN Len(s) - (d + 1) + 1 ELSE 0
          /\ \A j \in 1..(Len(s) - (d + 1) + 1) : e[j] = s[d + 1 + j - 1]
      BY <1>5, <2>1, <3>2, SubSeqProperties
    <3>4. /\ k \in 1..(Len(s) - (d + 1) + 1) /\ d + 1 <= Len(s) /\ d + 1 + k - 1 = dt - sl
          /\ dt - sl \in 1..(Len(p) - sl) /\ sl + (dt - sl) = dt /\ dt # 0
      BY <1>1, <1>2, <1>5, <2>2, <3>1
    <3>5. e[k] = p[dt] /\ k \in 1..Len(e)
      BY <1>5, <3>3, <3>4
    <3>6. QED BY <1>2, <3>4, <3>5
  <2>4. dt # 0 /\ dt > sl /\ dt + 1 = sl + d + 1
    BY <1>1, <1>5, <2>1, <2>3
  <2>5. Extension(p) = SubSeq(p, sl + d + 1, Len(p))
    BY <1>4, <2>4
  <2>6. QED BY <1>6, <2>1, <2>5
<1>8. ASSUME Extension(p) = e PROVE EndsIn(s, e)
  <2>1. dt # 0 /\ dt > sl /\ e = SubSeq(p, dt + 1, Len(p))
    BY <1>4, <1>8
  <2>2. dt - sl \in 1..Len(s) /\ sl + (dt - sl) = dt /\ dt - sl \in 1..(Len(p) - sl)
    BY <1>1, <1>2, <1>5, <2>1
  <2>3. s[dt - sl] = Dot
    BY <1>2, <1>5, <2>1, <2>2
  <2>4. SubSeq(s, (dt - sl) + 1, Len(s)) = e
    BY <1>6, <2>1, <2>2
  <2>5. QED BY <2>2, <2>3, <2>4 DEF EndsIn
<1>9. QED BY <1>7, <1>8 DEF s

Known == {Gif, Htm, Html, Jpg, Png}

LEMMA KnownExtensions ==
  \A e \in Known : e \in Seq(Byte) /\ e # <<>> /\ \A k \in 1..Len(e) : e[k] # Dot
<1>1. Gif \in Seq(Byte) /\ Gif # <<>> /\ \A k \in 1..Len(Gif) : Gif[k] # Dot
  BY DEF Gif, Byte, Dot
<1>2. Htm \in Seq(Byte) /\ Htm # <<>> /\ \A k \in 1..Len(Htm) : Htm[k] # Dot
  BY DEF Htm, Byte, Dot
<1>3. Html \in Seq(Byte) /\ Html # <<>> /\ \A k \in 1..Len(Html) : Html[k] # Dot
  BY DEF Html, Byte, Dot
<1>4. Jpg \in Seq(Byte) /\ Jpg # <<>> /\ \A k \in 1..Len(Jpg) : Jpg[k] # Dot
  BY DEF Jpg, Byte, Dot
<1>5. Png \in Seq(Byte) /\ Png # <<>> /\ \A k \in 1..Len(Png) : Png[k] # Dot
  BY DEF Png, Byte, Dot
<1>6. QED BY <1>1, <1>2, <1>3, <1>4, <1>5 DEF Known

LEMMA KnownDiffer ==
  /\ Gif # Htm /\ Gif # Html /\ Gif # Jpg /\ Gif # Png
  /\ Htm # Html /\ Htm # Jpg /\ Htm # Png
  /\ Html # Jpg /\ Html # Png /\ Jpg # Png
<1>1. Gif[1] = 103 /\ Htm[1] = 104 /\ Html[1] = 104 /\ Jpg[1] = 106 /\ Png[1] = 112
  BY DEF Gif, Htm, Html, Jpg, Png
<1>2. Len(Htm) = 3 /\ Len(Html) = 4
  BY DEF Htm, Html
<1>3. QED BY <1>1, <1>2

\* What the table of mime_types.cpp maps an extension to.
LEMMA MappedType ==
  ASSUME NEW e
  PROVE  /\ e = Gif => ExtensionToType(e) = "image/gif"
         /\ e \in {Htm, Html} => ExtensionToType(e) = "text/html"
         /\ e = Jpg => ExtensionToType(e) = "image/jpeg"
         /\ e = Png => ExtensionToType(e) = "image/png"
         /\ e \notin Known => ExtensionToType(e) = "text/plain"
<1>1. ASSUME NEW t, <<e, t>> \in Mappings, \A m \in Mappings : m[1] = e => m[2] = t
      PROVE  ExtensionToType(e) = t
  <2>1. \E m \in Mappings : m[1] = e
    BY <1>1
  <2>2. (CHOOSE m \in Mappings : m[1] = e)[2] = t
    BY <1>1, <2>1
  <2>3. QED BY <2>1, <2>2 DEF ExtensionToType
<1>2. CASE e = Gif
  BY <1>1, <1>2, KnownDiffer DEF Mappings, Known
<1>3. CASE e = Htm \/ e = Html
  <2>1. <<e, "text/html">> \in Mappings /\ \A m \in Mappings : m[1] = e => m[2] = "text/html"
    BY <1>3, KnownDiffer DEF Mappings
  <2>2. QED BY <1>1, <1>3, <2>1, KnownDiffer DEF Known
<1>4. CASE e = Jpg
  BY <1>1, <1>4, KnownDiffer DEF Mappings, Known
<1>5. CASE e = Png
  BY <1>1, <1>5, KnownDiffer DEF Mappings, Known
<1>6. CASE e \notin Known
  BY <1>6 DEF ExtensionToType, Mappings, Known
<1>7. QED BY <1>2, <1>3, <1>4, <1>5, <1>6 DEF Known

\* The dot and slash that find_last_of finds give the type of the last part of the path.
LEMMA TypeOfPath ==
  ASSUME NEW p \in Seq(Byte), p # <<>>, p[1] = Slash
  PROVE  TypeOf(p) = ExtensionToType(Extension(p))
<1> DEFINE e == Extension(p)
           s == LastSegment(p)
<1>1. \A x \in Known : EndsIn(s, x) <=> e = x
  BY KnownExtensions, EndsInExtension
<1> HIDE DEF e, s
<1>2. /\ EndsIn(s, Gif) <=> e = Gif
      /\ EndsIn(s, Htm) <=> e = Htm
      /\ EndsIn(s, Html) <=> e = Html
      /\ EndsIn(s, Jpg) <=> e = Jpg
      /\ EndsIn(s, Png) <=> e = Png
  BY <1>1 DEF Known
<1>3. TypeOf(p) = CASE EndsIn(s, Gif)                    -> "image/gif"
                    [] EndsIn(s, Htm) \/ EndsIn(s, Html) -> "text/html"
                    [] EndsIn(s, Jpg)                    -> "image/jpeg"
                    [] EndsIn(s, Png)                    -> "image/png"
                    [] OTHER                             -> "text/plain"
  BY DEF TypeOf, s
<1>4. CASE e = Gif
  BY <1>2, <1>3, <1>4, KnownDiffer, MappedType DEF e
<1>5. CASE e = Htm \/ e = Html
  BY <1>2, <1>3, <1>5, KnownDiffer, MappedType DEF e
<1>6. CASE e = Jpg
  BY <1>2, <1>3, <1>6, KnownDiffer, MappedType DEF e
<1>7. CASE e = Png
  BY <1>2, <1>3, <1>7, KnownDiffer, MappedType DEF e
<1>8. CASE e \notin Known
  BY <1>2, <1>3, <1>8, MappedType DEF e, Known
<1>9. QED BY <1>4, <1>5, <1>6, <1>7, <1>8 DEF Known

-----------------------------------------------------------------------------
(* The buffers of a reply with two headers, which all replies have *)

LEMMA BuffersOfTwo ==
  ASSUME NEW st, NEW c, NEW n1, NEW v1, NEW n2, NEW v2,
         NEW r, r = [status |-> st, content |-> c,
                     headers |-> <<HeaderField(n1, v1), HeaderField(n2, v2)>>]
  PROVE  LET b == ToBuffers(r)
         IN  /\ Len(b) = 11
             /\ b[1] = StatusLine(st)
             /\ b[2] = n1 /\ b[3] = "name_value_separator" /\ b[4] = v1 /\ b[5] = "crlf"
             /\ b[6] = n2 /\ b[7] = "name_value_separator" /\ b[8] = v2 /\ b[9] = "crlf"
             /\ b[10] = "crlf" /\ b[11] = c
<1> DEFINE H == r.headers
           f == [k \in 1..(4 * Len(H)) |->
                   LET h == H[((k - 1) \div 4) + 1]
                   IN  CASE k % 4 = 1 -> h.name
                         [] k % 4 = 2 -> "name_value_separator"
                         [] k % 4 = 3 -> h.value
                         [] OTHER     -> "crlf"]
           x == <<StatusLine(st)>>
           y == <<c>>
           S == {StatusLine(st), n1, v1, n2, v2, "name_value_separator", "crlf", c}
<1>1. ToBuffers(r) = ((x \o f) \o EmptyLine) \o y
  BY DEF ToBuffers
<1>2. /\ H[1].name = n1 /\ H[1].value = v1 /\ H[2].name = n2 /\ H[2].value = v2
      /\ Len(H) = 2 /\ 4 * Len(H) = 8
  BY DEF HeaderField
<1> HIDE DEF H
<1>3. \A k \in 1..8 : f[k] = LET h == H[((k - 1) \div 4) + 1]
                             IN  CASE k % 4 = 1 -> h.name
                                   [] k % 4 = 2 -> "name_value_separator"
                                   [] k % 4 = 3 -> h.value
                                   [] OTHER     -> "crlf"
  BY <1>2
<1>4. /\ ((1 - 1) \div 4) + 1 = 1 /\ ((2 - 1) \div 4) + 1 = 1 /\ ((3 - 1) \div 4) + 1 = 1
      /\ ((4 - 1) \div 4) + 1 = 1 /\ ((5 - 1) \div 4) + 1 = 2 /\ ((6 - 1) \div 4) + 1 = 2
      /\ ((7 - 1) \div 4) + 1 = 2 /\ ((8 - 1) \div 4) + 1 = 2
  OBVIOUS
<1>5. f[1] = n1 /\ f[2] = "name_value_separator" /\ f[3] = v1 /\ f[4] = "crlf"
  BY <1>2, <1>3, <1>4
<1>6. f[5] = n2 /\ f[6] = "name_value_separator" /\ f[7] = v2 /\ f[8] = "crlf"
  BY <1>2, <1>3, <1>4
<1>7. f \in Seq(S) /\ Len(f) = 8
  <2>1. DOMAIN f = 1..8 /\ f = [k \in 1..8 |-> f[k]]
    BY <1>2
  <2> HIDE DEF f
  <2>2. \A k \in 1..8 : k = 1 \/ k = 2 \/ k = 3 \/ k = 4 \/ k = 5 \/ k = 6 \/ k = 7 \/ k = 8
    OBVIOUS
  <2>3. \A k \in 1..8 : f[k] \in S
    BY <1>5, <1>6, <2>2
  <2> HIDE DEF S
  <2>4. f \in [1..8 -> S]
    BY <2>1, <2>3
  <2>5. Len(f) = 8
    BY <2>1
  <2>6. f \in Seq(S)
    <3>1. 8 \in Nat
      OBVIOUS
    <3>2. QED BY ONLY <2>4, <3>1, SeqDef
  <2>7. QED BY <2>5, <2>6
<1>8. x \in Seq(S) /\ Len(x) = 1 /\ y \in Seq(S) /\ Len(y) = 1
      /\ EmptyLine \in Seq(S) /\ Len(EmptyLine) = 1
      /\ x[1] = StatusLine(st) /\ y[1] = c /\ EmptyLine[1] = "crlf"
  BY DEF EmptyLine
<1> HIDE DEF f, x, y, S
<1>9. /\ x \o f \in Seq(S) /\ Len(x \o f) = 9
      /\ \A k \in 1..9 : (x \o f)[k] = IF k <= 1 THEN x[k] ELSE f[k - 1]
  <2>1. /\ x \o f \in Seq(S) /\ Len(x \o f) = Len(x) + Len(f)
        /\ \A k \in 1..(Len(x) + Len(f)) : (x \o f)[k] = IF k <= Len(x) THEN x[k] ELSE f[k - Len(x)]
    BY <1>7, <1>8, ConcatProperties
  <2>2. QED BY <1>7, <1>8, <2>1, SMTT(30)
<1> DEFINE xf == x \o f
<1> HIDE DEF xf
<1>10. /\ xf \o EmptyLine \in Seq(S) /\ Len(xf \o EmptyLine) = 10
       /\ \A k \in 1..10 : (xf \o EmptyLine)[k] = IF k <= 9 THEN xf[k] ELSE EmptyLine[k - 9]
  <2>0. xf \in Seq(S) /\ Len(xf) = 9
    BY <1>9 DEF xf
  <2>1. /\ xf \o EmptyLine \in Seq(S) /\ Len(xf \o EmptyLine) = Len(xf) + Len(EmptyLine)
        /\ \A k \in 1..(Len(xf) + Len(EmptyLine)) :
             (xf \o EmptyLine)[k] = IF k <= Len(xf) THEN xf[k] ELSE EmptyLine[k - Len(xf)]
    BY <1>8, <2>0, ConcatProperties
  <2>2. QED BY <1>8, <2>0, <2>1, SMTT(30)
<1> DEFINE xfe == xf \o EmptyLine
           w   == xfe \o y
<1> HIDE DEF xfe, w
<1>11. /\ w \in Seq(S) /\ Len(w) = 11
       /\ \A k \in 1..11 : w[k] = IF k <= 10 THEN xfe[k] ELSE y[k - 10]
  <2>0. xfe \in Seq(S) /\ Len(xfe) = 10
    BY <1>10 DEF xfe
  <2>1. /\ w \in Seq(S) /\ Len(w) = Len(xfe) + Len(y)
        /\ \A k \in 1..(Len(xfe) + Len(y)) :
             w[k] = IF k <= Len(xfe) THEN xfe[k] ELSE y[k - Len(xfe)]
    BY <1>8, <2>0, ConcatProperties DEF w
  <2>2. QED BY <1>8, <2>0, <2>1
<1>12. ToBuffers(r) = w
  BY <1>1 DEF w, xfe, xf
<1>13. \A k \in 1..9 : w[k] = xf[k]
  <2>1. \A k \in 1..9 : k \in 1..10 /\ k \in 1..11 /\ k <= 10 /\ k <= 9
    OBVIOUS
  <2>2. \A k \in 1..9 : w[k] = xfe[k]
    BY <1>11, <2>1
  <2>3. \A k \in 1..9 : xfe[k] = xf[k]
    BY <1>10, <2>1 DEF xfe
  <2>4. QED BY <2>2, <2>3
<1>14. w[10] = "crlf" /\ w[11] = c
  <2>1. w[10] = xfe[10] /\ w[11] = y[1]
    BY <1>11
  <2>2. xfe[10] = EmptyLine[1]
    BY <1>10 DEF xfe
  <2>3. QED BY <1>8, <2>1, <2>2
<1>15. \A k \in 1..9 : xf[k] = IF k <= 1 THEN x[k] ELSE f[k - 1]
  BY <1>9 DEF xf
<1>16. xf[1] = StatusLine(st)
  BY <1>8, <1>15
<1>17. \A k \in 1..8 : w[k + 1] = f[k]
  <2>1. \A k \in 1..8 : k + 1 \in 1..9 /\ ~(k + 1 <= 1) /\ k + 1 - 1 = k
    OBVIOUS
  <2>2. QED BY <1>13, <1>15, <2>1
<1>18. /\ w[2] = f[1] /\ w[3] = f[2] /\ w[4] = f[3]
       /\ w[5] = f[4] /\ w[6] = f[5] /\ w[7] = f[6]
       /\ w[8] = f[7] /\ w[9] = f[8]
  <2>1. /\ 1 + 1 = 2 /\ 2 + 1 = 3 /\ 3 + 1 = 4 /\ 4 + 1 = 5 /\ 5 + 1 = 6 /\ 6 + 1 = 7
        /\ 7 + 1 = 8 /\ 8 + 1 = 9
    OBVIOUS
  <2>2. QED BY <1>17, <2>1
<1>19. w[1] = StatusLine(st)
  BY <1>13, <1>16
<1>20. QED BY <1>5, <1>6, <1>11, <1>12, <1>14, <1>18, <1>19

LEMMA StreamOfTwo ==
  ASSUME NEW st, NEW c, NEW n1, NEW n2, NEW v2, n1 # "crlf", n2 # "crlf",
         rep = [status |-> st, content |-> c,
                headers |-> <<HeaderField(n1, Len(c)), HeaderField(n2, v2)>>]
  PROVE  ClientReadsReply
<1> DEFINE b == ToBuffers(rep)
<1>1. /\ Len(b) = 11 /\ b[1] = StatusLine(st)
      /\ b[2] = n1 /\ b[3] = "name_value_separator" /\ b[4] = Len(c) /\ b[5] = "crlf"
      /\ b[6] = n2 /\ b[7] = "name_value_separator" /\ b[8] = v2 /\ b[9] = "crlf"
      /\ b[10] = "crlf" /\ b[11] = c
  BY BuffersOfTwo
<1> HIDE DEF b
<1>2. /\ 4 * 1 - 2 = 2 /\ 4 * 1 - 1 = 3 /\ 4 * 1 = 4 /\ 4 * 1 + 1 = 5
      /\ 4 * 2 - 2 = 6 /\ 4 * 2 - 1 = 7 /\ 4 * 2 = 8 /\ 4 * 2 + 1 = 9
      /\ 4 * 2 + 2 = 10 /\ 4 * 2 + 3 = 11 /\ (11 - 3) \div 4 = 2
      /\ \A k \in 1..2 : k = 1 \/ k = 2
  OBVIOUS
<1>3. \A k \in 1..2 : /\ b[4 * k - 2] # "crlf"
                      /\ b[4 * k - 1] = "name_value_separator"
                      /\ b[4 * k + 1] = "crlf"
  BY <1>1, <1>2
<1>4. rep.headers = [k \in 1..2 |-> HeaderField(b[4 * k - 2], b[4 * k])]
  <2>1. rep.headers = <<HeaderField(b[2], b[4]), HeaderField(b[6], b[8])>>
    BY <1>1
  <2>2. \A k \in 1..2 : rep.headers[k] = HeaderField(b[4 * k - 2], b[4 * k])
    BY <1>2, <2>1
  <2>3. rep.headers = [k \in 1..2 |-> rep.headers[k]]
    BY <2>1
  <2>4. QED BY <2>2, <2>3
<1>5. 2 \in 1..((Len(b) - 3) \div 4)
  BY <1>1, <1>2
<1>6. /\ b[4 * 2 + 2] = "crlf" /\ Len(b) = 4 * 2 + 3 /\ b[4 * 2 + 3] = c /\ b[4] = Len(c)
      /\ rep.content = c /\ rep.status = st
  BY <1>1, <1>2
<1>7. QED BY <1>1, <1>3, <1>4, <1>5, <1>6 DEF ClientReadsReply, b

-----------------------------------------------------------------------------
(* Theorems *)

LEMMA StepInv == Inv /\ [Next]_vars => Inv'
<1> SUFFICES ASSUME Inv, [Next]_vars PROVE Inv'
  OBVIOUS
<1>1. CASE Next
  <2>1. TypeOK /\ RepInv /\ NameInv /\ DecodeInv /\ RefuseInv
    BY DEF Inv
  <2>2. TypeOK'
    BY <1>1, <2>1, TypeStep
  <2>3. RepInv'
    BY <1>1, <2>1, RepStep
  <2>4. NameInv'
    BY <1>1, <2>1, NameStep
  <2>5. DecodeInv'
    BY <1>1, <2>1, DecodeStep
  <2>6. RefuseInv'
    BY <1>1, <2>1, RefuseStep
  <2>7. QED BY <2>2, <2>3, <2>4, <2>5, <2>6 DEF Inv
<1>2. CASE UNCHANGED vars
  <2>1. UNCHANGED <<uri, i, request_path, pc, opened, extension, size, rep>>
    BY <1>2 DEF vars
  <2>2. TypeOK' /\ NameInv'
    BY <2>1 DEF Inv, TypeOK, NameInv
  <2>3. RepInv'
    BY <2>1 DEF Inv, RepInv, FileReply
  <2>4. DecodeInv'
    BY <2>1 DEF Inv, DecodeInv, Aligned, DecodedSoFar
  <2>5. RefuseInv'
    BY <2>1 DEF Inv, RefuseInv
  <2>6. QED BY <2>2, <2>3, <2>4, <2>5 DEF Inv
<1>3. QED BY <1>1, <1>2

\* Every state of every behaviour satisfies the inductive invariant.
THEOREM Invariant == Spec => []Inv
<1>1. QED BY InitInv, StepInv, PTL DEF Spec

\* The variables keep their types; in particular each extracted escape is one char, and the
\* name given to ifstream holds no 0 (request_handler.cpp 14-78).
THEOREM TypeCorrect == Spec => []TypeOK
<1>1. Inv => TypeOK
  BY DEF Inv
<1>2. QED BY Invariant, <1>1, PTL

LEMMA InsideRoot == Inv => OpenedInsideRoot
<1> SUFFICES ASSUME Inv, opened # <<>> PROVE OpenedInsideRoot
  BY DEF OpenedInsideRoot
<1> DEFINE p == request_path
<1>1. Usable(p) /\ opened = CString(p) /\ p \in Seq(Byte)
  BY DEF Inv, NameInv, TypeOK
<1>2. /\ opened \in Seq(Byte \ {0}) /\ Len(opened) <= Len(p)
      /\ \A k \in 1..Len(opened) : opened[k] = p[k]
  BY <1>1, CStringPrefix
<1> HIDE DEF p
<1>3. Len(opened) \in Nat /\ Len(opened) >= 1 /\ Len(p) \in Nat
  BY <1>1, <1>2
<1>4. opened[1] = Slash
  BY <1>1, <1>2, <1>3 DEF Usable
<1>5. ASSUME NEW k \in 1..(Len(opened) - 2), SubSeq(opened, k, k + 2) = <<Slash, Dot, Dot>>
      PROVE  FALSE
  <2>1. /\ k + 1 \in 1..Len(opened) /\ (k + 1) + 1 \in 1..Len(opened) /\ k + 1 \in 1..(Len(p) - 1)
        /\ k \in Int /\ k + 2 \in Int
    BY <1>2, <1>3
  <2>2. \A j \in k..(k + 2) : opened[j] \in Byte \ {0}
    <3>1. \A j \in k..(k + 2) : j \in 1..Len(opened)
      BY <1>3
    <3>2. QED BY <1>2, <3>1, ElementOfSeq
  <2>3. \A j \in 1..((k + 2) - k + 1) : SubSeq(opened, k, k + 2)[j] = opened[k + j - 1]
    BY <2>1, <2>2, SubSeqProperties
  <2>4. /\ 2 \in 1..((k + 2) - k + 1) /\ 3 \in 1..((k + 2) - k + 1)
        /\ k + 2 - 1 = k + 1 /\ k + 3 - 1 = (k + 1) + 1
    BY <1>3
  <2>5. opened[k + 1] = Dot /\ opened[(k + 1) + 1] = Dot
    <3>1. SubSeq(opened, k, k + 2)[2] = Dot /\ SubSeq(opened, k, k + 2)[3] = Dot
      <4>1. <<Slash, Dot, Dot>>[2] = Dot /\ <<Slash, Dot, Dot>>[3] = Dot
        OBVIOUS
      <4>2. QED BY ONLY <1>5, <4>1
    <3>2. /\ SubSeq(opened, k, k + 2)[2] = opened[k + 2 - 1]
          /\ SubSeq(opened, k, k + 2)[3] = opened[k + 3 - 1]
      BY <2>3, <2>4
    <3>3. QED BY <2>4, <3>1, <3>2
  <2>6. p[k + 1] = Dot /\ p[(k + 1) + 1] = Dot
    BY <1>2, <2>1, <2>5
  <2>7. QED BY <1>1, <2>1, <2>6 DEF Usable
<1>6. QED BY <1>4, <1>5 DEF OpenedInsideRoot

\* For every uri a parser can produce, the name that is opened starts at doc_root_ and has
\* no part ".." (request_handler.cpp 16-39).
THEOREM NeverLeavesRoot == Spec => []OpenedInsideRoot
<1>1. QED BY Invariant, InsideRoot, PTL

LEMMA ReplyIsFile == Inv => OkReplyIsTheFile
<1> SUFFICES ASSUME Inv, pc = "done", rep.status = "ok" PROVE OkReplyIsTheFile
  BY DEF OkReplyIsTheFile
<1> DEFINE p == request_path
<1>1. rep = FileReply
  BY DEF Inv, RepInv, StockReply
<1>2. Usable(p) /\ opened = CString(p) /\ extension = Extension(p) /\ p \in Seq(Byte)
  BY DEF Inv, NameInv, TypeOK
<1>3. /\ rep.content = [k \in 1..size |-> k] /\ rep.headers[1].value = size
      /\ rep.headers[2].value = ExtensionToType(extension)
  BY <1>1 DEF FileReply, HeaderField, Numbered
<1>4. ExtensionToType(extension) = TypeOf(p)
  BY <1>2, TypeOfPath DEF Usable
<1>5. (\A k \in 1..Len(p) : p[k] # 0) => opened = p
  BY <1>2, CStringPrefix
<1>6. QED BY <1>3, <1>4, <1>5 DEF OkReplyIsTheFile

\* An ok reply is the file, whatever its size and that of the buffer, and its type is that of
\* the last part of the path (request_handler.cpp 26-52, mime_types.cpp 5-23).
THEOREM OkReplyCarriesFile == Spec => []OkReplyIsTheFile
<1>1. QED BY Invariant, ReplyIsFile, PTL

LEMMA DecodedIsReference ==
  ASSUME NEW u \in Seq(Byte), NEW out \in Seq(Byte), Len(out) = Rank(u, Len(u)),
         \A n \in 1..Len(out) : \E k \in Starts(u) : Rank(u, k) = n /\ out[n] = Stands(u, k)
  PROVE  out = Reference(u)
<1>1. ASSUME NEW n \in 1..Len(out)
      PROVE  out[n] = Stands(u, CHOOSE k \in Starts(u) : Rank(u, k) = n)
  <2>1. PICK k \in Starts(u) : Rank(u, k) = n /\ out[n] = Stands(u, k)
    BY <1>1
  <2> DEFINE m == CHOOSE l \in Starts(u) : Rank(u, l) = n
  <2>2. m \in Starts(u) /\ Rank(u, m) = n
    BY <2>1
  <2> HIDE DEF m
  <2>3. m = k
    BY <2>1, <2>2, RankInjective
  <2>4. QED BY <2>1, <2>3 DEF m
<1>2. out = [n \in 1..Len(out) |-> out[n]]
  BY LenProperties
<1>3. out = [n \in 1..Len(out) |-> Stands(u, CHOOSE k \in Starts(u) : Rank(u, k) = n)]
  BY <1>1, <1>2
<1>4. QED BY <1>3 DEF Reference

LEMMA DecodesReference ==
  ASSUME Inv, WellFormed(uri)
  PROVE  /\ Decoded => request_path = Reference(uri)
         /\ pc = "done" => i >= Len(uri)
<1>1. uri \in Seq(Byte) /\ request_path \in Seq(Byte) /\ i \in 0..Len(uri) /\ Len(uri) \in Nat
  BY DEF Inv, TypeOK
<1>2. ASSUME Decoded PROVE request_path = Reference(uri)
  <2>1. i = Len(uri) /\ DecodedSoFar
    BY <1>1, <1>2 DEF Decoded, Inv, DecodeInv
  <2>2. QED BY <1>1, <2>1, DecodedIsReference DEF DecodedSoFar
<1>3. ASSUME pc = "done" PROVE i >= Len(uri)
  BY <1>1, <1>3 DEF Inv, DecodeInv
<1>4. QED BY <1>2, <1>3

LEMMA RefusesBadEscape ==
  ASSUME Inv, BadEscape(uri)
  PROVE  /\ ~Decoded /\ opened = <<>>
         /\ pc # "decode" => pc = "done" /\ rep.status = "bad_request"
<1>1. PICK k \in 1..Len(uri) : BadAt(uri, k)
  BY DEF BadEscape
<1>2. /\ pc = "decode" => i < k
      /\ pc # "decode" => pc = "done" /\ opened = <<>> /\ rep.status = "bad_request"
  BY <1>1 DEF Inv, RefuseInv
<1>3. i \in Nat /\ Len(uri) \in Nat
  BY DEF Inv, TypeOK
<1>4. pc = "decode" => opened = <<>>
  BY DEF Inv, NameInv
<1>5. QED BY <1>2, <1>3, <1>4 DEF Decoded

\* A uri of any length whose escapes are well formed is decoded as the reference decodes it
\* and is never refused for them.  A uri of any length with an escape that is cut off or is
\* no number is never decoded to its end: it is answered with bad_request and nothing is
\* opened (request_handler.cpp 15-18, 54-78).
THEOREM DecodingCorrect == Spec => []DecodesOrRefuses
<1>1. Inv => DecodesOrRefuses
  BY DecodesReference, RefusesBadEscape DEF DecodesOrRefuses
<1>2. QED BY <1>1, Invariant, PTL

LEMMA StreamIsReply == Inv => ClientReadsReply
<1> SUFFICES ASSUME Inv, pc = "done" PROVE ClientReadsReply
  BY DEF ClientReadsReply
<1>1. ASSUME NEW st, rep = StockReply(st) PROVE ClientReadsReply
  BY <1>1, StreamOfTwo DEF StockReply
<1>2. CASE rep = FileReply
  <2>1. Len(Numbered(size)) = size
    BY DEF Inv, TypeOK, Numbered
  <2>2. QED BY <1>2, <2>1, StreamOfTwo DEF FileReply
<1>3. QED BY <1>1, <1>2 DEF Inv, RepInv

\* Whatever reply a request ends with, its buffers are the bytes from which a client gets it
\* back (reply.cpp 81-94).
THEOREM ReplyReadsBack == Spec => []ClientReadsReply
<1>1. QED BY Invariant, StreamIsReply, PTL
=============================================================================
