------------------------ MODULE RequestParserProofs ------------------------
(***************************************************************************)
(* Proofs about RequestParser for every input of any length and every way  *)
(* of cutting it into reads.                                               *)
(***************************************************************************)
EXTENDS RequestGrammar, Integers, FiniteSetTheorems, WellFoundedInduction, TLAPS

Inv == TypeOK /\ BackIsSafe /\ NamesNotEmpty

LEMMA InitInv == Init => Inv
BY InputsAssumption DEF Init, Inv, TypeOK, BackIsSafe, NamesNotEmpty, Request, EmptyRequest, States

\* What a branch of consume() does to the state and to what is stored.
LEMMA RowFacts ==
  ASSUME NEW r \in Table
  PROVE  /\ r.to \in States
         /\ r.from = "method_start" => r.put = "method"
         /\ r.put = "method" => r.to = "method"
         /\ r.put \in {"name", "value"} =>
              r.from \in {"header_lws", "header_name", "header_value"}
         /\ r.to \in {"header_name", "space_before_header_value", "header_value",
                      "expecting_newline_2"} =>
              \/ r.put = "header"
              \/ r.from \in {"header_lws", "header_name", "space_before_header_value",
                             "header_value"}
         /\ r.to # "method_start"
         /\ r.put \in {"nothing", "method", "uri", "zero", "major", "minor", "header", "name",
                       "value"}
BY DEF Table, Row, States

Puts == {"nothing", "method", "uri", "zero", "major", "minor", "header", "name", "value"}

\* Storing a character keeps the request well formed and never empties a part of it.
LEMMA StoredFacts ==
  ASSUME req \in Request, NEW c \in Char, NEW put \in Puts,
         put \in {"name", "value"} => req.headers # <<>>,
         \A i \in 1..Len(req.headers) : req.headers[i].name # <<>>
  PROVE  /\ Stored(put, c) \in Request
         /\ \A i \in 1..Len(Stored(put, c).headers) : Stored(put, c).headers[i].name # <<>>
         /\ req.method # <<>> \/ put = "method" => Stored(put, c).method # <<>>
         /\ req.headers # <<>> \/ put = "header" => Stored(put, c).headers # <<>>
<1> DEFINE n == Len(req.headers)
<1>1. ASSUME NEW h \in Header, h.name # <<>>, n > 0, Stored(put, c) = Back(h), put \in {"name", "value"}
      PROVE  /\ Stored(put, c) \in Request
             /\ \A i \in 1..Len(Stored(put, c).headers) : Stored(put, c).headers[i].name # <<>>
             /\ req.method # <<>> \/ put = "method" => Stored(put, c).method # <<>>
             /\ req.headers # <<>> \/ put = "header" => Stored(put, c).headers # <<>>
  <2> DEFINE hs == [req.headers EXCEPT ![n] = h]
  <2>1. n \in Nat /\ n \in 1..n
    BY <1>1 DEF Request
  <2>2. hs \in Seq(Header) /\ Len(hs) = n /\ hs # <<>>
        /\ \A i \in 1..n : hs[i].name # <<>>
    BY <1>1, <2>1 DEF Request
  <2>3. Stored(put, c) = [req EXCEPT !.headers = hs]
    BY <1>1 DEF Back
  <2> HIDE DEF hs, n
  <2> QED
    BY <1>1, <2>2, <2>3 DEF Request
<1>2. put \in {"name", "value"} => /\ n > 0 /\ LastHeader \in Header /\ LastHeader.name # <<>>
                                   /\ LastHeader.name \in Seq(Char) /\ LastHeader.value \in Seq(Char)
  <2> SUFFICES ASSUME put \in {"name", "value"} PROVE n > 0 /\ LastHeader \in Header /\ LastHeader.name # <<>>
    BY DEF Header
  <2>1. n \in 1..n
    BY DEF Request
  <2> QED
    BY <2>1 DEF LastHeader, Request
<1>3. CASE put = "name"
  <2> DEFINE h == [LastHeader EXCEPT !.name = Append(LastHeader.name, c)]
  <2>1. Append(LastHeader.name, c) \in Seq(Char) /\ Append(LastHeader.name, c) # <<>>
    BY <1>2, <1>3
  <2>2. h \in Header /\ h.name # <<>>
    BY <1>2, <1>3, <2>1 DEF Header
  <2>3. Stored(put, c) = Back(h)
    BY <1>3 DEF Stored
  <2> HIDE DEF h
  <2> QED
    BY <1>1, <1>2, <1>3, <2>2, <2>3
<1>4. CASE put = "value"
  <2> DEFINE h == [LastHeader EXCEPT !.value = Append(LastHeader.value, c)]
  <2>1. Append(LastHeader.value, c) \in Seq(Char)
    BY <1>2, <1>4
  <2>2. h \in Header /\ h.name # <<>>
    BY <1>2, <1>4, <2>1 DEF Header
  <2>3. Stored(put, c) = Back(h)
    BY <1>4 DEF Stored, Continued
  <2> HIDE DEF h
  <2> QED
    BY <1>1, <1>2, <1>4, <2>2, <2>3
<1>5. CASE put = "header"
  <2> DEFINE h == [name |-> <<c>>, value |-> <<>>]
             hs == Append(req.headers, h)
  <2>1. h \in Header /\ h.name # <<>>
    BY DEF Header
  <2> HIDE DEF h
  <2>2. /\ hs \in Seq(Header) /\ hs # <<>> /\ Len(hs) = Len(req.headers) + 1
        /\ Len(req.headers) \in Nat /\ hs[Len(req.headers) + 1] = h
        /\ \A i \in 1..Len(req.headers) : hs[i] = req.headers[i]
    <3>1. req.headers \in Seq(Header)
      BY DEF Request
    <3> HIDE DEF n
    <3> QED
      BY ONLY <2>1, <3>1
  <2>3. \A i \in 1..Len(hs) : hs[i].name # <<>>
    BY <2>1, <2>2
  <2>4. Stored(put, c) = [req EXCEPT !.headers = hs]
    BY <1>5 DEF Stored, h
  <2> HIDE DEF hs
  <2> QED
    BY <1>5, <2>2, <2>3, <2>4 DEF Request
<1>6. CASE put = "method"
  <2>1. Append(req.method, c) \in Seq(Char) /\ Append(req.method, c) # <<>>
    <3>1. req.method \in Seq(Char)
      BY DEF Request
    <3> QED
      BY ONLY <3>1, c \in Char
  <2> QED
    BY <1>6, <2>1 DEF Stored, Request
<1>7. CASE put = "uri"
  <2>1. Append(req.uri, c) \in Seq(Char)
    BY DEF Request
  <2> QED
    BY <1>7, <2>1 DEF Stored, Request
<1>8. CASE put \in {"zero", "major", "minor"}
  <2>1. req.major * 10 + Value(c) \in Nat /\ req.minor * 10 + Value(c) \in Nat
    BY DEF Request, Value
  <2>2. CASE put = "zero"
    BY <2>2 DEF Stored, Request
  <2>3. CASE put = "major"
    BY <2>1, <2>3 DEF Stored, Request
  <2>4. CASE put = "minor"
    BY <2>1, <2>4 DEF Stored, Request
  <2> QED
    BY <1>8, <2>2, <2>3, <2>4
<1>9. CASE put = "nothing"
  BY <1>9 DEF Stored
<1> QED
  BY <1>5, <1>6, <1>7, <1>8, <1>3, <1>4, <1>9 DEF Puts

LEMMA ConsumeInv == ASSUME Inv, Consume PROVE Inv'
<1> USE DEF Inv
<1> DEFINE c == input[pos + 1]
<1>1. PICK r \in Takes(c) : state_' = r.to /\ req' = Stored(r.put, c)
  BY DEF Consume
<1>2. /\ r \in Table /\ r.from = state_
      /\ r.to = "header_lws" => req.headers # <<>>
  BY <1>1 DEF Takes
<1>3. c \in Char
  BY DEF Consume, More, TypeOK
<1>4. r.put \in {"name", "value"} => req.headers # <<>>
  BY <1>2, RowFacts DEF BackIsSafe
<1>5. /\ req' \in Request
      /\ \A i \in 1..Len(req'.headers) : req'.headers[i].name # <<>>
      /\ req.method # <<>> \/ r.put = "method" => req'.method # <<>>
      /\ req.headers # <<>> \/ r.put = "header" => req'.headers # <<>>
  <2>1. r.put \in Puts /\ req \in Request
        /\ \A i \in 1..Len(req.headers) : req.headers[i].name # <<>>
    BY <1>2, RowFacts DEF Puts, TypeOK, NamesNotEmpty
  <2> HIDE DEF c
  <2> QED
    BY <1>1, <1>3, <1>4, <2>1, StoredFacts
<1>6. TypeOK'
  <2>1. pos' \in 0..Len(input') /\ left' \in 0..(Len(input') - pos') /\ input' = input
    BY DEF Consume, More, Advance, TypeOK
  <2>2. state_' \in States /\ result' = result
    BY <1>1, <1>2, RowFacts DEF Consume
  <2> QED
    BY <1>5, <2>1, <2>2 DEF TypeOK
<1>7. BackIsSafe'
  BY <1>1, <1>2, <1>5, RowFacts DEF BackIsSafe
<1>8. NamesNotEmpty'
  BY <1>1, <1>2, <1>5, RowFacts DEF NamesNotEmpty
<1> QED
  BY <1>6, <1>7, <1>8

LEMMA NextInv == Inv /\ [Next]_vars => Inv'
<1> SUFFICES ASSUME Inv, [Next]_vars PROVE Inv'
  OBVIOUS
<1> USE DEF Inv, TypeOK, BackIsSafe, NamesNotEmpty
<1>1. CASE Complete
  BY <1>1 DEF Complete, More, Advance
<1>2. CASE Reject
  BY <1>2 DEF Reject, More, Advance
<1>3. ASSUME NEW n \in ChunkSizes, ReadChunk(n) PROVE Inv'
  BY <1>3, ChunkAssumption DEF ReadChunk
<1>4. CASE UNCHANGED vars
  BY <1>4 DEF vars
<1> QED
  BY <1>1, <1>2, <1>3, <1>4, ConsumeInv DEF Next

LEMMA SpecInv == Spec => []Inv
BY InitInv, NextInv, PTL DEF Spec

-----------------------------------------------------------------------------
\* The variables keep their types; in particular no chunk is read past its end.
THEOREM TypeCorrect == Spec => []TypeOK
BY SpecInv, PTL DEF Inv

\* headers.back() is never called on an empty vector, whatever the peer sends.
THEOREM BackAlwaysSafe == Spec => []BackIsSafe
BY SpecInv, PTL DEF Inv

\* No empty method and no nameless header is ever stored.
THEOREM NamesAlwaysThere == Spec => []NamesNotEmpty
BY SpecInv, PTL DEF Inv
-----------------------------------------------------------------------------
(* The verdict: what the characters consumed are when the parser is in a state *)

\* The states of a request line, which end at p.
InMethod(t, p)  == p > 0 /\ Among(t, 1, p, Token)
InUri(t, p)     == \E x \in 2..p : Method(t, x) /\ Among(t, x + 1, p, Text \ {"SP"})
InHttp(t, p, n) == \E x \in 2..p : \E y \in 2..p : Method(t, x) /\ Uri(t, x, y) /\ p = y + n /\ Http(t, y, n)
InMajor(t, p)   == \E x \in 2..p : \E y \in 2..p :
                      /\ Method(t, x) /\ Uri(t, x, y) /\ Http(t, y, 5)
                      /\ y + 6 <= p /\ Among(t, y + 6, p, Digit)
InDot(t, p)     == \E x \in 2..p : \E y \in 2..p : Method(t, x) /\ Uri(t, x, y) /\ Major(t, y, p)
InMinor(t, p)   == \E x \in 2..p : \E y \in 2..p : \E d \in 2..p :
                      /\ Method(t, x) /\ Uri(t, x, y) /\ Major(t, y, d)
                      /\ d < p /\ Among(t, d + 1, p, Digit)
InEnd(t, p)     == p > 1 /\ t[p] = "CR" /\ RequestCuts(t, p - 1) # {}

\* The states of a line that begins at s and has got to p.
InWhite(t, s, p) == s <= p /\ Among(t, s, p, White) /\ Follows(t, s)
InName(t, s, p)  == s <= p /\ Among(t, s, p, Token)
InColon(t, s, p) == s < p /\ Among(t, s, p - 1, Token) /\ t[p] = ":"
InFold(t, s, p)  == /\ Follows(t, s)
                    /\ \E i \in s + 1..p : /\ Among(t, s, i - 1, White)
                                           /\ t[i] \in Text \ {"SP"} /\ Among(t, i, p, Text)
InValue(t, s, p) == HeaderCuts(t, s, p) # {} \/ InFold(t, s, p)
InLine(t, s, p)  == s < p /\ t[p] = "CR" /\ IsLine(t, s, p - 1)

\* Where in the line that begins at s the parser is when it is in state st behind p.
Shape(t, st, s, p) ==
  \/ /\ s = 1
     /\ \/ st = "method_start" /\ p = 0
        \/ st = "method" /\ InMethod(t, p)
        \/ st = "uri" /\ InUri(t, p)
        \/ st = "http_version_h" /\ InHttp(t, p, 0)
        \/ st = "http_version_t_1" /\ InHttp(t, p, 1)
        \/ st = "http_version_t_2" /\ InHttp(t, p, 2)
        \/ st = "http_version_p" /\ InHttp(t, p, 3)
        \/ st = "http_version_slash" /\ InHttp(t, p, 4)
        \/ st = "http_version_major_start" /\ InHttp(t, p, 5)
        \/ st = "http_version_major" /\ InMajor(t, p)
        \/ st = "http_version_minor_start" /\ InDot(t, p)
        \/ st = "http_version_minor" /\ InMinor(t, p)
        \/ st = "expecting_newline_1" /\ InEnd(t, p)
  \/ /\ s > 1
     /\ \/ st = "header_line_start" /\ p = s - 1
        \/ st = "header_lws" /\ InWhite(t, s, p)
        \/ st = "header_name" /\ InName(t, s, p)
        \/ st = "space_before_header_value" /\ InColon(t, s, p)
        \/ st = "header_value" /\ InValue(t, s, p)
        \/ st = "expecting_newline_2" /\ InLine(t, s, p)
        \/ st = "expecting_newline_3" /\ p = s /\ t[p] = "CR"

\* From s to p there is no LF, and no CR but one that is the last and waits for its LF.
Newlines == {"expecting_newline_1", "expecting_newline_2", "expecting_newline_3"}
Plain(t, a, b) == Among(t, a, b, Char \ {"CR", "LF"})
Unbroken(t, st, s, p) == IF st \in Newlines THEN t[p] = "CR" /\ Plain(t, s, p - 1)
                                            ELSE Plain(t, s, p)

\* All the lines in front of s are lines of a request.
Before(t, s) ==
  /\ LineStart(t, s)
  /\ Paired(t, s - 1)
  /\ \A a \in 1..s - 1 : LineStart(t, a) => HasLine(t, a, s - 1)

\* There is a header as soon as there is a line behind the request line.
Linked(t, st, s, hs) ==
  /\ s = 1 => hs = <<>>
  /\ st = "header_line_start" => (hs # <<>> <=> Follows(t, s))

\* All of this, in the current line.
Located(t, st, s, p, hs) ==
  Before(t, s) /\ Shape(t, st, s, p) /\ Unbroken(t, st, s, p) /\ Linked(t, st, s, hs)

Placed == result = "indeterminate" => \E s \in 1..pos + 1 : Located(input, state_, s, pos, req.headers)
-----------------------------------------------------------------------------
(* What the branches of consume() do to the shape of the line *)

LEMMA AmongMore ==
  ASSUME NEW t, NEW a \in Nat, NEW p \in Nat, NEW S, Among(t, a, p, S), t[p + 1] \in S
  PROVE  Among(t, a, p + 1, S)
BY DEF Among

LEMMA AmongNone ==
  ASSUME NEW t, NEW a \in Nat, NEW b \in Int, NEW S, b < a PROVE Among(t, a, b, S)
BY DEF Among

LEMMA AmongOne ==
  ASSUME NEW t, NEW a \in Nat, NEW S, t[a] \in S PROVE Among(t, a, a, S)
BY DEF Among

LEMMA HttpMore ==
  ASSUME NEW t, NEW y \in Nat, NEW n \in 0..4, Http(t, y, n),
         t[y + n + 1] = <<"H", "T", "T", "P", "/">>[n + 1]
  PROVE  Http(t, y, n + 1)
<1> SUFFICES ASSUME NEW j \in 1..n + 1 PROVE t[y + j] = <<"H", "T", "T", "P", "/">>[j]
  BY DEF Http
<1>1. CASE j \in 1..n
  BY <1>1 DEF Http
<1>2. CASE j = n + 1
  <2>1. y + (n + 1) = y + n + 1
    OBVIOUS
  <2> QED
    BY <1>2, <2>1
<1> QED
  BY <1>1, <1>2

LEMMA MethodMoves ==
  ASSUME NEW t, NEW p \in Nat, InMethod(t, p)
  PROVE  /\ t[p + 1] = "SP" => InUri(t, p + 1)
         /\ t[p + 1] \in Token => InMethod(t, p + 1)
<1>1. p + 1 - 1 = p
  OBVIOUS
<1>2. ASSUME t[p + 1] = "SP" PROVE InUri(t, p + 1)
  <2>1. Method(t, p + 1)
    BY <1>1, <1>2 DEF InMethod, Method
  <2>2. Among(t, p + 1 + 1, p + 1, Text \ {"SP"})
    BY AmongNone
  <2>3. p + 1 \in 2..p + 1
    BY DEF InMethod
  <2> QED
    BY <2>1, <2>2, <2>3 DEF InUri
<1> QED
  BY <1>2, AmongMore DEF InMethod

LEMMA UriMoves ==
  ASSUME NEW t, NEW p \in Nat, InUri(t, p)
  PROVE  /\ t[p + 1] = "SP" => InHttp(t, p + 1, 0)
         /\ t[p + 1] \in Text \ {"SP"} => InUri(t, p + 1)
<1>1. PICK x \in 2..p : Method(t, x) /\ Among(t, x + 1, p, Text \ {"SP"})
  BY DEF InUri
<1>2. x \in 2..p + 1 /\ p + 1 \in 2..p + 1 /\ p + 1 - 1 = p /\ x < p + 1 /\ x + 1 \in Nat
  OBVIOUS
<1>3. ASSUME t[p + 1] = "SP" PROVE InHttp(t, p + 1, 0)
  <2>1. Uri(t, x, p + 1)
    BY <1>1, <1>2, <1>3 DEF Uri
  <2>2. Http(t, p + 1, 0) /\ p + 1 = p + 1 + 0
    BY DEF Http
  <2> QED
    BY <1>1, <1>2, <2>1, <2>2 DEF InHttp
<1>4. ASSUME t[p + 1] \in Text \ {"SP"} PROVE InUri(t, p + 1)
  <2>1. Among(t, x + 1, p + 1, Text \ {"SP"})
    BY <1>1, <1>2, <1>4, AmongMore
  <2> QED
    BY <1>1, <1>2, <2>1 DEF InUri
<1> QED
  BY <1>3, <1>4

LEMMA HttpMoves ==
  ASSUME NEW t, NEW p \in Nat, NEW n \in 0..4, InHttp(t, p, n),
         t[p + 1] = <<"H", "T", "T", "P", "/">>[n + 1]
  PROVE  InHttp(t, p + 1, n + 1)
<1>1. PICK x \in 2..p, y \in 2..p : Method(t, x) /\ Uri(t, x, y) /\ p = y + n /\ Http(t, y, n)
  BY DEF InHttp
<1>2. x \in 2..p + 1 /\ y \in 2..p + 1 /\ p + 1 = y + n + 1 /\ p + 1 = y + (n + 1) /\ y \in Nat
  BY <1>1
<1>3. Http(t, y, n + 1)
  BY <1>1, <1>2, HttpMore
<1> QED
  BY <1>1, <1>2, <1>3 DEF InHttp

LEMMA StartMoves ==
  ASSUME NEW t, NEW p \in Nat, InHttp(t, p, 5), t[p + 1] \in Digit
  PROVE  InMajor(t, p + 1)
<1>1. PICK x \in 2..p, y \in 2..p : Method(t, x) /\ Uri(t, x, y) /\ p = y + 5 /\ Http(t, y, 5)
  BY DEF InHttp
<1>2. x \in 2..p + 1 /\ y \in 2..p + 1 /\ p + 1 = y + 6 /\ y + 6 <= p + 1 /\ p + 1 \in Nat
  BY <1>1
<1>3. Among(t, y + 6, p + 1, Digit)
  BY <1>2, AmongOne
<1> QED
  BY <1>1, <1>2, <1>3 DEF InMajor

LEMMA MajorMoves ==
  ASSUME NEW t, NEW p \in Nat, InMajor(t, p)
  PROVE  /\ t[p + 1] = "." => InDot(t, p + 1)
         /\ t[p + 1] \in Digit => InMajor(t, p + 1)
<1>1. PICK x \in 2..p, y \in 2..p : /\ Method(t, x) /\ Uri(t, x, y) /\ Http(t, y, 5)
                                    /\ y + 6 <= p /\ Among(t, y + 6, p, Digit)
  BY DEF InMajor
<1>2. /\ x \in 2..p + 1 /\ y \in 2..p + 1 /\ p + 1 - 1 = p
      /\ y + 6 < p + 1 /\ y + 6 <= p + 1 /\ y + 6 \in Nat
  BY <1>1
<1>3. ASSUME t[p + 1] = "." PROVE InDot(t, p + 1)
  <2>1. Major(t, y, p + 1)
    BY <1>1, <1>2, <1>3 DEF Major
  <2> QED
    BY <1>1, <1>2, <2>1 DEF InDot
<1>4. ASSUME t[p + 1] \in Digit PROVE InMajor(t, p + 1)
  <2>1. Among(t, y + 6, p + 1, Digit)
    BY <1>1, <1>2, <1>4, AmongMore
  <2> QED
    BY <1>1, <1>2, <2>1 DEF InMajor
<1> QED
  BY <1>3, <1>4

LEMMA DotMoves ==
  ASSUME NEW t, NEW p \in Nat, InDot(t, p), t[p + 1] \in Digit
  PROVE  InMinor(t, p + 1)
<1>1. PICK x \in 2..p, y \in 2..p : Method(t, x) /\ Uri(t, x, y) /\ Major(t, y, p)
  BY DEF InDot
<1>2. x \in 2..p + 1 /\ y \in 2..p + 1 /\ p \in 2..p + 1 /\ p < p + 1 /\ p + 1 \in Nat
  BY <1>1
<1>3. Among(t, p + 1, p + 1, Digit)
  BY <1>2, AmongOne
<1> QED
  BY <1>1, <1>2, <1>3 DEF InMinor

LEMMA MinorMoves ==
  ASSUME NEW t, NEW p \in Nat, InMinor(t, p)
  PROVE  /\ t[p + 1] = "CR" => InEnd(t, p + 1)
         /\ t[p + 1] \in Digit => InMinor(t, p + 1)
<1>1. PICK x \in 2..p, y \in 2..p, d \in 2..p :
         Method(t, x) /\ Uri(t, x, y) /\ Major(t, y, d) /\ d < p /\ Among(t, d + 1, p, Digit)
  BY DEF InMinor
<1>2. /\ x \in 2..p + 1 /\ y \in 2..p + 1 /\ d \in 2..p + 1 /\ p + 1 - 1 = p
      /\ d < p + 1 /\ d + 1 \in Nat
  BY <1>1
<1>3. ASSUME t[p + 1] = "CR" PROVE InEnd(t, p + 1)
  <2> DEFINE r == [sp1 |-> x, sp2 |-> y, dot |-> d]
  <2>1. x \in Places(t, 1, p, "SP") /\ y \in Places(t, 1, p, "SP") /\ d \in Places(t, 1, p, ".")
    BY <1>1 DEF Places, Method, Uri, Major
  <2>2. r \in RequestCuts(t, p)
    BY <1>1, <2>1 DEF RequestCuts, Method, Uri, Major
  <2> QED
    BY <1>2, <1>3, <2>2 DEF InEnd
<1>4. ASSUME t[p + 1] \in Digit PROVE InMinor(t, p + 1)
  <2>1. Among(t, d + 1, p + 1, Digit)
    BY <1>1, <1>2, <1>4, AmongMore
  <2> QED
    BY <1>1, <1>2, <2>1 DEF InMinor
<1> QED
  BY <1>3, <1>4

LEMMA StartOfLineMoves ==
  ASSUME NEW t, NEW s \in Nat
  PROVE  /\ t[s] \in White /\ Follows(t, s) => InWhite(t, s, s)
         /\ t[s] \in Token => InName(t, s, s)
BY AmongOne DEF InWhite, InName

LEMMA WhiteMoves ==
  ASSUME NEW t, NEW s \in Nat, NEW p \in Nat, s > 1, InWhite(t, s, p)
  PROVE  /\ t[p + 1] = "CR" => InLine(t, s, p + 1)
         /\ t[p + 1] \in White => InWhite(t, s, p + 1)
         /\ t[p + 1] \in Text \ {"SP"} => InValue(t, s, p + 1)
<1>1. s <= p /\ Among(t, s, p, White) /\ Follows(t, s)
  BY DEF InWhite
<1>2. p + 1 \in s + 1..p + 1 /\ p + 1 - 1 = p /\ s < p + 1 /\ s <= p + 1 /\ s # 1
  BY <1>1
<1>3. ASSUME t[p + 1] = "CR" PROVE InLine(t, s, p + 1)
  <2>1. Among(t, p + 1, p, Text)
    BY AmongNone
  <2>2. p + 1 \in FoldCuts(t, s, p)
    BY <1>1, <1>2, <2>1 DEF FoldCuts
  <2> QED
    BY <1>1, <1>2, <1>3, <2>2 DEF InLine, IsLine
<1>4. ASSUME t[p + 1] \in White PROVE InWhite(t, s, p + 1)
  BY <1>1, <1>2, <1>4, AmongMore DEF InWhite
<1>5. ASSUME t[p + 1] \in Text \ {"SP"} PROVE InValue(t, s, p + 1)
  <2>1. Among(t, p + 1, p + 1, Text)
    BY <1>5, AmongOne
  <2> QED
    BY <1>1, <1>2, <1>5, <2>1 DEF InValue, InFold
<1> QED
  BY <1>3, <1>4, <1>5

LEMMA NameMoves ==
  ASSUME NEW t, NEW s \in Nat, NEW p \in Nat, InName(t, s, p)
  PROVE  /\ t[p + 1] = ":" => InColon(t, s, p + 1)
         /\ t[p + 1] \in Token => InName(t, s, p + 1)
<1>1. s <= p /\ Among(t, s, p, Token) /\ p + 1 - 1 = p /\ s < p + 1 /\ s <= p + 1
  BY DEF InName
<1> QED
  BY <1>1, AmongMore DEF InName, InColon

LEMMA ColonMoves ==
  ASSUME NEW t, NEW s \in Nat, NEW p \in Nat, InColon(t, s, p), t[p + 1] = "SP"
  PROVE  InValue(t, s, p + 1)
<1>1. p \in s + 1..p + 1 - 1 /\ Among(t, s, p - 1, Token) /\ t[p] = ":"
  BY DEF InColon
<1>2. Among(t, p + 2, p + 1, Text)
  BY AmongNone
<1> QED
  BY <1>1, <1>2 DEF InValue, HeaderCuts

LEMMA ValueMoves ==
  ASSUME NEW t, NEW s \in Nat, NEW p \in Nat, s > 1, InValue(t, s, p)
  PROVE  /\ t[p + 1] = "CR" => InLine(t, s, p + 1)
         /\ t[p + 1] \in Text => InValue(t, s, p + 1)
<1>1. CASE HeaderCuts(t, s, p) # {}
  <2>1. PICK i \in s + 1..p - 1 : /\ t[i] = ":" /\ t[i + 1] = "SP" /\ Among(t, s, i - 1, Token)
                                  /\ Among(t, i + 2, p, Text)
    BY <1>1 DEF HeaderCuts
  <2>2. i \in s + 1..p + 1 - 1 /\ p + 1 - 1 = p /\ s < p + 1 /\ s # 1 /\ i + 2 \in Nat
    OBVIOUS
  <2>3. ASSUME t[p + 1] = "CR" PROVE InLine(t, s, p + 1)
    BY <1>1, <2>2, <2>3 DEF InLine, IsLine
  <2>4. ASSUME t[p + 1] \in Text PROVE InValue(t, s, p + 1)
    <3>1. Among(t, i + 2, p + 1, Text)
      BY <2>1, <2>2, <2>4, AmongMore
    <3>2. i \in HeaderCuts(t, s, p + 1)
      BY <2>1, <2>2, <3>1 DEF HeaderCuts
    <3> QED
      BY <3>2 DEF InValue
  <2> QED
    BY <2>3, <2>4
<1>2. CASE InFold(t, s, p)
  <2>1. PICK i \in s + 1..p : /\ Among(t, s, i - 1, White)
                              /\ t[i] \in Text \ {"SP"} /\ Among(t, i, p, Text)
    BY <1>2 DEF InFold
  <2>2. /\ i \in s + 1..p + 1 /\ p + 1 - 1 = p /\ s < p + 1 /\ s # 1 /\ i \in Nat
        /\ Follows(t, s)
    BY <1>2 DEF InFold
  <2>3. ASSUME t[p + 1] = "CR" PROVE InLine(t, s, p + 1)
    <3>1. i \in FoldCuts(t, s, p)
      BY <2>1, <2>2 DEF FoldCuts
    <3> QED
      BY <2>2, <2>3, <3>1 DEF InLine, IsLine
  <2>4. ASSUME t[p + 1] \in Text PROVE InValue(t, s, p + 1)
    <3>1. Among(t, i, p + 1, Text)
      BY <2>1, <2>2, <2>4, AmongMore
    <3> QED
      BY <2>1, <2>2, <3>1 DEF InValue, InFold
  <2> QED
    BY <2>3, <2>4
<1> QED
  BY <1>1, <1>2 DEF InValue

\* A branch of consume() that does not take an LF stays in its line and extends it.
LEMMA ShapeMoves ==
  ASSUME NEW t, NEW s \in Nat, NEW p \in Nat, NEW st, Shape(t, st, s, p),
         NEW r \in Table, r.from = st, st \notin Newlines, t[p + 1] \in r.on,
         r.to = "header_lws" => Follows(t, s)
  PROVE  Shape(t, r.to, s, p + 1)
<1> DEFINE c == t[p + 1]
<1>1. CASE st = "method_start"
  <2>1. s = 1 /\ p = 0 /\ c \in Token /\ r.to = "method"
    BY <1>1 DEF Shape, Table, Row
  <2>2. InMethod(t, p + 1)
    BY <2>1, AmongOne DEF InMethod
  <2> QED
    BY <2>1, <2>2 DEF Shape
<1>2. CASE st = "method"
  <2>1. s = 1 /\ InMethod(t, p) /\ \/ c = "SP" /\ r.to = "uri"
                                   \/ c \in Token /\ r.to = "method"
    BY <1>2 DEF Shape, Table, Row
  <2> QED
    BY <2>1, MethodMoves DEF Shape
<1>3. CASE st = "uri"
  <2>1. s = 1 /\ InUri(t, p) /\ \/ c = "SP" /\ r.to = "http_version_h"
                                \/ c \in Text \ {"SP"} /\ r.to = "uri"
    BY <1>3 DEF Shape, Table, Row
  <2> QED
    BY <2>1, UriMoves DEF Shape
<1>4. CASE st = "http_version_h"
  <2>1. s = 1 /\ InHttp(t, p, 0) /\ c = "H" /\ r.to = "http_version_t_1"
    BY <1>4 DEF Shape, Table, Row
  <2>2. InHttp(t, p + 1, 0 + 1)
    BY <2>1, HttpMoves
  <2> QED
    BY <2>1, <2>2 DEF Shape
<1>5. CASE st = "http_version_t_1"
  <2>1. s = 1 /\ InHttp(t, p, 1) /\ c = "T" /\ r.to = "http_version_t_2"
    BY <1>5 DEF Shape, Table, Row
  <2>2. InHttp(t, p + 1, 1 + 1)
    BY <2>1, HttpMoves
  <2> QED
    BY <2>1, <2>2 DEF Shape
<1>6. CASE st = "http_version_t_2"
  <2>1. s = 1 /\ InHttp(t, p, 2) /\ c = "T" /\ r.to = "http_version_p"
    BY <1>6 DEF Shape, Table, Row
  <2>2. InHttp(t, p + 1, 2 + 1)
    BY <2>1, HttpMoves
  <2> QED
    BY <2>1, <2>2 DEF Shape
<1>7. CASE st = "http_version_p"
  <2>1. s = 1 /\ InHttp(t, p, 3) /\ c = "P" /\ r.to = "http_version_slash"
    BY <1>7 DEF Shape, Table, Row
  <2>2. InHttp(t, p + 1, 3 + 1)
    BY <2>1, HttpMoves
  <2> QED
    BY <2>1, <2>2 DEF Shape
<1>8. CASE st = "http_version_slash"
  <2>1. s = 1 /\ InHttp(t, p, 4) /\ c = "/" /\ r.to = "http_version_major_start"
    BY <1>8 DEF Shape, Table, Row
  <2>2. InHttp(t, p + 1, 4 + 1)
    BY <2>1, HttpMoves
  <2> QED
    BY <2>1, <2>2 DEF Shape
<1>9. CASE st = "http_version_major_start"
  <2>1. s = 1 /\ InHttp(t, p, 5) /\ c \in Digit /\ r.to = "http_version_major"
    BY <1>9 DEF Shape, Table, Row
  <2> QED
    BY <2>1, StartMoves DEF Shape
<1>10. CASE st = "http_version_major"
  <2>1. s = 1 /\ InMajor(t, p) /\ \/ c = "." /\ r.to = "http_version_minor_start"
                                  \/ c \in Digit /\ r.to = "http_version_major"
    BY <1>10 DEF Shape, Table, Row
  <2> QED
    BY <2>1, MajorMoves DEF Shape
<1>11. CASE st = "http_version_minor_start"
  <2>1. s = 1 /\ InDot(t, p) /\ c \in Digit /\ r.to = "http_version_minor"
    BY <1>11 DEF Shape, Table, Row
  <2> QED
    BY <2>1, DotMoves DEF Shape
<1>12. CASE st = "http_version_minor"
  <2>1. s = 1 /\ InMinor(t, p) /\ \/ c = "CR" /\ r.to = "expecting_newline_1"
                                  \/ c \in Digit /\ r.to = "http_version_minor"
    BY <1>12 DEF Shape, Table, Row
  <2> QED
    BY <2>1, MinorMoves DEF Shape
<1>13. CASE st = "header_line_start"
  <2>1. s > 1 /\ p + 1 = s /\ \/ c = "CR" /\ r.to = "expecting_newline_3"
                              \/ c \in White /\ r.to = "header_lws"
                              \/ c \in Token /\ r.to = "header_name"
    BY <1>13 DEF Shape, Table, Row, White
  <2> QED
    BY <2>1, StartOfLineMoves DEF Shape
<1>14. CASE st = "header_lws"
  <2>1. s > 1 /\ InWhite(t, s, p) /\ \/ c = "CR" /\ r.to = "expecting_newline_2"
                                     \/ c \in White /\ r.to = "header_lws"
                                     \/ c \in Text \ {"SP"} /\ r.to = "header_value"
    BY <1>14 DEF Shape, Table, Row, White
  <2> QED
    BY <2>1, WhiteMoves DEF Shape
<1>15. CASE st = "header_name"
  <2>1. s > 1 /\ InName(t, s, p) /\ \/ c = ":" /\ r.to = "space_before_header_value"
                                    \/ c \in Token /\ r.to = "header_name"
    BY <1>15 DEF Shape, Table, Row
  <2> QED
    BY <2>1, NameMoves DEF Shape
<1>16. CASE st = "space_before_header_value"
  <2>1. s > 1 /\ InColon(t, s, p) /\ c = "SP" /\ r.to = "header_value"
    BY <1>16 DEF Shape, Table, Row
  <2> QED
    BY <2>1, ColonMoves DEF Shape
<1>17. CASE st = "header_value"
  <2>1. s > 1 /\ InValue(t, s, p) /\ \/ c = "CR" /\ r.to = "expecting_newline_2"
                                     \/ c \in Text /\ r.to = "header_value"
    BY <1>17 DEF Shape, Table, Row
  <2> QED
    BY <2>1, ValueMoves DEF Shape
<1> QED
  BY <1>1, <1>2, <1>3, <1>4, <1>5, <1>6, <1>7, <1>8, <1>9, <1>10, <1>11, <1>12, <1>13, <1>14,
     <1>15, <1>16, <1>17 DEF Shape, Newlines

\* The branches that take a newline, and those that do not.
LEMMA RowChars ==
  ASSUME NEW r \in Table
  PROVE  /\ r.from \in Newlines => /\ r.on = {"LF"} /\ r.to = "header_line_start"
                                   /\ r.from # "expecting_newline_3"
         /\ r.from \notin Newlines /\ r.to \in Newlines => r.on = {"CR"}
         /\ r.from \notin Newlines /\ r.to \notin Newlines =>
              r.on \subseteq Char \ {"CR", "LF"} /\ r.to # "header_line_start"
BY DEF Table, Row, Newlines, Char, Token, TSpecial, Text, Ctl, Digit

LEMMA UnbrokenMoves ==
  ASSUME NEW t, NEW s \in Nat, NEW p \in Nat, NEW r \in Table, r.from \notin Newlines,
         Unbroken(t, r.from, s, p), t[p + 1] \in r.on
  PROVE  Unbroken(t, r.to, s, p + 1)
<1>1. Plain(t, s, p) /\ p + 1 - 1 = p
  BY DEF Unbroken
<1>2. CASE r.to \in Newlines
  BY <1>1, <1>2, RowChars DEF Unbroken
<1>3. CASE r.to \notin Newlines
  <2>1. t[p + 1] \in Char \ {"CR", "LF"}
    BY <1>3, RowChars
  <2>2. Among(t, s, p + 1, Char \ {"CR", "LF"})
    BY <1>1, <2>1, AmongMore DEF Plain
  <2> QED
    BY <1>3, <2>2 DEF Unbroken, Plain
<1> QED
  BY <1>2, <1>3

\* After the LF behind a line, the next one begins; there is a line before it, apart from
\* the request line, if the line just ended was not the request line.
LEMMA LineEnds ==
  ASSUME NEW t, NEW s \in Nat, NEW p \in Nat, 0 < s, s <= p, Before(t, s),
         t[p] = "CR", t[p + 1] = "LF", Plain(t, s, p - 1), IsLine(t, s, p - 1)
  PROVE  /\ Before(t, p + 2)
         /\ Follows(t, p + 2) <=> s > 1
<1>1. /\ p + 2 - 1 = p + 1 /\ p - 1 \in Int
      /\ \A i \in s..p - 1 : t[i] # "CR" /\ t[i] # "LF"
  BY DEF Plain, Among
<1>2. \A i \in 1..s - 1 : /\ t[i] = "CR" => i < s - 1 /\ t[i + 1] = "LF"
                          /\ t[i] = "LF" => i > 1 /\ t[i - 1] = "CR"
  BY DEF Before, Paired
<1>3. LineStart(t, p + 2)
  BY <1>1 DEF LineStart
<1>4. Paired(t, p + 1)
  <2> SUFFICES ASSUME NEW i \in 1..p + 1
               PROVE  /\ t[i] = "CR" => i < p + 1 /\ t[i + 1] = "LF"
                      /\ t[i] = "LF" => i > 1 /\ t[i - 1] = "CR"
    BY DEF Paired
  <2>1. CASE i \in 1..s - 1
    BY <1>2, <2>1
  <2>2. CASE i \in s..p - 1
    BY <1>1, <2>2
  <2>3. CASE i = p
    BY <2>3
  <2>4. CASE i = p + 1
    BY <2>4
  <2> QED
    BY <2>1, <2>2, <2>3, <2>4
<1>5. ASSUME NEW a \in 1..p + 1, LineStart(t, a) PROVE a \in 1..s
  BY <1>1, <1>5 DEF LineStart
<1>6. ASSUME NEW a \in 1..p + 1, LineStart(t, a) PROVE HasLine(t, a, p + 1)
  <2>1. CASE a \in 1..s - 1
    <3>1. HasLine(t, a, s - 1)
      BY <1>6, <2>1 DEF Before
    <3>2. PICK e \in a..s - 1 - 1 : LineEnd(t, a, e) /\ IsLine(t, a, e - 1)
      BY <3>1 DEF HasLine
    <3>3. e \in a..p + 1 - 1
      OBVIOUS
    <3> QED
      BY <3>2, <3>3 DEF HasLine
  <2>2. CASE a = s
    <3>1. Among(t, s, p - 1, Char \ {"CR"})
      BY DEF Plain, Among
    <3>2. LineEnd(t, s, p) /\ p \in s..p + 1 - 1
      BY <3>1 DEF LineEnd
    <3> QED
      BY <2>2, <3>2 DEF HasLine
  <2> QED
    BY <1>5, <1>6, <2>1, <2>2
<1>7. Before(t, p + 2)
  BY <1>1, <1>3, <1>4, <1>6 DEF Before
<1>8. ASSUME s > 1 PROVE Follows(t, p + 2)
  <2>1. s \in 2..p + 2 - 1 /\ LineStart(t, s)
    BY <1>8 DEF Before
  <2> QED
    BY <2>1 DEF Follows
<1>9. ASSUME Follows(t, p + 2) PROVE s > 1
  <2>1. PICK h \in 2..p + 2 - 1 : LineStart(t, h)
    BY <1>9 DEF Follows
  <2>2. h \in 1..p + 1
    OBVIOUS
  <2> QED
    BY <1>5, <2>1, <2>2
<1> QED
  BY <1>7, <1>8, <1>9

LEMMA CutParts ==
  ASSUME NEW t, NEW b, NEW r \in RequestCuts(t, b)
  PROVE  /\ r.sp1 \in 1..b /\ r.sp2 \in 1..b /\ r.dot \in 1..b /\ r.dot < b
         /\ Method(t, r.sp1) /\ Uri(t, r.sp1, r.sp2) /\ Major(t, r.sp2, r.dot)
         /\ Among(t, r.dot + 1, b, Digit)
BY DEF RequestCuts, Places, Method, Uri, Major

\* A step of the parser keeps its place: in the line, or at the start of the next one.
LEMMA LocatedMoves ==
  ASSUME NEW t, NEW s \in Nat, NEW p \in Nat, 0 < s, s <= p + 1,
         NEW st, NEW hs, Located(t, st, s, p, hs),
         NEW r \in Table, r.from = st, t[p + 1] \in r.on,
         r.to = "header_lws" => hs # <<>>,
         st = "expecting_newline_2" => hs # <<>>,
         NEW hs2, \/ hs2 = hs
                  \/ st \in {"header_line_start", "header_lws", "header_name", "header_value"}
  PROVE  \E u \in 1..p + 2 : Located(t, r.to, u, p + 1, hs2)
<1> USE DEF Located
<1>1. CASE st \notin Newlines
  <2>1. r.to = "header_lws" => Follows(t, s)
    <3> SUFFICES ASSUME r.to = "header_lws" PROVE Follows(t, s)
      OBVIOUS
    <3>1. st = "header_line_start" \/ st = "header_lws"
      BY DEF Table, Row
    <3>2. CASE st = "header_line_start"
      BY <3>2 DEF Linked
    <3>3. CASE st = "header_lws"
      BY <3>3 DEF Shape, InWhite
    <3> QED
      BY <3>1, <3>2, <3>3
  <2>2. Shape(t, r.to, s, p + 1)
    BY <1>1, <2>1, ShapeMoves
  <2>3. Unbroken(t, r.to, s, p + 1)
    BY <1>1, UnbrokenMoves
  <2>4. Linked(t, r.to, s, hs2)
    <3>1. st \in {"header_line_start", "header_lws", "header_name", "header_value"} => s > 1
      BY DEF Shape
    <3>2. r.to # "header_line_start"
      BY <1>1, RowChars DEF Newlines
    <3> QED
      BY <3>1, <3>2 DEF Linked
  <2>5. s \in 1..p + 2
    OBVIOUS
  <2> QED
    BY <2>2, <2>3, <2>4, <2>5
<1>2. CASE st \in Newlines
  <2>1. t[p + 1] = "LF" /\ r.to = "header_line_start" /\ hs2 = hs
        /\ st \in {"expecting_newline_1", "expecting_newline_2"}
    BY <1>2, RowChars DEF Newlines
  <2>2. t[p] = "CR" /\ Plain(t, s, p - 1)
    BY <1>2 DEF Unbroken
  <2>3. /\ s <= p /\ IsLine(t, s, p - 1)
        /\ s > 1 <=> st = "expecting_newline_2"
    <3>1. CASE st = "expecting_newline_1"
      <4>1. s = 1 /\ InEnd(t, p)
        BY <3>1 DEF Shape
      <4> QED
        BY <3>1, <4>1 DEF InEnd, IsLine
    <3>2. CASE st = "expecting_newline_2"
      <4>1. s > 1 /\ InLine(t, s, p)
        BY <3>2 DEF Shape
      <4> QED
        BY <3>2, <4>1 DEF InLine
    <3> QED
      BY <2>1, <3>1, <3>2
  <2>4. Before(t, p + 2) /\ (Follows(t, p + 2) <=> s > 1)
    BY <2>1, <2>2, <2>3, LineEnds
  <2>5. p + 2 > 1 /\ p + 1 = p + 2 - 1 /\ p + 2 \in 1..p + 2 /\ p + 2 # 1
    OBVIOUS
  <2>6. Shape(t, r.to, p + 2, p + 1)
    BY <2>1, <2>5 DEF Shape
  <2>7. Unbroken(t, r.to, p + 2, p + 1)
    <3>1. Among(t, p + 2, p + 1, Char \ {"CR", "LF"})
      BY AmongNone
    <3> QED
      BY <2>1, <3>1 DEF Unbroken, Plain, Newlines
  <2>8. Linked(t, r.to, p + 2, hs2)
    BY <2>1, <2>3, <2>4, <2>5 DEF Linked
  <2> QED
    BY <2>4, <2>5, <2>6, <2>7, <2>8
<1> QED
  BY <1>1, <1>2

-----------------------------------------------------------------------------
(* The verdict *)

\* Soundness: the newline after an empty line completes a request.
LEMMA GoodIsRequest ==
  ASSUME NEW t, NEW s \in Nat, NEW p \in Nat, NEW hs, 0 < s,
         Located(t, "expecting_newline_3", s, p, hs), t[p + 1] = "LF"
  PROVE  IsRequest(t, p + 1)
<1>1. p = s /\ s > 1 /\ t[p] = "CR" /\ LineStart(t, s) /\ p + 1 - 1 = s /\ p + 1 - 2 = s - 1
  BY DEF Located, Shape, Before
<1>2. Before(t, s)
  BY DEF Located
<1>3. Paired(t, p + 1)
  BY <1>1, <1>2 DEF Before, Paired
<1>4. ASSUME NEW a \in 1..s - 1, LineStart(t, a) PROVE HasLine(t, a, s)
  BY <1>1, <1>2, <1>4 DEF Before, HasLine
<1> QED
  BY <1>1, <1>3, <1>4 DEF IsRequest

\* No request ends in what the parser has consumed without a verdict.
LEMMA NoneYet ==
  ASSUME NEW t, NEW st, NEW s \in Nat, NEW p \in Nat, NEW hs, 0 < s, s <= p + 1,
         Located(t, st, s, p, hs), NEW k \in Nat, IsRequest(t, k)
  PROVE  p < k
<1> SUFFICES ASSUME k <= p PROVE FALSE
  OBVIOUS
<1>1. k > 2 /\ t[k] = "LF" /\ LineStart(t, k - 1) /\ t[k - 1] = "CR"
  BY DEF IsRequest, Paired
<1>2. \A i \in s..p : t[i] # "LF"
  <2>1. CASE st \in Newlines
    BY <2>1 DEF Located, Unbroken, Plain, Among
  <2>2. CASE st \notin Newlines
    BY <2>2 DEF Located, Unbroken, Plain, Among
  <2> QED
    BY <2>1, <2>2
<1>3. k - 1 \in 1..s - 1
  BY <1>1, <1>2
<1>4. PICK e \in k - 1..s - 1 - 1 : LineEnd(t, k - 1, e) /\ IsLine(t, k - 1, e - 1)
  BY <1>1, <1>3 DEF Located, Before, HasLine
<1>5. e = k - 1
  BY <1>1, <1>4 DEF LineEnd, Among
<1>6. HeaderCuts(t, k - 1, e - 1) = {} /\ FoldCuts(t, k - 1, e - 1) = {}
  BY <1>5 DEF HeaderCuts, FoldCuts
<1> QED
  BY <1>1, <1>4, <1>6 DEF IsLine

\* There is only one place to cut a request line.
LEMMA OneMethod ==
  ASSUME NEW t, NEW x \in Nat, NEW z \in Nat, Method(t, x), Method(t, z) PROVE x = z
<1>1. 0 < x /\ 0 < z /\ t[x] \notin Token /\ t[z] \notin Token
  BY DEF Method, Token, TSpecial
<1> QED
  BY <1>1 DEF Method, Among

LEMMA OneUri ==
  ASSUME NEW t, NEW x \in Nat, NEW y \in Nat, NEW z \in Nat, Uri(t, x, y), Uri(t, x, z) PROVE y = z
BY DEF Uri, Among

LEMMA OneDot ==
  ASSUME NEW t, NEW y \in Nat, NEW d \in Nat, NEW z \in Nat, Major(t, y, d), Major(t, y, z) PROVE d = z
<1>1. t[d] \notin Digit /\ t[z] \notin Digit
  BY DEF Major, Digit
<1> QED
  BY <1>1 DEF Major, Among

\* Where characters of a kind are followed, at z, by one that is not, the next one is either.
LEMMA NextIs ==
  ASSUME NEW t, NEW a \in Nat, NEW p \in Nat, NEW z \in Nat, NEW S, a <= z, a <= p + 1,
         Among(t, a, p, S), Among(t, a, z - 1, S), t[z] \notin S
  PROVE  t[p + 1] \in S \/ p + 1 = z
BY DEF Among

\* What comes next in the request line if its cuts are at x, y and d and its CR is at e.
LEMMA RequestLineGoesOn ==
  ASSUME NEW t, NEW p \in Nat, NEW e \in Nat, p < e, t[e] = "CR",
         NEW x \in Nat, NEW y \in Nat, NEW d \in Nat,
         Method(t, x), Uri(t, x, y), Major(t, y, d), d + 1 < e, Among(t, d + 1, e - 1, Digit)
  PROVE  /\ t[1] \in Token
         /\ InMethod(t, p) => t[p + 1] \in Token \cup {"SP"}
         /\ InUri(t, p) => t[p + 1] \in Text
         /\ \A n \in 0..4 : InHttp(t, p, n) => t[p + 1] = <<"H", "T", "T", "P", "/">>[n + 1]
         /\ InHttp(t, p, 5) => t[p + 1] \in Digit
         /\ InMajor(t, p) => t[p + 1] \in Digit \cup {"."}
         /\ InDot(t, p) => t[p + 1] \in Digit
         /\ InMinor(t, p) => t[p + 1] \in Digit \cup {"CR"}
<1>1. /\ t[x] = "SP" /\ "SP" \notin Token /\ Among(t, 1, x - 1, Token) /\ 1 < x
  BY DEF Method, Token, TSpecial
<1>2. t[y] = "SP" /\ x < y /\ Among(t, x + 1, y - 1, Text \ {"SP"})
  BY DEF Uri
<1>3. /\ t[d] = "." /\ "." \notin Digit /\ "CR" \notin Digit /\ y + 6 < d /\ Http(t, y, 5)
      /\ Among(t, y + 6, d - 1, Digit)
  BY DEF Major, Digit
<1>4. t[1] \in Token
  BY <1>1 DEF Among
<1>5. InMethod(t, p) => t[p + 1] \in Token \cup {"SP"}
  BY <1>1, NextIs DEF InMethod
<1>6. ASSUME InUri(t, p) PROVE t[p + 1] \in Text
  <2>1. PICK u \in 2..p : Method(t, u) /\ Among(t, u + 1, p, Text \ {"SP"})
    BY <1>6 DEF InUri
  <2>2. u = x /\ x + 1 \in Nat /\ x + 1 <= y /\ x + 1 <= p + 1
    BY <1>2, <2>1, OneMethod
  <2>3. t[p + 1] \in Text \ {"SP"} \/ p + 1 = y
    BY <1>2, <2>1, <2>2, NextIs
  <2> QED
    BY <1>2, <2>3 DEF Text, Char, Ctl
<1>7. ASSUME NEW u \in 2..p, NEW v \in 2..p, Method(t, u), Uri(t, u, v) PROVE u = x /\ v = y
  <2>1. u = x
    BY <1>7, OneMethod
  <2> QED
    BY <1>7, <2>1, OneUri
<1>8. ASSUME NEW n \in 0..4, InHttp(t, p, n)
      PROVE  t[p + 1] = <<"H", "T", "T", "P", "/">>[n + 1]
  <2>1. p = y + n
    BY <1>7, <1>8 DEF InHttp
  <2>2. n + 1 \in 1..5 /\ y + (n + 1) = p + 1
    BY <2>1
  <2>3. t[y + (n + 1)] = <<"H", "T", "T", "P", "/">>[n + 1]
    BY <1>3, <2>2 DEF Http
  <2> QED
    BY <2>2, <2>3
<1>9. ASSUME InHttp(t, p, 5) PROVE t[p + 1] \in Digit
  <2>1. p = y + 5
    BY <1>7, <1>9 DEF InHttp
  <2>2. p + 1 \in y + 6..d - 1
    BY <1>3, <2>1
  <2> QED
    BY <1>3, <2>2 DEF Among
<1>10. ASSUME InMajor(t, p) PROVE t[p + 1] \in Digit \cup {"."}
  <2>1. y + 6 <= p /\ Among(t, y + 6, p, Digit)
    BY <1>7, <1>10 DEF InMajor
  <2>2. y + 6 \in Nat /\ y + 6 <= d /\ y + 6 <= p + 1
    BY <1>3, <2>1
  <2> QED
    BY <1>3, <2>1, <2>2, NextIs
<1>11. ASSUME InDot(t, p) PROVE t[p + 1] \in Digit
  <2>1. Major(t, y, p)
    BY <1>7, <1>11 DEF InDot
  <2>2. p = d
    BY <2>1, OneDot
  <2> QED
    BY <2>2 DEF Among
<1>12. ASSUME InMinor(t, p) PROVE t[p + 1] \in Digit \cup {"CR"}
  <2>1. PICK u \in 2..p, v \in 2..p, f \in 2..p :
           Method(t, u) /\ Uri(t, u, v) /\ Major(t, v, f) /\ f < p /\ Among(t, f + 1, p, Digit)
    BY <1>12 DEF InMinor
  <2>2. v = y
    BY <1>7, <2>1
  <2>3. f = d
    BY <2>1, <2>2, OneDot
  <2>4. t[p + 1] \in Digit \/ p + 1 = e
    BY <2>1, <2>3 DEF Among
  <2> QED
    BY <2>4
<1> QED
  BY <1>4, <1>5, <1>6, <1>8, <1>9, <1>10, <1>11, <1>12

\* What comes next in a header line whose colon is at i and whose CR is at e.
LEMMA HeaderGoesOn ==
  ASSUME NEW t, NEW s \in Nat, NEW p \in Nat, NEW e \in Nat, 0 < s, p < e, t[e] = "CR",
         NEW i \in HeaderCuts(t, s, e - 1)
  PROVE  /\ t[s] \in Token
         /\ ~InWhite(t, s, p)
         /\ InName(t, s, p) => t[p + 1] \in Token \cup {":"}
         /\ InColon(t, s, p) => t[p + 1] = "SP"
         /\ InValue(t, s, p) => t[p + 1] \in Text \cup {"CR"}
<1>1. /\ i \in s + 1..e - 2 /\ t[i] = ":" /\ t[i + 1] = "SP"
      /\ Among(t, s, i - 1, Token) /\ Among(t, i + 2, e - 1, Text)
  BY DEF HeaderCuts
<1>2. ":" \notin Token /\ Token \cap White = {}
  BY DEF Token, TSpecial, White
<1>3. t[s] \in Token
  BY <1>1 DEF Among
<1>4. ~InWhite(t, s, p)
  BY <1>2, <1>3 DEF InWhite, Among
<1>5. ASSUME InName(t, s, p) PROVE t[p + 1] \in Token \cup {":"}
  <2>1. s <= i /\ s <= p + 1 /\ i \in Nat /\ t[i] \notin Token /\ Among(t, s, p, Token)
    BY <1>1, <1>2, <1>5 DEF InName
  <2>2. t[p + 1] \in Token \/ p + 1 = i
    BY <1>1, <2>1, NextIs
  <2> QED
    BY <1>1, <2>2
<1>6. InColon(t, s, p) => t[p + 1] = "SP"
  <2> SUFFICES ASSUME InColon(t, s, p) PROVE t[p + 1] = "SP"
    OBVIOUS
  <2>1. p = i
    BY <1>1, <1>2 DEF InColon, Among
  <2> QED
    BY <1>1, <2>1
<1>7. ASSUME InValue(t, s, p) PROVE t[p + 1] \in Text \cup {"CR"}
  <2>1. CASE HeaderCuts(t, s, p) # {}
    <3>1. PICK j \in s + 1..p - 1 : t[j] = ":" /\ Among(t, s, j - 1, Token)
      BY <2>1 DEF HeaderCuts
    <3>2. j = i
      BY <1>1, <1>2, <3>1 DEF Among
    <3>3. p + 1 \in i + 2..e - 1 \/ p + 1 = e
      BY <3>1, <3>2
    <3> QED
      BY <1>1, <3>3 DEF Among
  <2>2. CASE InFold(t, s, p)
    <3>1. t[s] \in White
      BY <2>2 DEF InFold, Among
    <3> QED
      BY <1>2, <1>3, <3>1
  <2> QED
    BY <1>7, <2>1, <2>2 DEF InValue
<1> QED
  BY <1>3, <1>4, <1>5, <1>6, <1>7

\* What comes next in a folded line whose text may begin at i and whose CR is at e.
LEMMA FoldGoesOn ==
  ASSUME NEW t, NEW s \in Nat, NEW p \in Nat, NEW e \in Nat, 0 < s, p < e, t[e] = "CR",
         NEW i \in FoldCuts(t, s, e - 1)
  PROVE  /\ t[s] \in White
         /\ InWhite(t, s, p) => t[p + 1] \in White \cup Text \cup {"CR"}
         /\ ~InName(t, s, p) /\ ~InColon(t, s, p)
         /\ InValue(t, s, p) => t[p + 1] \in Text \cup {"CR"}
<1>1. i \in s + 1..e /\ Among(t, s, i - 1, White) /\ Among(t, i, e - 1, Text)
  BY DEF FoldCuts
<1>2. Token \cap White = {}
  BY DEF Token, TSpecial, White
<1>3. t[s] \in White
  BY <1>1 DEF Among
<1>4. InWhite(t, s, p) => t[p + 1] \in White \cup Text \cup {"CR"}
  BY <1>1 DEF InWhite, Among
<1>5. ~InName(t, s, p) /\ ~InColon(t, s, p)
  BY <1>2, <1>3 DEF InName, InColon, Among
<1>6. ASSUME InValue(t, s, p) PROVE t[p + 1] \in Text \cup {"CR"}
  <2>1. HeaderCuts(t, s, p) = {}
    <3> SUFFICES ASSUME NEW j \in HeaderCuts(t, s, p) PROVE FALSE
      OBVIOUS
    <3>1. t[s] \in Token
      BY DEF HeaderCuts, Among
    <3> QED
      BY <1>2, <1>3, <3>1
  <2>2. PICK j \in s + 1..p : t[j] \in Text \ {"SP"}
    BY <1>6, <2>1 DEF InValue, InFold
  <2>3. t[j] \notin White
    BY <2>2 DEF White, Text, Ctl
  <2>4. i <= j
    BY <1>1, <2>2, <2>3 DEF Among
  <2>5. p + 1 \in i..e - 1 \/ p + 1 = e
    BY <1>1, <2>4
  <2> QED
    BY <1>1, <2>5 DEF Among
<1> QED
  BY <1>3, <1>4, <1>5, <1>6

\* The states inside a line and the characters they have a branch for.
HasBranch(st, c, hs) ==
  \/ st = "method_start" /\ c \in Token
  \/ st = "method" /\ c \in Token \cup {"SP"}
  \/ st = "uri" /\ c \in Text
  \/ st = "http_version_h" /\ c = "H"
  \/ st = "http_version_t_1" /\ c = "T"
  \/ st = "http_version_t_2" /\ c = "T"
  \/ st = "http_version_p" /\ c = "P"
  \/ st = "http_version_slash" /\ c = "/"
  \/ st = "http_version_major_start" /\ c \in Digit
  \/ st = "http_version_major" /\ c \in Digit \cup {"."}
  \/ st = "http_version_minor_start" /\ c \in Digit
  \/ st = "http_version_minor" /\ c \in Digit \cup {"CR"}
  \/ st = "header_line_start" /\ c \in Token \cup {"CR"}
  \/ st = "header_line_start" /\ c \in White /\ hs # <<>>
  \/ st = "header_lws" /\ c \in White \cup Text \cup {"CR"} /\ hs # <<>>
  \/ st = "header_name" /\ c \in Token \cup {":"}
  \/ st = "space_before_header_value" /\ c = "SP"
  \/ st = "header_value" /\ c \in Text \cup {"CR"}

LEMMA BranchInTable ==
  ASSUME NEW st, NEW c, NEW hs, HasBranch(st, c, hs)
  PROVE  \E r \in Table : r.from = st /\ c \in r.on /\ (r.to = "header_lws" => hs # <<>>)
<1> DEFINE Goes(on, to) == \E put : Row(st, on, to, put) \in Table
<1>1. ASSUME NEW on, NEW to, Goes(on, to), c \in on, to = "header_lws" => hs # <<>>
      PROVE  \E r \in Table : r.from = st /\ c \in r.on /\ (r.to = "header_lws" => hs # <<>>)
  BY <1>1 DEF Row
<1>2. st = "method_start" => Goes(Token, "method")
  BY DEF Table
<1>3. st = "method" => Goes(Token, "method") /\ Goes({"SP"}, "uri")
  BY DEF Table
<1>4. st = "uri" => Goes(Text \ {"SP"}, "uri") /\ Goes({"SP"}, "http_version_h")
  BY DEF Table
<1>5. st = "http_version_h" => Goes({"H"}, "http_version_t_1")
  BY DEF Table
<1>6. st = "http_version_t_1" => Goes({"T"}, "http_version_t_2")
  BY DEF Table
<1>7. st = "http_version_t_2" => Goes({"T"}, "http_version_p")
  BY DEF Table
<1>8. st = "http_version_p" => Goes({"P"}, "http_version_slash")
  BY DEF Table
<1>9. st = "http_version_slash" => Goes({"/"}, "http_version_major_start")
  BY DEF Table
<1>10. st = "http_version_major_start" => Goes(Digit, "http_version_major")
  BY DEF Table
<1>11. st = "http_version_major" =>
          Goes(Digit, "http_version_major") /\ Goes({"."}, "http_version_minor_start")
  BY DEF Table
<1>12. st = "http_version_minor_start" => Goes(Digit, "http_version_minor")
  BY DEF Table
<1>13. st = "http_version_minor" =>
          Goes(Digit, "http_version_minor") /\ Goes({"CR"}, "expecting_newline_1")
  BY DEF Table
<1>14. st = "header_line_start" => /\ Goes(Token, "header_name") /\ Goes(White, "header_lws")
                                   /\ Goes({"CR"}, "expecting_newline_3")
  BY DEF Table, White
<1>15. st = "header_lws" => /\ Goes(White, "header_lws") /\ Goes(Text \ {"SP"}, "header_value")
                            /\ Goes({"CR"}, "expecting_newline_2")
  BY DEF Table, White
<1>16. st = "header_name" => Goes(Token, "header_name") /\ Goes({":"}, "space_before_header_value")
  BY DEF Table
<1>17. st = "space_before_header_value" => Goes({"SP"}, "header_value")
  BY DEF Table
<1>18. st = "header_value" => Goes(Text, "header_value") /\ Goes({"CR"}, "expecting_newline_2")
  BY DEF Table
<1>19. c \in Text => c \in Text \ {"SP"} \/ c \in {"SP"}
  OBVIOUS
<1>20. c \in {"SP"} => c \in White
  BY DEF White
<1> HIDE DEF Goes
<1> QED
  BY <1>1, <1>2, <1>3, <1>4, <1>5, <1>6, <1>7, <1>8, <1>9, <1>10, <1>11, <1>12, <1>13, <1>14,
     <1>15, <1>16, <1>17, <1>18, <1>19, <1>20 DEF HasBranch

\* Completeness: as long as the input may become a request, consume() has a branch.
LEMMA RequestGoesOn ==
  ASSUME NEW t, NEW st, NEW s \in Nat, NEW p \in Nat, NEW hs, 0 < s, s <= p + 1,
         Located(t, st, s, p, hs), st = "header_lws" => hs # <<>>,
         NEW k \in Nat, IsRequest(t, k), p < k
  PROVE  \/ st = "expecting_newline_3" /\ t[p + 1] = "LF"
         \/ \E r \in Table : /\ r.from = st /\ t[p + 1] \in r.on
                             /\ r.to = "header_lws" => hs # <<>>
<1> DEFINE c == t[p + 1]
           Goes == \E r \in Table : /\ r.from = st /\ c \in r.on
                                    /\ r.to = "header_lws" => hs # <<>>
<1>1. /\ k > 2 /\ t[k] = "LF" /\ LineStart(t, k - 1) /\ t[k - 1] = "CR"
      /\ \A i \in 1..k : /\ t[i] = "CR" => i < k /\ t[i + 1] = "LF"
                         /\ t[i] = "LF" => i > 1 /\ t[i - 1] = "CR"
  BY DEF IsRequest, Paired
<1>2. Shape(t, st, s, p) /\ LineStart(t, s)
  BY DEF Located, Before
<1>3. CASE st \in Newlines
  <2>1. t[p] = "CR" /\ p \in 1..k
    <3>1. t[p] = "CR" /\ p > 0
      BY <1>2, <1>3 DEF Located, Unbroken, Shape, Newlines, InEnd, InLine
    <3> QED
      BY <3>1
  <2>2. c = "LF"
    BY <1>1, <2>1
  <2>3. st \in {"expecting_newline_1", "expecting_newline_2"} => Goes
    <3>1. CASE st = "expecting_newline_1"
      <4>1. Row("expecting_newline_1", {"LF"}, "header_line_start", "nothing") \in Table
        BY DEF Table
      <4> QED
        BY <2>2, <3>1, <4>1 DEF Row
    <3>2. CASE st = "expecting_newline_2"
      <4>1. Row("expecting_newline_2", {"LF"}, "header_line_start", "nothing") \in Table
        BY DEF Table
      <4> QED
        BY <2>2, <3>2, <4>1 DEF Row
    <3> QED
      BY <3>1, <3>2
  <2> QED
    BY <1>3, <2>2, <2>3 DEF Newlines
<1>4. CASE st \notin Newlines
  <2>1. \A i \in s..p : t[i] # "CR" /\ t[i] # "LF"
    BY <1>4 DEF Located, Unbroken, Plain, Among
  <2>2. s # k
    BY <1>1, <1>2 DEF LineStart
  <2>3. CASE s = k - 1
    <3>1. p + 1 = s /\ c = "CR" /\ s > 1
      BY <1>1, <2>1, <2>3
    <3>2. st = "header_line_start"
      BY <1>2, <3>1, <1>4
         DEF Shape, InWhite, InName, InColon, InValue, InLine, InFold, HeaderCuts
    <3>3. Row("header_line_start", {"CR"}, "expecting_newline_3", "nothing") \in Table
      BY DEF Table
    <3> QED
      BY <3>1, <3>2, <3>3 DEF Row
  <2>4. CASE s <= k - 2
    <3>1. PICK e \in s..k - 1 - 1 : LineEnd(t, s, e) /\ IsLine(t, s, e - 1)
      BY <1>2, <2>4 DEF IsRequest, HasLine
    <3>2. e \in Nat /\ p < e /\ t[e] = "CR"
      BY <2>1, <3>1 DEF LineEnd
    <3>3. CASE s = 1
      <4>1. PICK q \in RequestCuts(t, e - 1) : TRUE
        BY <3>1, <3>3 DEF IsLine
      <4>2. /\ q.sp1 \in Nat /\ q.sp2 \in Nat /\ q.dot \in Nat /\ q.dot + 1 < e
            /\ Method(t, q.sp1) /\ Uri(t, q.sp1, q.sp2) /\ Major(t, q.sp2, q.dot)
            /\ Among(t, q.dot + 1, e - 1, Digit)
        BY <3>2, <4>1, CutParts
      <4>3. /\ t[1] \in Token
            /\ InMethod(t, p) => c \in Token \cup {"SP"}
            /\ InUri(t, p) => c \in Text
            /\ \A n \in 0..4 : InHttp(t, p, n) => c = <<"H", "T", "T", "P", "/">>[n + 1]
            /\ InHttp(t, p, 5) => c \in Digit
            /\ InMajor(t, p) => c \in Digit \cup {"."}
            /\ InDot(t, p) => c \in Digit
            /\ InMinor(t, p) => c \in Digit \cup {"CR"}
        BY <3>2, <4>2, RequestLineGoesOn
      <4>4. st = "method_start" => p = 0
        BY <1>2 DEF Shape
      <4>5. /\ InHttp(t, p, 0) => c = "H"
            /\ InHttp(t, p, 1) => c = "T"
            /\ InHttp(t, p, 2) => c = "T"
            /\ InHttp(t, p, 3) => c = "P"
            /\ InHttp(t, p, 4) => c = "/"
        BY <4>3
      <4> HIDE DEF c, Goes
      <4>6. HasBranch(st, c, hs)
        <5>1. st = "method_start" => c \in Token
          BY <4>3, <4>4 DEF c
        <5> QED
          BY <1>2, <1>4, <3>3, <4>3, <4>5, <5>1 DEF Shape, Newlines, HasBranch
      <4> QED
        BY <4>6, BranchInTable DEF c
    <3>4. CASE s > 1
      <4>1. st = "header_line_start" => p + 1 = s /\ (Follows(t, s) <=> hs # <<>>)
        BY <1>2, <3>4 DEF Shape, Located, Linked
      <4>2. st = "header_line_start" => c = t[s]
        BY <4>1
      <4> HIDE DEF c, Goes
      <4>3. CASE HeaderCuts(t, s, e - 1) # {}
        <5>1. PICK i \in HeaderCuts(t, s, e - 1) : TRUE
          BY <4>3
        <5>2. /\ t[s] \in Token
              /\ ~InWhite(t, s, p)
              /\ InName(t, s, p) => c \in Token \cup {":"}
              /\ InColon(t, s, p) => c = "SP"
              /\ InValue(t, s, p) => c \in Text \cup {"CR"}
          BY <3>2, HeaderGoesOn DEF c
        <5>3. HasBranch(st, c, hs)
          BY <1>2, <1>4, <3>4, <4>2, <5>2 DEF Shape, Newlines, HasBranch
        <5> QED
          BY <5>3, BranchInTable DEF c
      <4>4. CASE FoldCuts(t, s, e - 1) # {} /\ Follows(t, s)
        <5>1. PICK i \in FoldCuts(t, s, e - 1) : TRUE
          BY <4>4
        <5>2. /\ t[s] \in White
              /\ InWhite(t, s, p) => c \in White \cup Text \cup {"CR"}
              /\ ~InName(t, s, p) /\ ~InColon(t, s, p)
              /\ InValue(t, s, p) => c \in Text \cup {"CR"}
          BY <3>2, FoldGoesOn DEF c
        <5>3. HasBranch(st, c, hs)
          BY <1>2, <1>4, <3>4, <4>1, <4>2, <4>4, <5>2 DEF Shape, Newlines, HasBranch
        <5> QED
          BY <5>3, BranchInTable DEF c
      <4> QED
        BY <3>1, <3>4, <4>3, <4>4 DEF IsLine
    <3> QED
      BY <3>3, <3>4
  <2> QED
    BY <2>2, <2>3, <2>4
<1> QED
  BY <1>3, <1>4

VerdictInv == Inv /\ Placed /\ VerdictMatchesGrammar

\* Only the branches inside a header line store something in the headers.
LEMMA StoredHeaders ==
  ASSUME NEW r \in Table, NEW c, req \in Request
  PROVE  \/ Stored(r.put, c).headers = req.headers
         \/ r.from \in {"header_line_start", "header_lws", "header_name", "header_value"}
<1>1. \/ r.put \in {"nothing", "method", "uri", "zero", "major", "minor"}
      \/ r.from \in {"header_line_start", "header_lws", "header_name", "header_value"}
  BY DEF Table, Row
<1>2. CASE r.put = "method"
  BY <1>2 DEF Stored, Request
<1>3. CASE r.put = "uri"
  BY <1>3 DEF Stored, Request
<1>4. CASE r.put = "zero"
  BY <1>4 DEF Stored, Request
<1>5. CASE r.put = "major"
  BY <1>5 DEF Stored, Request
<1>6. CASE r.put = "minor"
  BY <1>6 DEF Stored, Request
<1>7. CASE r.put = "nothing"
  BY <1>7 DEF Stored
<1> QED
  BY <1>1, <1>2, <1>3, <1>4, <1>5, <1>6, <1>7

LEMMA VerdictInit == Init => VerdictInv
<1> SUFFICES ASSUME Init PROVE VerdictInv
  OBVIOUS
<1>1. pos = 0 /\ state_ = "method_start" /\ req.headers = <<>> /\ result = "indeterminate"
      /\ Len(input) \in Nat
  BY InputsAssumption DEF Init, EmptyRequest
<1>2. Before(input, 1) /\ Shape(input, state_, 1, pos) /\ Unbroken(input, state_, 1, pos)
      /\ Linked(input, state_, 1, req.headers)
  BY <1>1 DEF Before, LineStart, Paired, Shape, Unbroken, Plain, Among, Newlines, Linked
<1>3. Placed
  BY <1>1, <1>2 DEF Placed, Located
<1>4. VerdictMatchesGrammar
  <2> SUFFICES ASSUME pos = Len(input), NEW k \in Accepted PROVE FALSE
    BY <1>1 DEF VerdictMatchesGrammar
  <2> QED
    BY <1>1 DEF Accepted
<1> QED
  BY <1>3, <1>4, InitInv DEF VerdictInv

\* What a place in the current line says about the verdict.
LEMMA NoneConsumed ==
  ASSUME TypeOK, Placed, result = "indeterminate", NEW k \in Accepted
  PROVE  k \in Nat /\ pos < k
<1>1. k \in Nat /\ IsRequest(input, k) /\ pos \in Nat
  BY DEF Accepted, TypeOK
<1>2. PICK s \in 1..pos + 1 : Located(input, state_, s, pos, req.headers)
  BY DEF Placed
<1> QED
  BY <1>1, <1>2, NoneYet

LEMMA PlacedConsume ==
  ASSUME Inv, Placed, Consume PROVE Placed'
<1> DEFINE c == input[pos + 1]
<1>1. PICK r \in Takes(c) : state_' = r.to /\ req' = Stored(r.put, c)
  BY DEF Consume
<1>2. /\ r \in Table /\ r.from = state_ /\ c \in r.on
      /\ r.to = "header_lws" => req.headers # <<>>
  BY <1>1 DEF Takes
<1>3. PICK s \in 1..pos + 1 : Located(input, state_, s, pos, req.headers)
  BY DEF Placed, Consume, More
<1>4. s \in Nat /\ pos \in Nat /\ 0 < s /\ s <= pos + 1 /\ req \in Request
  BY DEF Inv, TypeOK
<1>5. state_ = "expecting_newline_2" => req.headers # <<>>
  BY DEF Inv, BackIsSafe
<1>6. \/ req'.headers = req.headers
      \/ state_ \in {"header_line_start", "header_lws", "header_name", "header_value"}
  BY <1>1, <1>2, <1>4, StoredHeaders
<1>7. PICK hs : hs = req'.headers
  OBVIOUS
<1>8. \E u \in 1..pos + 2 : Located(input, r.to, u, pos + 1, hs)
  <2>1. \/ hs = req.headers
        \/ state_ \in {"header_line_start", "header_lws", "header_name", "header_value"}
    BY <1>6, <1>7
  <2>2. state_ = r.from /\ input[pos + 1] \in r.on
    BY <1>2
  <2> HIDE DEF c
  <2> QED
    BY ONLY <1>2, <1>3, <1>4, <1>5, <2>1, <2>2, LocatedMoves
<1>9. input' = input /\ pos' = pos + 1 /\ pos + 1 + 1 = pos + 2
  BY <1>4 DEF Consume, Advance
<1> QED
  BY <1>1, <1>7, <1>8, <1>9 DEF Placed

LEMMA VerdictNext == VerdictInv /\ [Next]_vars => VerdictInv'
<1> SUFFICES ASSUME VerdictInv, [Next]_vars PROVE VerdictInv'
  OBVIOUS
<1>1. Inv /\ Inv' /\ Placed /\ VerdictMatchesGrammar /\ TypeOK /\ TypeOK' /\ BackIsSafe
  BY NextInv DEF VerdictInv, Inv
<1>2. pos \in Nat /\ Len(input) \in Nat /\ pos <= Len(input)
  BY <1>1 DEF TypeOK
<1>3. input' = input => Accepted' = Accepted
  BY DEF Accepted
<1>4. ASSUME Placed', TypeOK', result' = "indeterminate" PROVE VerdictMatchesGrammar'
  <2>1. pos' = Len(input') => Accepted' = {}
    <3> SUFFICES ASSUME pos' = Len(input'), NEW k \in Accepted' PROVE FALSE
      OBVIOUS
    <3>1. k \in Nat /\ k <= Len(input') /\ IsRequest(input', k)
      BY <1>4 DEF Accepted, TypeOK
    <3>2. PICK s \in 1..pos' + 1 : Located(input', state_', s, pos', req'.headers)
      BY <1>4 DEF Placed
    <3>3. pos' \in Nat /\ s \in Nat /\ 0 < s /\ s <= pos' + 1
      BY <1>4 DEF TypeOK
    <3>4. pos' < k
      BY <3>1, <3>2, <3>3, NoneYet
    <3> QED
      BY <3>1, <3>3, <3>4
  <2> QED
    BY <1>4, <2>1 DEF VerdictMatchesGrammar
<1>5. CASE Consume
  <2>1. Placed' /\ result' = "indeterminate"
    BY <1>1, <1>5, PlacedConsume DEF Consume, More
  <2> QED
    BY <1>1, <1>4, <2>1 DEF VerdictInv
<1>6. CASE Complete
  <2>1. PICK s \in 1..pos + 1 : Located(input, state_, s, pos, req.headers)
    BY <1>1, <1>6 DEF Placed, Complete, More
  <2>2. IsRequest(input, pos + 1)
    BY <1>2, <1>6, <2>1, GoodIsRequest DEF Complete
  <2>3. pos + 1 \in Accepted
    BY <1>1, <1>2, <1>6, <2>2 DEF Accepted, TypeOK, Complete, More
  <2>4. result' = "good" /\ pos' = pos + 1 /\ input' = input
    BY <1>6 DEF Complete, Advance
  <2> QED
    BY <1>1, <1>3, <2>3, <2>4 DEF VerdictInv, Placed, VerdictMatchesGrammar
<1>7. CASE Reject
  <2>1. result' = "bad" /\ input' = input /\ result = "indeterminate"
    BY <1>7 DEF Reject, Advance, More
  <2>2. Accepted = {}
    <3> SUFFICES ASSUME NEW k \in Accepted PROVE FALSE
      OBVIOUS
    <3>1. k \in Nat /\ pos < k /\ IsRequest(input, k)
      BY <1>1, <2>1, NoneConsumed DEF Accepted
    <3>2. PICK s \in 1..pos + 1 : Located(input, state_, s, pos, req.headers)
      BY <1>1, <2>1 DEF Placed
    <3>3. state_ = "header_lws" => req.headers # <<>>
      BY <1>1 DEF BackIsSafe
    <3>4. \/ state_ = "expecting_newline_3" /\ input[pos + 1] = "LF"
          \/ \E r \in Table : /\ r.from = state_ /\ input[pos + 1] \in r.on
                              /\ r.to = "header_lws" => req.headers # <<>>
      BY <1>2, <3>1, <3>2, <3>3, RequestGoesOn
    <3> QED
      BY <1>7, <3>4 DEF Reject, Takes
  <2> QED
    BY <1>1, <1>3, <2>1, <2>2 DEF VerdictInv, Placed, VerdictMatchesGrammar
<1>8. ASSUME NEW n \in ChunkSizes, ReadChunk(n) PROVE VerdictInv'
  <2>1. Placed' /\ result' = "indeterminate"
    BY <1>1, <1>8 DEF ReadChunk, Placed
  <2> QED
    BY <1>1, <1>4, <2>1 DEF VerdictInv
<1>9. CASE UNCHANGED vars
  <2>1. Placed' /\ VerdictMatchesGrammar'
    BY <1>1, <1>3, <1>9 DEF vars, Placed, VerdictMatchesGrammar
  <2> QED
    BY <1>1, <2>1 DEF VerdictInv
<1> QED
  BY <1>5, <1>6, <1>7, <1>8, <1>9 DEF Next

\* The verdict is that of the grammar, for every input and every way of cutting it.
THEOREM VerdictCorrect == Spec => []VerdictMatchesGrammar
<1>1. VerdictInv => VerdictMatchesGrammar
  BY DEF VerdictInv
<1> QED
  BY VerdictInit, VerdictNext, <1>1, PTL DEF Spec

-----------------------------------------------------------------------------
(* What is stored: ranks, spellings and numbers *)

LEMMA Finite ==
  ASSUME NEW n \in Nat, NEW S \in SUBSET (1..n)
  PROVE  IsFiniteSet(S) /\ Cardinality(S) \in Nat
<1>1. IsFiniteSet(1..n)
  BY FS_Interval
<1>2. IsFiniteSet(S)
  BY <1>1, FS_Subset
<1> QED
  BY <1>2, FS_CardinalityType

LEMMA RankType ==
  ASSUME NEW n \in Nat, NEW S \in SUBSET (1..n), NEW i \in S
  PROVE  Rank(S, i) \in 1..Cardinality(S)
<1> DEFINE B == {j \in S : j <= i}
<1>1. B \in SUBSET S /\ B \in SUBSET (1..n) /\ i \in B
  <2>1. i \in 1..n /\ i \in B
    <3>1. i \in 1..n
      OBVIOUS
    <3> QED
      BY <3>1
  <2>2. B \in SUBSET S
    OBVIOUS
  <2> QED
    BY <2>1, <2>2
<1>2. IsFiniteSet(S) /\ IsFiniteSet(B) /\ Cardinality(B) \in Nat /\ Cardinality(S) \in Nat
  BY <1>1, Finite
<1>3. Cardinality(B) <= Cardinality(S)
  BY <1>1, <1>2, FS_Subset
<1>4. Cardinality(B) # 0
  BY <1>1, <1>2, FS_EmptySet
<1> QED
  BY <1>2, <1>3, <1>4 DEF Rank

LEMMA SpellsNothing ==
  ASSUME NEW t PROVE Spells(t, {}, <<>>)
BY FS_EmptySet DEF Spells

LEMMA SpellsOne ==
  ASSUME NEW t, NEW p \in Nat PROVE Spells(t, {p}, <<t[p]>>)
<1>1. {j \in {p} : j <= p} = {p}
  OBVIOUS
<1>2. Cardinality({p}) = 1
  BY FS_Singleton
<1>3. Rank({p}, p) = 1
  BY <1>1, <1>2 DEF Rank
<1> QED
  BY <1>2, <1>3 DEF Spells

LEMMA SpellsMore ==
  ASSUME NEW t, NEW p \in Nat, NEW S \in SUBSET (1..p), NEW v \in Seq(Char), Spells(t, S, v),
         t[p + 1] \in Char
  PROVE  Spells(t, S \cup {p + 1}, Append(v, t[p + 1]))
<1> DEFINE c == t[p + 1]
           w == Append(v, c)
           U == S \cup {p + 1}
<1>1. IsFiniteSet(S) /\ Cardinality(S) \in Nat /\ Len(v) = Cardinality(S)
  BY Finite DEF Spells
<1>9. \A i \in S : i \in 1..p
  OBVIOUS
<1>10. p + 1 \notin S
  BY <1>9
<1>2. Cardinality(U) = Cardinality(S) + 1
  BY <1>1, <1>10, FS_AddElement
<1>3. /\ w \in Seq(Char) /\ Len(w) = Len(v) + 1 /\ w[Len(v) + 1] = c
      /\ \A n \in 1..Len(v) : w[n] = v[n]
  OBVIOUS
<1> HIDE DEF w
<1>4. ASSUME NEW i \in S PROVE w[Rank(U, i)] = t[i]
  <2>1. {j \in U : j <= i} = {j \in S : j <= i}
    BY <1>9
  <2>2. Rank(U, i) = Rank(S, i)
    BY <2>1 DEF Rank
  <2>3. Rank(S, i) \in 1..Len(v)
    BY <1>1, RankType
  <2>4. v[Rank(S, i)] = t[i]
    BY DEF Spells
  <2> QED
    BY <1>3, <2>2, <2>3, <2>4
<1>5. w[Rank(U, p + 1)] = t[p + 1]
  <2>1. {j \in U : j <= p + 1} = U
    <3>1. \A j \in U : j <= p + 1
      BY <1>9
    <3> HIDE DEF U
    <3> QED
      BY <3>1
  <2>2. Rank(U, p + 1) = Len(v) + 1
    BY <1>1, <1>2, <2>1 DEF Rank
  <2> QED
    BY <1>3, <2>2
<1>6. Spells(t, U, w)
  BY <1>1, <1>2, <1>3, <1>4, <1>5 DEF Spells
<1> QED
  BY <1>6 DEF w

LEMMA FirstPlace ==
  ASSUME NEW S \in SUBSET Nat, S # {}
  PROVE  \E k \in S : \A j \in S : k <= j
<1> DEFINE T == {S \cap (0..k) : k \in S}
<1>1. T \subseteq FiniteSubsetsOf(Nat) /\ T # {}
  <2>1. ASSUME NEW k \in S PROVE S \cap (0..k) \in FiniteSubsetsOf(Nat)
    <3>1. IsFiniteSet(0..k)
      BY FS_Interval
    <3>2. IsFiniteSet(S \cap (0..k))
      BY <3>1, FS_Subset
    <3> QED
      BY <3>2 DEF FiniteSubsetsOf
  <2> QED
    BY <2>1
<1>2. PICK x \in T : \A y \in T : ~(<<y, x>> \in StrictSubsetOrdering(Nat))
  BY <1>1, FS_StrictSubsetOrderingWellFounded, WFMin
<1>3. PICK k \in S : x = S \cap (0..k)
  BY <1>2
<1>4. ASSUME NEW j \in S, j < k PROVE FALSE
  <2>1. S \cap (0..j) \subseteq x /\ k \in x /\ k \notin S \cap (0..j)
    BY <1>3, <1>4
  <2>2. S \cap (0..j) \in T /\ S \cap (0..j) \in SUBSET Nat /\ x \in SUBSET Nat
    BY <1>3
  <2> QED
    BY <1>2, <2>1, <2>2 DEF StrictSubsetOrdering
<1> QED
  BY <1>4

\* g holds the values of the digits at the places of S, up to each place.
Values(t, S, n, g) ==
  g = [i \in 0..n |-> IF i = 0 THEN 0
                      ELSE IF i \in S THEN g[i - 1] * 10 + Value(t[i]) ELSE g[i - 1]]

LEMMA ValuesExist ==
  ASSUME NEW t, NEW S, NEW n \in Nat PROVE \E g : Values(t, S, n, g)
<1> DEFINE None == {m \in Nat : ~ \E g : Values(t, S, m, g)}
<1> SUFFICES ASSUME None # {} PROVE FALSE
  OBVIOUS
<1>1. PICK m \in None : \A j \in None : m <= j
  BY FirstPlace
<1>2. m # 0
  <2>1. Values(t, S, 0, [i \in 0..0 |-> 0])
    BY DEF Values
  <2> QED
    BY <2>1
<1>3. PICK g : Values(t, S, m - 1, g)
  BY <1>1, <1>2
<1> DEFINE h == [i \in 0..m |->
                   IF i < m THEN g[i]
                   ELSE IF m \in S THEN g[m - 1] * 10 + Value(t[m]) ELSE g[m - 1]]
<1>4. ASSUME NEW i \in 0..m
      PROVE  h[i] = IF i = 0 THEN 0
                    ELSE IF i \in S THEN h[i - 1] * 10 + Value(t[i]) ELSE h[i - 1]
  <2>1. CASE i = m
    BY <1>2, <2>1
  <2>2. CASE i < m
    <3>1. i \in 0..m - 1
      BY <2>2
    <3>2. g[i] = IF i = 0 THEN 0
                 ELSE IF i \in S THEN g[i - 1] * 10 + Value(t[i]) ELSE g[i - 1]
      BY <1>3, <3>1 DEF Values
    <3>3. h[i] = g[i] /\ (i # 0 => h[i - 1] = g[i - 1])
      BY <2>2
    <3> QED
      BY <3>2, <3>3
  <2> QED
    BY <2>1, <2>2
<1>5. Values(t, S, m, h)
  BY <1>4 DEF Values
<1> QED
  BY <1>5

LEMMA ValuesAgree ==
  ASSUME NEW t, NEW S, NEW n \in Nat, NEW m \in Nat, n <= m,
         NEW g, Values(t, S, n, g), NEW h, Values(t, S, m, h)
  PROVE  g[n] = h[n]
<1> DEFINE Bad == {i \in 0..n : g[i] # h[i]}
<1> SUFFICES ASSUME Bad # {} PROVE FALSE
  OBVIOUS
<1>1. PICK i \in Bad : \A j \in Bad : i <= j
  <2>1. Bad \in SUBSET Nat
    OBVIOUS
  <2> QED
    BY <2>1, FirstPlace
<1>2. /\ g[i] = IF i = 0 THEN 0
                ELSE IF i \in S THEN g[i - 1] * 10 + Value(t[i]) ELSE g[i - 1]
      /\ h[i] = IF i = 0 THEN 0
                ELSE IF i \in S THEN h[i - 1] * 10 + Value(t[i]) ELSE h[i - 1]
  BY DEF Values
<1>3. i # 0 => g[i - 1] = h[i - 1]
  BY <1>1
<1> QED
  BY <1>2, <1>3

LEMMA NumberIs ==
  ASSUME NEW t, NEW S, NEW n \in Nat, NEW g, Values(t, S, n, g)
  PROVE  Number(t, S, n) = g[n]
<1> DEFINE f == CHOOSE h : Values(t, S, n, h)
<1>1. Values(t, S, n, f)
  BY ValuesExist
<1>2. f[n] = g[n]
  BY <1>1, ValuesAgree
<1>3. Number(t, S, n) = f[n]
  BY DEF Number, Values
<1> QED
  BY <1>2, <1>3

LEMMA NumberStart == ASSUME NEW t, NEW S PROVE Number(t, S, 0) = 0
<1>1. PICK g : Values(t, S, 0, g)
  BY ValuesExist
<1>2. g[0] = 0
  BY <1>1 DEF Values
<1> QED
  BY <1>1, <1>2, NumberIs

LEMMA NumberNext ==
  ASSUME NEW t, NEW S, NEW n \in Nat
  PROVE  Number(t, S, n + 1) = IF n + 1 \in S THEN Number(t, S, n) * 10 + Value(t[n + 1])
                                              ELSE Number(t, S, n)
<1>1. PICK g : Values(t, S, n, g)
  BY ValuesExist
<1>2. PICK h : Values(t, S, n + 1, h)
  BY ValuesExist
<1>3. g[n] = h[n]
  BY <1>1, <1>2, ValuesAgree
<1>4. Number(t, S, n) = g[n] /\ Number(t, S, n + 1) = h[n + 1]
  BY <1>1, <1>2, NumberIs
<1>5. h[n + 1] = IF n + 1 \in S THEN h[n] * 10 + Value(t[n + 1]) ELSE h[n]
  BY <1>2 DEF Values
<1> QED
  BY <1>3, <1>4, <1>5

-----------------------------------------------------------------------------
(* Which part of the request the next character belongs to *)

\* The parts of the request line have no newline in them or in front of them.
LEMMA FirstLineOnly ==
  ASSUME NEW t, NEW i \in Nat, OfMethod(t, i) \/ OfUri(t, i) \/ OfMajor(t, i) \/ OfMinor(t, i),
         NEW j \in 1..i
  PROVE  t[j] # "CR" /\ t[j] # "LF"
<1>1. ASSUME NEW k, k \in Token \cup Text \cup Digit \cup {"SP", ".", "H", "T", "P", "/"}
      PROVE  k # "CR" /\ k # "LF"
  BY <1>1 DEF Token, Text, Digit, Ctl, Char
<1>2. CASE OfMethod(t, i)
  BY <1>1, <1>2 DEF OfMethod, Among
<1>3. ASSUME NEW x \in Nat, Method(t, x), j <= x PROVE t[j] \in Token \cup {"SP"}
  BY <1>3 DEF Method, Among
<1>4. ASSUME NEW x \in Nat, NEW y \in Nat, Method(t, x), Uri(t, x, y), j <= y
      PROVE  t[j] \in Token \cup Text \cup {"SP"}
  <2>1. j <= x \/ j \in x + 1..y - 1 \/ j = y
    BY <1>4
  <2> QED
    BY <1>3, <1>4, <2>1 DEF Uri, Among
<1>5. ASSUME NEW y \in Nat, Http(t, y, 5), y < j, j <= y + 5
      PROVE  t[j] \in {"H", "T", "P", "/"}
  <2>1. j - y \in 1..5 /\ y + (j - y) = j
    BY <1>5
  <2>2. t[y + (j - y)] = <<"H", "T", "T", "P", "/">>[j - y]
    BY <1>5, <2>1 DEF Http
  <2>3. <<"H", "T", "T", "P", "/">>[j - y] \in {"H", "T", "P", "/"}
    BY <2>1
  <2> QED
    BY <2>1, <2>2, <2>3
<1>6. CASE OfUri(t, i)
  <2>1. PICK x \in 2..i - 1 : Method(t, x) /\ Among(t, x + 1, i, Text \ {"SP"})
    BY <1>6 DEF OfUri
  <2>2. j <= x \/ t[j] \in Text
    BY <2>1 DEF Among
  <2> QED
    BY <1>1, <1>3, <2>1, <2>2
<1>7. CASE OfMajor(t, i)
  <2>1. PICK x \in 2..i, y \in 2..i : /\ Method(t, x) /\ Uri(t, x, y) /\ Http(t, y, 5)
                                      /\ Among(t, y + 6, i, Digit)
    BY <1>7 DEF OfMajor
  <2>2. j <= y \/ (y < j /\ j <= y + 5) \/ t[j] \in Digit
    BY <2>1 DEF Among
  <2> QED
    BY <1>1, <1>4, <1>5, <2>1, <2>2
<1>8. CASE OfMinor(t, i)
  <2>1. PICK x \in 2..i, y \in 2..i, d \in 2..i :
          /\ Method(t, x) /\ Uri(t, x, y) /\ Major(t, y, d) /\ Among(t, d + 1, i, Digit)
    BY <1>8 DEF OfMinor
  <2>2. /\ Http(t, y, 5) /\ t[d] = "."
        /\ \/ j <= y \/ (y < j /\ j <= y + 5) \/ j \in y + 6..d - 1 \/ j = d \/ j \in d + 1..i
    BY <2>1 DEF Major
  <2>3. j \in y + 6..d - 1 \/ j \in d + 1..i => t[j] \in Digit
    BY <2>1 DEF Major, Among
  <2> QED
    BY <1>1, <1>4, <1>5, <2>1, <2>2, <2>3
<1> QED
  BY <1>2, <1>6, <1>7, <1>8

LEMMA PartsInMethod ==
  ASSUME NEW t, NEW p \in Nat, Among(t, 1, p, Token)
  PROVE  /\ OfMethod(t, p + 1) <=> t[p + 1] \in Token
         /\ ~OfUri(t, p + 1) /\ ~OfMajor(t, p + 1) /\ ~OfMinor(t, p + 1)
<1>1. ASSUME NEW x \in Nat, Method(t, x) PROVE p < x
  BY <1>1 DEF Method, Among, Token, TSpecial
<1>2. OfMethod(t, p + 1) <=> t[p + 1] \in Token
  BY DEF OfMethod, Among
<1>3. ~OfUri(t, p + 1)
  BY <1>1 DEF OfUri
<1>4. ~OfMajor(t, p + 1)
  BY <1>1 DEF OfMajor, Uri
<1>5. ~OfMinor(t, p + 1)
  BY <1>1 DEF OfMinor, Uri
<1> QED
  BY <1>2, <1>3, <1>4, <1>5

\* Behind the SP at x nothing belongs to the method.
LEMMA MethodIsOver ==
  ASSUME NEW t, NEW i \in Nat, NEW x \in Nat, Method(t, x), x <= i
  PROVE  ~OfMethod(t, i)
BY DEF OfMethod, Method, Among, Token, TSpecial

\* Behind the SP at y nothing belongs to the uri.
LEMMA UriIsOver ==
  ASSUME NEW t, NEW i \in Nat, NEW x \in Nat, NEW y \in Nat, Method(t, x), Uri(t, x, y), y <= i
  PROVE  ~OfUri(t, i)
<1> SUFFICES ASSUME NEW z \in 2..i - 1, Method(t, z), Among(t, z + 1, i, Text \ {"SP"}) PROVE FALSE
  BY DEF OfUri
<1>1. z = x
  BY OneMethod
<1>2. x < y /\ t[y] = "SP"
  BY DEF Uri
<1> QED
  BY <1>1, <1>2 DEF Among

LEMMA PartsInUri ==
  ASSUME NEW t, NEW p \in Nat, InUri(t, p)
  PROVE  /\ OfUri(t, p + 1) <=> t[p + 1] \in Text \ {"SP"}
         /\ ~OfMethod(t, p + 1) /\ ~OfMajor(t, p + 1) /\ ~OfMinor(t, p + 1)
<1>1. PICK x \in 2..p : Method(t, x) /\ Among(t, x + 1, p, Text \ {"SP"})
  BY DEF InUri
<1>2. OfUri(t, p + 1) => t[p + 1] \in Text \ {"SP"}
  BY DEF OfUri, Among
<1>3. t[p + 1] \in Text \ {"SP"} => OfUri(t, p + 1)
  <2>1. x \in 2..p + 1 - 1 /\ x + 1 \in Nat
    OBVIOUS
  <2> QED
    BY <1>1, <2>1, AmongMore DEF OfUri
<1>4. ~OfMethod(t, p + 1)
  BY <1>1, MethodIsOver
<1>5. ASSUME NEW z \in 2..p + 1, NEW y \in 2..p + 1, Method(t, z), Uri(t, z, y) PROVE p < y
  <2>1. z = x
    BY <1>1, <1>5, OneMethod
  <2>2. x < y /\ t[y] = "SP"
    BY <1>5, <2>1 DEF Uri
  <2> QED
    BY <1>1, <2>2 DEF Among
<1>6. ~OfMajor(t, p + 1)
  BY <1>5 DEF OfMajor
<1>7. ~OfMinor(t, p + 1)
  BY <1>5 DEF OfMinor, Major
<1> QED
  BY <1>2, <1>3, <1>4, <1>6, <1>7

LEMMA PartsInHttp ==
  ASSUME NEW t, NEW p \in Nat, NEW n \in 0..5, InHttp(t, p, n)
  PROVE  /\ OfMajor(t, p + 1) <=> n = 5 /\ t[p + 1] \in Digit
         /\ ~OfMethod(t, p + 1) /\ ~OfUri(t, p + 1) /\ ~OfMinor(t, p + 1)
<1>1. PICK x \in 2..p, y \in 2..p : Method(t, x) /\ Uri(t, x, y) /\ p = y + n /\ Http(t, y, n)
  BY DEF InHttp
<1>2. ~OfMethod(t, p + 1)
  BY <1>1, MethodIsOver
<1>3. ~OfUri(t, p + 1)
  BY <1>1, UriIsOver
<1>4. ASSUME NEW u \in 2..p + 1, NEW v \in 2..p + 1, Method(t, u), Uri(t, u, v) PROVE v = y
  <2>1. u = x
    BY <1>1, <1>4, OneMethod
  <2> QED
    BY <1>1, <1>4, <2>1, OneUri
<1>5. OfMajor(t, p + 1) => n = 5 /\ t[p + 1] \in Digit
  <2> SUFFICES ASSUME OfMajor(t, p + 1) PROVE n = 5 /\ t[p + 1] \in Digit
    OBVIOUS
  <2>1. PICK u \in 2..p + 1, v \in 2..p + 1 : /\ Method(t, u) /\ Uri(t, u, v) /\ v + 6 <= p + 1
                                              /\ Among(t, v + 6, p + 1, Digit)
    BY DEF OfMajor
  <2>2. v = y
    BY <1>4, <2>1
  <2> QED
    BY <1>1, <2>1, <2>2 DEF Among
<1>6. n = 5 /\ t[p + 1] \in Digit => OfMajor(t, p + 1)
  <2> SUFFICES ASSUME n = 5, t[p + 1] \in Digit PROVE OfMajor(t, p + 1)
    OBVIOUS
  <2>1. x \in 2..p + 1 /\ y \in 2..p + 1 /\ y + 6 = p + 1 /\ y + 6 <= p + 1
    BY <1>1
  <2>2. Among(t, y + 6, p + 1, Digit)
    BY <2>1, AmongOne
  <2> QED
    BY <1>1, <2>1, <2>2 DEF OfMajor
<1>7. ~OfMinor(t, p + 1)
  <2> SUFFICES ASSUME NEW u \in 2..p + 1, NEW v \in 2..p + 1, NEW d \in 2..p + 1,
                      Method(t, u), Uri(t, u, v), Major(t, v, d), d < p + 1
               PROVE  FALSE
    BY DEF OfMinor
  <2>1. v = y
    BY <1>4
  <2> QED
    BY <1>1, <2>1 DEF Major
<1> QED
  BY <1>2, <1>3, <1>5, <1>6, <1>7

LEMMA PartsInMajor ==
  ASSUME NEW t, NEW p \in Nat, InMajor(t, p)
  PROVE  /\ OfMajor(t, p + 1) <=> t[p + 1] \in Digit
         /\ ~OfMethod(t, p + 1) /\ ~OfUri(t, p + 1) /\ ~OfMinor(t, p + 1)
<1>1. PICK x \in 2..p, y \in 2..p : /\ Method(t, x) /\ Uri(t, x, y) /\ Http(t, y, 5)
                                    /\ y + 6 <= p /\ Among(t, y + 6, p, Digit)
  BY DEF InMajor
<1>2. ~OfMethod(t, p + 1)
  BY <1>1, MethodIsOver
<1>3. ~OfUri(t, p + 1)
  BY <1>1, UriIsOver
<1>4. OfMajor(t, p + 1) => t[p + 1] \in Digit
  BY DEF OfMajor, Among
<1>5. t[p + 1] \in Digit => OfMajor(t, p + 1)
  <2> SUFFICES ASSUME t[p + 1] \in Digit PROVE OfMajor(t, p + 1)
    OBVIOUS
  <2>1. x \in 2..p + 1 /\ y \in 2..p + 1 /\ y + 6 \in Nat /\ y + 6 <= p + 1
    BY <1>1
  <2>2. Among(t, y + 6, p + 1, Digit)
    BY <1>1, <2>1, AmongMore
  <2> QED
    BY <1>1, <2>1, <2>2 DEF OfMajor
<1>6. ~OfMinor(t, p + 1)
  <2> SUFFICES ASSUME NEW u \in 2..p + 1, NEW v \in 2..p + 1, NEW d \in 2..p + 1,
                      Method(t, u), Uri(t, u, v), Major(t, v, d), d < p + 1
               PROVE  FALSE
    BY DEF OfMinor
  <2>1. u = x
    BY <1>1, OneMethod
  <2>2. v = y
    BY <1>1, <2>1, OneUri
  <2>3. d \in y + 6..p /\ t[d] = "." /\ "." \notin Digit
    BY <2>2 DEF Major, Digit
  <2> QED
    BY <1>1, <2>3 DEF Among
<1> QED
  BY <1>2, <1>3, <1>4, <1>5, <1>6

\* Behind the dot at d nothing belongs to the first number.
LEMMA MajorIsOver ==
  ASSUME NEW t, NEW i \in Nat, NEW x \in Nat, NEW y \in Nat, NEW d \in Nat,
         Method(t, x), Uri(t, x, y), Major(t, y, d), d <= i
  PROVE  ~OfMajor(t, i)
<1> SUFFICES ASSUME NEW u \in 2..i, NEW v \in 2..i, Method(t, u), Uri(t, u, v),
                    Among(t, v + 6, i, Digit)
             PROVE  FALSE
  BY DEF OfMajor
<1>1. u = x
  BY OneMethod
<1>2. v = y
  BY <1>1, OneUri
<1>3. d \in y + 6..i /\ t[d] = "." /\ "." \notin Digit
  BY DEF Major, Digit
<1> QED
  BY <1>2, <1>3 DEF Among

LEMMA PartsInDot ==
  ASSUME NEW t, NEW p \in Nat, InDot(t, p)
  PROVE  /\ OfMinor(t, p + 1) <=> t[p + 1] \in Digit
         /\ ~OfMethod(t, p + 1) /\ ~OfUri(t, p + 1) /\ ~OfMajor(t, p + 1)
<1>1. PICK x \in 2..p, y \in 2..p : Method(t, x) /\ Uri(t, x, y) /\ Major(t, y, p)
  BY DEF InDot
<1>2. ~OfMethod(t, p + 1)
  BY <1>1, MethodIsOver
<1>3. ~OfUri(t, p + 1)
  BY <1>1, UriIsOver
<1>4. ~OfMajor(t, p + 1)
  BY <1>1, MajorIsOver
<1>5. OfMinor(t, p + 1) => t[p + 1] \in Digit
  BY DEF OfMinor, Among
<1>6. t[p + 1] \in Digit => InMinor(t, p + 1)
  BY DotMoves
<1>7. InMinor(t, p + 1) => OfMinor(t, p + 1)
  BY DEF InMinor, OfMinor
<1> QED
  BY <1>2, <1>3, <1>4, <1>5, <1>6, <1>7

LEMMA PartsInMinor ==
  ASSUME NEW t, NEW p \in Nat, InMinor(t, p)
  PROVE  /\ OfMinor(t, p + 1) <=> t[p + 1] \in Digit
         /\ ~OfMethod(t, p + 1) /\ ~OfUri(t, p + 1) /\ ~OfMajor(t, p + 1)
<1>1. PICK x \in 2..p, y \in 2..p, d \in 2..p :
         Method(t, x) /\ Uri(t, x, y) /\ Major(t, y, d) /\ d < p /\ Among(t, d + 1, p, Digit)
  BY DEF InMinor
<1>2. ~OfMethod(t, p + 1)
  BY <1>1, MethodIsOver
<1>3. ~OfUri(t, p + 1)
  BY <1>1, UriIsOver
<1>4. ~OfMajor(t, p + 1)
  BY <1>1, MajorIsOver
<1>5. OfMinor(t, p + 1) => t[p + 1] \in Digit
  BY DEF OfMinor, Among
<1>6. t[p + 1] \in Digit => InMinor(t, p + 1)
  BY MinorMoves
<1>7. InMinor(t, p + 1) => OfMinor(t, p + 1)
  BY DEF InMinor, OfMinor
<1> QED
  BY <1>2, <1>3, <1>4, <1>5, <1>6, <1>7

\* The branch that stores a character in a part of the request line is taken exactly where the
\* grammar has a character of that part.
LEMMA FirstLineParts ==
  ASSUME NEW t, NEW st, NEW s \in Nat, NEW p \in Nat, NEW hs, 0 < s, s <= p + 1,
         Located(t, st, s, p, hs), NEW r \in Table, r.from = st, t[p + 1] \in r.on
  PROVE  /\ OfMethod(t, p + 1) <=> r.put = "method"
         /\ OfUri(t, p + 1) <=> r.put = "uri"
         /\ OfMajor(t, p + 1) <=> r.put = "major"
         /\ OfMinor(t, p + 1) <=> r.put = "minor"
<1> DEFINE c == t[p + 1]
<1>1. "CR" \notin Digit /\ "." \notin Digit /\ "SP" \notin Token
  BY DEF Digit, Token, TSpecial
<1>2. Shape(t, st, s, p)
  BY DEF Located
<1>3. CASE s > 1
  <2>1. t[s - 1] = "LF" /\ s - 1 \in 1..p + 1
    BY <1>3 DEF Located, Before, LineStart
  <2>2. ~OfMethod(t, p + 1) /\ ~OfUri(t, p + 1) /\ ~OfMajor(t, p + 1) /\ ~OfMinor(t, p + 1)
    BY <2>1, FirstLineOnly
  <2>3. r.put \notin {"method", "uri", "major", "minor"}
    BY <1>2, <1>3 DEF Shape, Table, Row
  <2> QED
    BY <2>2, <2>3
<1>4. CASE st = "expecting_newline_1"
  <2>1. c = "LF" /\ r.put = "nothing" /\ p + 1 \in 1..p + 1
    BY <1>4 DEF Table, Row
  <2> QED
    BY <2>1, FirstLineOnly
<1>5. CASE st \in {"method_start", "method"}
  <2>1. Among(t, 1, p, Token)
    BY <1>2, <1>5, AmongNone DEF Shape, InMethod
  <2>2. (c = "SP" /\ r.put = "nothing") \/ (c \in Token /\ r.put = "method")
    BY <1>5 DEF Table, Row
  <2> QED
    BY <1>1, <2>1, <2>2, PartsInMethod
<1>6. CASE st = "uri"
  <2>1. InUri(t, p)
    BY <1>2, <1>6 DEF Shape
  <2>2. (c = "SP" /\ r.put = "nothing") \/ (c \in Text \ {"SP"} /\ r.put = "uri")
    BY <1>6 DEF Table, Row
  <2> QED
    BY <2>1, <2>2, PartsInUri
<1>7. CASE st \in {"http_version_h", "http_version_t_1", "http_version_t_2", "http_version_p",
                   "http_version_slash"}
  <2>1. PICK n \in 0..4 : InHttp(t, p, n)
    BY <1>2, <1>7 DEF Shape
  <2>2. r.put \in {"nothing", "zero"}
    BY <1>7 DEF Table, Row
  <2> QED
    BY <2>1, <2>2, PartsInHttp
<1>8. CASE st = "http_version_major_start"
  <2>1. InHttp(t, p, 5)
    BY <1>2, <1>8 DEF Shape
  <2>2. c \in Digit /\ r.put = "major"
    BY <1>8 DEF Table, Row
  <2> QED
    BY <2>1, <2>2, PartsInHttp
<1>9. CASE st = "http_version_major"
  <2>1. InMajor(t, p)
    BY <1>2, <1>9 DEF Shape
  <2>2. (c = "." /\ r.put = "nothing") \/ (c \in Digit /\ r.put = "major")
    BY <1>9 DEF Table, Row
  <2> QED
    BY <1>1, <2>1, <2>2, PartsInMajor
<1>10. CASE st = "http_version_minor_start"
  <2>1. InDot(t, p)
    BY <1>2, <1>10 DEF Shape
  <2>2. c \in Digit /\ r.put = "minor"
    BY <1>10 DEF Table, Row
  <2> QED
    BY <2>1, <2>2, PartsInDot
<1>11. CASE st = "http_version_minor"
  <2>1. InMinor(t, p)
    BY <1>2, <1>11 DEF Shape
  <2>2. (c = "CR" /\ r.put = "nothing") \/ (c \in Digit /\ r.put = "minor")
    BY <1>11 DEF Table, Row
  <2> QED
    BY <1>1, <2>1, <2>2, PartsInMinor
<1> QED
  BY <1>2, <1>3, <1>4, <1>5, <1>6, <1>7, <1>8, <1>9, <1>10, <1>11 DEF Shape

\* In the line that begins at s there is no head behind s.
LEMMA HeadsUpToLine ==
  ASSUME NEW t, NEW s \in Nat, NEW p \in Nat, 0 < s, Plain(t, s, p), NEW b \in Heads(t), b <= p + 1
  PROVE  b <= s
<1> SUFFICES ASSUME s < b PROVE FALSE
  BY DEF Heads
<1>1. t[b - 1] = "LF" /\ b - 1 \in s..p
  BY DEF Heads, LineStart
<1> QED
  BY <1>1 DEF Plain, Among

\* The text of the folded line that begins at s has begun at or before i.
TextBegun(t, s, i) ==
  \E c \in s + 1..i : Among(t, s, c - 1, White) /\ t[c] \notin White /\ Among(t, c, i, Text)

\* A header in front of the line that begins at s gets no name there, and a value only if the
\* line folds it.
LEMMA EarlierHeader ==
  ASSUME NEW t, NEW s \in Nat, NEW p \in Nat, 1 < s, s <= p + 1, Plain(t, s, p), t[s - 1] = "LF",
         NEW a \in Heads(t), a < s
  PROVE  /\ ~OfName(t, a, p + 1)
         /\ OfValue(t, a, p + 1) <=> Heads(t) \cap (a + 1..s) = {} /\ TextBegun(t, s, p + 1)
<1>1. a \in Nat /\ s - 1 \in a..p + 1 /\ "LF" \notin Token /\ "LF" \notin White /\ "LF" \notin Text
  BY DEF Heads, Token, Text, White, Ctl
<1>2. ~OfName(t, a, p + 1)
  BY <1>1 DEF OfName, Among
<1>3. \A c \in HeaderCuts(t, a, p + 1) : FALSE
  <2> SUFFICES ASSUME NEW c \in HeaderCuts(t, a, p + 1) PROVE FALSE
    OBVIOUS
  <2>1. /\ c \in a + 1..p /\ t[c] = ":" /\ t[c + 1] = "SP" /\ Among(t, a, c - 1, Token)
        /\ Among(t, c + 2, p + 1, Text)
    BY DEF HeaderCuts
  <2>2. s - 1 \in a..c - 1 \/ s - 1 = c \/ s - 1 = c + 1 \/ s - 1 \in c + 2..p + 1
    BY <1>1, <2>1
  <2> QED
    BY <1>1, <2>1, <2>2 DEF Among
<1>4. ASSUME NEW b \in a + 1..p + 1, LineStart(t, b), TextBegun(t, b, p + 1) PROVE b = s
  <2>1. PICK c \in b + 1..p + 1 : Among(t, b, c - 1, White) /\ Among(t, c, p + 1, Text)
    BY <1>4 DEF TextBegun
  <2>2. ~ (b <= s - 1)
    BY <1>1, <2>1 DEF Among
  <2>3. ~ (s < b)
    BY <1>1, <1>4 DEF LineStart, Plain, Among
  <2> QED
    BY <1>1, <2>2, <2>3
<1>5. OfValue(t, a, p + 1) <=>
        \E b \in a + 1..p + 1 : /\ LineStart(t, b) /\ Heads(t) \cap (a + 1..b) = {}
                                /\ TextBegun(t, b, p + 1)
  BY <1>3 DEF OfValue, TextBegun
<1>6. s \in a + 1..p + 1 /\ LineStart(t, s)
  BY <1>1 DEF LineStart
<1> QED
  BY <1>2, <1>4, <1>5, <1>6

\* The header that begins at s gets its value, in its own line, behind the colon and the SP.
LEMMA OwnLine ==
  ASSUME NEW t, NEW s \in Nat, NEW p \in Nat, 0 < s, Plain(t, s, p)
  PROVE  OfValue(t, s, p + 1) <=> \E c \in HeaderCuts(t, s, p + 1) : c + 2 <= p + 1
<1>1. \A b \in s + 1..p + 1 : ~LineStart(t, b)
  BY DEF LineStart, Plain, Among
<1> QED
  BY <1>1 DEF OfValue

\* a is where the last header begins.
Newest(t, a, p) == a \in Heads(t) /\ a <= p /\ \A b \in Heads(t) : b <= p => b <= a

\* In a line that begins with a character of a name, the header is the newest.
LEMMA HeaderParts ==
  ASSUME NEW t, NEW s \in Nat, NEW p \in Nat, 1 < s, s <= p + 1, Plain(t, s, p), t[s - 1] = "LF",
         s \in Heads(t)
  PROVE  /\ p + 1 \in Heads(t) <=> p + 1 = s
         /\ \A a \in Heads(t) : a <= p + 1 =>
              /\ Newest(t, a, p + 1) <=> a = s
              /\ OfName(t, a, p + 1) <=> a = s /\ Among(t, s, p + 1, Token)
              /\ OfValue(t, a, p + 1) <=> a = s /\ \E c \in HeaderCuts(t, s, p + 1) : c + 2 <= p + 1
<1>1. p + 1 \in Heads(t) <=> p + 1 = s
  BY HeadsUpToLine
<1> SUFFICES ASSUME NEW a \in Heads(t), a <= p + 1
             PROVE  /\ Newest(t, a, p + 1) <=> a = s
                    /\ OfName(t, a, p + 1) <=> a = s /\ Among(t, s, p + 1, Token)
                    /\ OfValue(t, a, p + 1) <=> a = s /\ \E c \in HeaderCuts(t, s, p + 1) : c + 2 <= p + 1
  BY <1>1
<1>2. a \in Nat /\ a <= s
  BY HeadsUpToLine DEF Heads
<1>3. Newest(t, a, p + 1) <=> a = s
  BY <1>2, HeadsUpToLine DEF Newest
<1>4. CASE a = s
  BY <1>3, <1>4, OwnLine DEF OfName
<1>5. CASE a < s
  <2>1. s \in Heads(t) \cap (a + 1..s)
    BY <1>2, <1>5
  <2> QED
    BY <1>3, <1>5, <2>1, EarlierHeader
<1> QED
  BY <1>2, <1>4, <1>5

\* In a line that does not, the newest header is in front of the line and may get a value.
LEMMA FoldParts ==
  ASSUME NEW t, NEW s \in Nat, NEW p \in Nat, 1 < s, s <= p + 1, Plain(t, s, p), t[s - 1] = "LF",
         s \notin Heads(t)
  PROVE  /\ p + 1 \notin Heads(t)
         /\ \A a \in Heads(t) : a <= p + 1 =>
              /\ ~OfName(t, a, p + 1)
              /\ OfValue(t, a, p + 1) <=> Newest(t, a, p + 1) /\ TextBegun(t, s, p + 1)
<1>1. \A b \in Heads(t) : b <= p + 1 => b \in Nat /\ b < s
  BY HeadsUpToLine DEF Heads
<1>2. p + 1 \notin Heads(t)
  BY <1>1
<1> SUFFICES ASSUME NEW a \in Heads(t), a <= p + 1
             PROVE  /\ ~OfName(t, a, p + 1)
                    /\ OfValue(t, a, p + 1) <=> Newest(t, a, p + 1) /\ TextBegun(t, s, p + 1)
  BY <1>2
<1>3. a \in Nat /\ a < s
  BY <1>1
<1>4. Newest(t, a, p + 1) <=> Heads(t) \cap (a + 1..s) = {}
  <2>1. ASSUME Newest(t, a, p + 1), NEW b \in Heads(t) \cap (a + 1..s) PROVE FALSE
    BY <1>3, <2>1 DEF Newest
  <2>2. ASSUME Heads(t) \cap (a + 1..s) = {}, NEW b \in Heads(t), b <= p + 1 PROVE b <= a
    BY <1>1, <1>3, <2>2
  <2> QED
    BY <2>1, <2>2 DEF Newest
<1> QED
  BY <1>3, <1>4, EarlierHeader

\* Where a newline is read, nothing belongs to a header.
LEMMA NewlineParts ==
  ASSUME NEW t, NEW i \in Nat, t[i] \in {"CR", "LF"}
  PROVE  /\ i \notin Heads(t)
         /\ \A a \in Nat : ~OfName(t, a, i) /\ ~OfValue(t, a, i)
<1>1. t[i] \notin Token /\ t[i] \notin Text
  BY DEF Token, Text, Ctl
<1>2. i \notin Heads(t)
  BY <1>1 DEF Heads
<1> SUFFICES ASSUME NEW a \in Nat PROVE ~OfName(t, a, i) /\ ~OfValue(t, a, i)
  BY <1>2
<1>3. ~OfName(t, a, i)
  BY <1>1 DEF OfName, Among
<1>4. ~ \E c \in HeaderCuts(t, a, i) : c + 2 <= i
  BY <1>1 DEF HeaderCuts, Among
<1>5. \A b \in a + 1..i : \A c \in b + 1..i : ~Among(t, c, i, Text)
  BY <1>1 DEF Among
<1> QED
  BY <1>3, <1>4, <1>5 DEF OfValue

\* The branch that stores a character in a header is taken exactly where the grammar has a
\* character of that part, and the header is the newest one.
LEMMA HeaderLineParts ==
  ASSUME NEW t, NEW st, NEW s \in Nat, NEW p \in Nat, NEW hs, 0 < s, s <= p + 1, p < Len(t), Len(t) \in Nat,
         Located(t, st, s, p, hs), NEW r \in Table, r.from = st, t[p + 1] \in r.on
  PROVE  /\ p + 1 \in Heads(t) <=> r.put = "header"
         /\ \A a \in Heads(t) : a <= p + 1 =>
              /\ OfName(t, a, p + 1) <=> r.put \in {"header", "name"} /\ Newest(t, a, p + 1)
              /\ OfValue(t, a, p + 1) <=> r.put = "value" /\ Newest(t, a, p + 1)
<1> DEFINE c == t[p + 1]
<1>1. Shape(t, st, s, p)
  BY DEF Located
<1>2. /\ ":" \notin Token /\ Token \cap White = {} /\ (Text \ {"SP"}) \cap White = {}
      /\ Heads(t) \subseteq Nat
  BY DEF Token, TSpecial, White, Text, Ctl, Heads
<1>3. CASE c \in {"CR", "LF"}
  <2>1. r.put = "nothing"
    BY <1>3 DEF Table, Row, Token, TSpecial, Text, Ctl, Char, Digit
  <2> QED
    BY <1>2, <1>3, <2>1, NewlineParts
<1>4. CASE c \notin {"CR", "LF"}
  <2>1. st \notin Newlines /\ Plain(t, s, p)
    <3>1. st \notin Newlines
      BY <1>4, RowChars
    <3> QED
      BY <3>1 DEF Located, Unbroken
  <2>2. CASE s = 1
    <3>1. ASSUME NEW b \in Heads(t), b <= p + 1 PROVE FALSE
      BY <2>1, <2>2, <3>1, HeadsUpToLine DEF Heads
    <3>2. r.put # "header"
      BY <1>1, <2>2 DEF Shape, Table, Row
    <3> QED
      BY <3>1, <3>2
  <2>3. CASE s > 1
    <3>1. t[s - 1] = "LF" /\ 1 < s /\ s \in 2..Len(t) /\ LineStart(t, s)
      BY <2>3 DEF Located, Before, LineStart
    <3>2. s \in Heads(t) <=> t[s] \in Token
      BY <3>1 DEF Heads
    <3>3. CASE st = "header_line_start"
      <4>1. /\ p + 1 = s
            /\ \/ c \in Token /\ r.put = "header"
               \/ c \in White /\ r.put = "nothing"
        BY <1>1, <1>4, <3>3 DEF Shape, Table, Row, White
      <4>2. CASE c \in Token
        <5>1. s \in Heads(t) /\ r.put = "header"
          BY <1>2, <3>2, <4>1, <4>2
        <5>2. Among(t, s, p + 1, Token)
          BY <4>1, <4>2, AmongOne
        <5>3. ~ \E i \in HeaderCuts(t, s, p + 1) : i + 2 <= p + 1
          BY <4>1 DEF HeaderCuts
        <5> QED
          BY <2>1, <3>1, <4>1, <5>1, <5>2, <5>3, HeaderParts
      <4>3. CASE c \in White
        <5>1. s \notin Heads(t) /\ r.put = "nothing"
          BY <1>2, <3>2, <4>1, <4>3
        <5>2. ~TextBegun(t, s, p + 1)
          BY <4>1 DEF TextBegun
        <5> QED
          BY <2>1, <3>1, <5>1, <5>2, FoldParts
      <4> QED
        BY <4>1, <4>2, <4>3
    <3>4. CASE st = "header_lws"
      <4>1. s <= p /\ Among(t, s, p, White)
        BY <1>1, <3>1, <3>4 DEF Shape, InWhite
      <4>2. s \notin Heads(t)
        BY <1>2, <3>2, <4>1 DEF Among
      <4>3. \/ c \in White /\ r.put = "nothing"
            \/ c \in Text \ {"SP"} /\ r.put = "value"
        BY <1>4, <3>4 DEF Table, Row, White
      <4>4. CASE c \in White
        <5>1. ~TextBegun(t, s, p + 1)
          BY <4>1, <4>4 DEF TextBegun, Among
        <5>2. r.put = "nothing"
          BY <1>2, <4>3, <4>4
        <5> QED
          BY <2>1, <3>1, <4>2, <5>1, <5>2, FoldParts
      <4>5. CASE c \in Text \ {"SP"}
        <5>1. TextBegun(t, s, p + 1)
          <6>1. Among(t, p + 1, p + 1, Text)
            BY <4>5, AmongOne
          <6>2. p + 1 \in s + 1..p + 1 /\ p + 1 - 1 = p /\ c \notin White
            BY <1>2, <4>1, <4>5
          <6> QED
            BY <4>1, <6>1, <6>2 DEF TextBegun
        <5>2. r.put = "value"
          BY <1>2, <4>3, <4>5
        <5> QED
          BY <2>1, <3>1, <4>2, <5>1, <5>2, FoldParts
      <4> QED
        BY <4>3, <4>4, <4>5
    <3>5. CASE st = "header_name"
      <4>1. s <= p /\ Among(t, s, p, Token)
        BY <1>1, <3>1, <3>5 DEF Shape, InName
      <4>2. s \in Heads(t) /\ p + 1 # s
        BY <3>2, <4>1 DEF Among
      <4>3. ~ \E i \in HeaderCuts(t, s, p + 1) : i + 2 <= p + 1
        BY <1>2, <4>1 DEF HeaderCuts, Among
      <4>4. \/ c = ":" /\ r.put = "nothing"
            \/ c \in Token /\ r.put = "name"
        BY <3>5 DEF Table, Row
      <4>5. Among(t, s, p + 1, Token) <=> c \in Token
        BY <4>1 DEF Among
      <4> QED
        BY <1>2, <2>1, <3>1, <4>2, <4>3, <4>4, <4>5, HeaderParts
    <3>6. CASE st = "space_before_header_value"
      <4>1. s < p /\ Among(t, s, p - 1, Token) /\ t[p] = ":"
        BY <1>1, <3>1, <3>6 DEF Shape, InColon
      <4>2. s \in Heads(t) /\ p + 1 # s
        BY <3>2, <4>1 DEF Among
      <4>3. ~ \E i \in HeaderCuts(t, s, p + 1) : i + 2 <= p + 1
        BY <1>2, <4>1 DEF HeaderCuts, Among
      <4>4. r.put = "nothing"
        BY <3>6 DEF Table, Row
      <4>5. ~Among(t, s, p + 1, Token)
        BY <1>2, <4>1 DEF Among
      <4> QED
        BY <2>1, <3>1, <4>2, <4>3, <4>4, <4>5, HeaderParts
    <3>7. CASE st = "header_value"
      <4>1. c \in Text /\ r.put = "value"
        BY <1>4, <3>7 DEF Table, Row
      <4>2. CASE HeaderCuts(t, s, p) # {}
        <5>1. PICK i \in s + 1..p - 1 : /\ t[i] = ":" /\ t[i + 1] = "SP" /\ Among(t, s, i - 1, Token)
                                        /\ Among(t, i + 2, p, Text)
          BY <4>2 DEF HeaderCuts
        <5>2. s \in Heads(t) /\ p + 1 # s
          BY <3>2, <5>1 DEF Among
        <5>3. i \in HeaderCuts(t, s, p + 1) /\ i + 2 <= p + 1
          <6>1. i \in s + 1..p + 1 - 1 /\ i + 2 \in Nat
            OBVIOUS
          <6>2. Among(t, i + 2, p + 1, Text)
            BY <4>1, <5>1, <6>1, AmongMore
          <6> QED
            BY <5>1, <6>1, <6>2 DEF HeaderCuts
        <5>4. ~Among(t, s, p + 1, Token)
          BY <1>2, <5>1 DEF Among
        <5> QED
          BY <2>1, <3>1, <4>1, <5>2, <5>3, <5>4, HeaderParts
      <4>3. CASE InFold(t, s, p)
        <5>1. PICK i \in s + 1..p : /\ Among(t, s, i - 1, White)
                                    /\ t[i] \in Text \ {"SP"} /\ Among(t, i, p, Text)
          BY <4>3 DEF InFold
        <5>2. s \notin Heads(t)
          BY <1>2, <3>2, <5>1 DEF Among
        <5>3. TextBegun(t, s, p + 1)
          <6>1. i \in s + 1..p + 1 /\ i \in Nat /\ t[i] \notin White
            BY <1>2, <5>1
          <6>2. Among(t, i, p + 1, Text)
            BY <4>1, <5>1, <6>1, AmongMore
          <6> QED
            BY <5>1, <6>1, <6>2 DEF TextBegun
        <5> QED
          BY <2>1, <3>1, <4>1, <5>2, <5>3, FoldParts
      <4> QED
        BY <1>1, <3>1, <3>7, <4>2, <4>3 DEF Shape, InValue
    <3> QED
      BY <1>1, <2>1, <3>1, <3>3, <3>4, <3>5, <3>6, <3>7 DEF Shape, Newlines
  <2> QED
    BY <2>2, <2>3
<1> QED
  BY <1>3, <1>4

-----------------------------------------------------------------------------
(* What the branches of consume() store *)

\* Which part of the request the character at i belongs to.
Belongs(t, i, put) ==
  /\ OfMethod(t, i) <=> put = "method"
  /\ OfUri(t, i) <=> put = "uri"
  /\ OfMajor(t, i) <=> put = "major"
  /\ OfMinor(t, i) <=> put = "minor"
  /\ i \in Heads(t) <=> put = "header"
  /\ \A a \in Heads(t) : a <= i => /\ OfName(t, a, i) <=> put \in {"header", "name"} /\ Newest(t, a, i)
                                   /\ OfValue(t, a, i) <=> put = "value" /\ Newest(t, a, i)

LEMMA RowBelongs ==
  ASSUME NEW t, NEW st, NEW s \in Nat, NEW p \in Nat, NEW hs, 0 < s, s <= p + 1, p < Len(t), Len(t) \in Nat,
         Located(t, st, s, p, hs), NEW r \in Table, r.from = st, t[p + 1] \in r.on
  PROVE  Belongs(t, p + 1, r.put)
<1>1. /\ OfMethod(t, p + 1) <=> r.put = "method"
      /\ OfUri(t, p + 1) <=> r.put = "uri"
      /\ OfMajor(t, p + 1) <=> r.put = "major"
      /\ OfMinor(t, p + 1) <=> r.put = "minor"
  BY FirstLineParts
<1>2. /\ p + 1 \in Heads(t) <=> r.put = "header"
      /\ \A a \in Heads(t) : a <= p + 1 =>
           /\ OfName(t, a, p + 1) <=> r.put \in {"header", "name"} /\ Newest(t, a, p + 1)
           /\ OfValue(t, a, p + 1) <=> r.put = "value" /\ Newest(t, a, p + 1)
  BY HeaderLineParts
<1> QED
  BY <1>1, <1>2 DEF Belongs

\* The newline that completes the request belongs to no part.
LEMMA NewlineBelongs ==
  ASSUME NEW t, NEW i \in Nat, 0 < i, t[i] = "LF" PROVE Belongs(t, i, "nothing")
<1>1. i \in 1..i
  OBVIOUS
<1>2. ~OfMethod(t, i) /\ ~OfUri(t, i) /\ ~OfMajor(t, i) /\ ~OfMinor(t, i)
  BY <1>1, FirstLineOnly
<1>3. Heads(t) \subseteq Nat
  BY DEF Heads
<1> QED
  BY <1>2, <1>3, NewlineParts DEF Belongs

\* The spelling of a part, one character further.
LEMMA SpellsNext ==
  ASSUME NEW t, NEW p \in Nat, NEW U \in SUBSET (1..p + 1), NEW v \in Seq(Char), t[p + 1] \in Char,
         Spells(t, {i \in U : i <= p}, v)
  PROVE  Spells(t, U, IF p + 1 \in U THEN Append(v, t[p + 1]) ELSE v)
<1> DEFINE S == {i \in U : i <= p}
<1>4. \A i \in U : i \in 1..p + 1
  OBVIOUS
<1>5. \A i \in S : i \in 1..p
  BY <1>4
<1>6. \A i \in U : i \in S \/ i = p + 1
  BY <1>4
<1>7. \A i \in S : i \in U
  OBVIOUS
<1> HIDE DEF S
<1>1. S \in SUBSET (1..p)
  BY <1>5
<1>2. CASE p + 1 \in U
  <2>1. U = S \cup {p + 1}
    BY <1>2, <1>6, <1>7
  <2>2. Spells(t, S \cup {p + 1}, Append(v, t[p + 1]))
    BY <1>1, SpellsMore DEF S
  <2> QED
    BY <1>2, <2>1, <2>2
<1>3. CASE p + 1 \notin U
  <2>1. U = S
    BY <1>3, <1>6, <1>7
  <2> QED
    BY <1>3, <2>1 DEF S
<1> QED
  BY <1>2, <1>3

LEMMA EarlierRank ==
  ASSUME NEW t, NEW p \in Nat, Len(t) \in Nat, NEW a \in Heads(t), a <= p
  PROVE  /\ Rank(Heads(t), a) \in 1..Rank(Heads(t), p)
         /\ Rank(Heads(t), a) = Rank(Heads(t), p) <=> \A b \in Heads(t) : b <= p => b <= a
<1> DEFINE A == {j \in Heads(t) : j <= a}
           B == {j \in Heads(t) : j <= p}
<1>1. A \in SUBSET B /\ B \in SUBSET (1..Len(t)) /\ a \in A /\ a \in Nat
  BY DEF Heads
<1>2. /\ IsFiniteSet(A) /\ IsFiniteSet(B) /\ Cardinality(A) \in Nat /\ Cardinality(B) \in Nat
      /\ Cardinality(A) # 0
  <2>1. A \in SUBSET (1..Len(t))
    BY <1>1
  <2>2. IsFiniteSet(A) /\ IsFiniteSet(B) /\ Cardinality(A) \in Nat /\ Cardinality(B) \in Nat
    BY <1>1, <2>1, Finite
  <2> QED
    BY <1>1, <2>2, FS_EmptySet
<1>3. Cardinality(A) <= Cardinality(B) /\ (Cardinality(A) = Cardinality(B) => A = B)
  BY <1>1, <1>2, FS_Subset
<1>4. A = B <=> \A b \in Heads(t) : b <= p => b <= a
  BY <1>1
<1>5. Rank(Heads(t), a) = Cardinality(A) /\ Rank(Heads(t), p) = Cardinality(B)
  BY DEF Rank
<1>6. A = B => Cardinality(A) = Cardinality(B)
  OBVIOUS
<1> HIDE DEF A, B
<1> QED
  BY <1>2, <1>3, <1>4, <1>5, <1>6

\* All headers but the newest have a rank below the number of headers.
LEMMA NewestRank ==
  ASSUME NEW t, NEW p \in Nat, Len(t) \in Nat, p + 1 \notin Heads(t), NEW a \in Heads(t), a <= p
  PROVE  /\ Rank(Heads(t), a) \in 1..Rank(Heads(t), p)
         /\ Rank(Heads(t), a) = Rank(Heads(t), p) <=> Newest(t, a, p + 1)
<1>1. \A b \in Heads(t) : b \in Nat /\ (b <= p + 1 <=> b <= p)
  BY DEF Heads
<1>2. Newest(t, a, p + 1) <=> \A b \in Heads(t) : b <= p => b <= a
  BY <1>1 DEF Newest
<1> QED
  BY <1>2, EarlierRank

LEMMA RankNext ==
  ASSUME NEW t, NEW p \in Nat, Len(t) \in Nat
  PROVE  /\ Rank(Heads(t), p) \in Nat
         /\ Rank(Heads(t), p + 1) = IF p + 1 \in Heads(t) THEN Rank(Heads(t), p) + 1
                                                         ELSE Rank(Heads(t), p)
<1> DEFINE B == {j \in Heads(t) : j <= p}
           C == {j \in Heads(t) : j <= p + 1}
<1>1. B \in SUBSET (1..Len(t)) /\ p + 1 \notin B
  BY DEF Heads
<1>2. IsFiniteSet(B) /\ Cardinality(B) \in Nat
  BY <1>1, Finite
<1>3. \A j \in Heads(t) : j \in Nat
  BY DEF Heads
<1>4. CASE p + 1 \in Heads(t)
  <2>1. C = B \cup {p + 1}
    BY <1>3, <1>4
  <2>2. Cardinality(C) = Cardinality(B) + 1
    BY <1>1, <1>2, <2>1, FS_AddElement
  <2> QED
    BY <1>2, <1>4, <2>2 DEF Rank
<1>5. CASE p + 1 \notin Heads(t)
  <2>1. C = B
    BY <1>3, <1>5
  <2> QED
    BY <1>2, <1>5, <2>1 DEF Rank
<1> QED
  BY <1>4, <1>5

LEMMA StoredLine ==
  ASSUME req \in Request, NEW put \in Puts, NEW c
  PROVE  /\ Stored(put, c).method = IF put = "method" THEN Append(req.method, c) ELSE req.method
         /\ Stored(put, c).uri = IF put = "uri" THEN Append(req.uri, c) ELSE req.uri
         /\ Stored(put, c).major = IF put = "zero" THEN 0
                                   ELSE IF put = "major" THEN req.major * 10 + Value(c) ELSE req.major
         /\ Stored(put, c).minor = IF put = "zero" THEN 0
                                   ELSE IF put = "minor" THEN req.minor * 10 + Value(c) ELSE req.minor
         /\ put \notin {"header", "name", "value"} => Stored(put, c).headers = req.headers
<1>1. CASE put = "method"
  BY <1>1 DEF Stored, Request
<1>2. CASE put = "uri"
  BY <1>2 DEF Stored, Request
<1>3. CASE put = "zero"
  BY <1>3 DEF Stored, Request
<1>4. CASE put = "major"
  BY <1>4 DEF Stored, Request
<1>5. CASE put = "minor"
  BY <1>5 DEF Stored, Request
<1>6. CASE put = "header"
  BY <1>6 DEF Stored, Request
<1>7. CASE put = "name"
  BY <1>7 DEF Stored, Back, Request
<1>8. CASE put = "value"
  BY <1>8 DEF Stored, Back, Request
<1>9. CASE put = "nothing"
  BY <1>9 DEF Stored
<1> QED
  BY <1>1, <1>2, <1>3, <1>4, <1>5, <1>6, <1>7, <1>8, <1>9 DEF Puts

\* A new header is empty but for the first character of its name.
LEMMA StoredHeader ==
  ASSUME req \in Request, NEW c \in Char
  PROVE  LET hs == Stored("header", c).headers
             n  == Len(req.headers)
         IN  /\ Len(hs) = n + 1 /\ \A k \in 1..n : hs[k] = req.headers[k]
             /\ hs[n + 1].name = <<c>> /\ hs[n + 1].value = <<>>
<1> DEFINE h == [name |-> <<c>>, value |-> <<>>]
<1>1. Stored("header", c).headers = Append(req.headers, h) /\ req.headers \in Seq(Header) /\ h \in Header
  BY DEF Stored, Request, Header
<1>2. h.name = <<c>> /\ h.value = <<>>
  OBVIOUS
<1> HIDE DEF h
<1> QED
  BY <1>1, <1>2

\* Only the last header is written to.
LEMMA StoredBack ==
  ASSUME req \in Request, NEW c \in Char, NEW put \in Puts, put # "header",
         put \in {"name", "value"} => req.headers # <<>>
  PROVE  LET hs == Stored(put, c).headers
             n  == Len(req.headers)
         IN  /\ Len(hs) = n
             /\ \A k \in 1..n :
                  /\ hs[k].name = IF put = "name" /\ k = n THEN Append(req.headers[k].name, c)
                                                           ELSE req.headers[k].name
                  /\ hs[k].value = IF put = "value" /\ k = n THEN Append(req.headers[k].value, c)
                                                             ELSE req.headers[k].value
<1> DEFINE n == Len(req.headers)
<1>1. n \in Nat /\ req.headers \in Seq(Header) /\ \A k \in 1..n : req.headers[k] \in Header
  BY DEF Request
<1>2. put \in {"name", "value"} => n \in 1..n /\ LastHeader \in Header
  <2>1. put \in {"name", "value"} => n \in 1..n
    BY <1>1
  <2> QED
    BY <1>1, <2>1 DEF LastHeader
<1>3. ASSUME NEW h, put \in {"name", "value"}, Stored(put, c) = Back(h)
      PROVE  /\ Len(Stored(put, c).headers) = n
             /\ \A k \in 1..n : Stored(put, c).headers[k] = IF k = n THEN h ELSE req.headers[k]
  <2> DEFINE hs == [req.headers EXCEPT ![n] = h]
  <2>1. Stored(put, c).headers = hs
    BY <1>3 DEF Back, Request
  <2>2. Len(hs) = n /\ \A k \in 1..n : hs[k] = IF k = n THEN h ELSE req.headers[k]
    BY <1>1
  <2> HIDE DEF hs, n
  <2> QED
    BY <2>1, <2>2
<1>4. CASE put = "name"
  <2> DEFINE h == [LastHeader EXCEPT !.name = Append(LastHeader.name, c)]
  <2>1. Stored(put, c) = Back(h)
    BY <1>4 DEF Stored
  <2>2. h.name = Append(LastHeader.name, c) /\ h.value = LastHeader.value
    BY <1>2, <1>4 DEF Header
  <2> HIDE DEF h
  <2>3. /\ Len(Stored(put, c).headers) = n
        /\ \A k \in 1..n : Stored(put, c).headers[k] = IF k = n THEN h ELSE req.headers[k]
    BY <1>3, <1>4, <2>1
  <2>4. LastHeader = req.headers[n]
    BY DEF LastHeader
  <2> HIDE DEF n
  <2>5. QED
    BY <1>4, <2>2, <2>3, <2>4 DEF n
<1>5. CASE put = "value"
  <2> DEFINE h == [LastHeader EXCEPT !.value = Append(LastHeader.value, c)]
  <2>1. Stored(put, c) = Back(h)
    BY <1>5 DEF Stored, Continued
  <2>2. h.value = Append(LastHeader.value, c) /\ h.name = LastHeader.name
    BY <1>2, <1>5 DEF Header
  <2> HIDE DEF h
  <2>3. /\ Len(Stored(put, c).headers) = n
        /\ \A k \in 1..n : Stored(put, c).headers[k] = IF k = n THEN h ELSE req.headers[k]
    BY <1>3, <1>5, <2>1
  <2>4. LastHeader = req.headers[n]
    BY DEF LastHeader
  <2> HIDE DEF n
  <2>5. QED
    BY <1>5, <2>2, <2>3, <2>4 DEF n
<1>6. CASE put \notin {"name", "value"}
  BY <1>1, <1>6, StoredLine
<1> QED
  BY <1>4, <1>5, <1>6

\* The methods, uris and numbers of the two, one character further.
LEMMA LineSaysNext ==
  ASSUME NEW t, NEW p \in Nat, p < Len(t), Len(t) \in Nat, t[p + 1] \in Char, NEW put \in Puts,
         Belongs(t, p + 1, put), req \in Request, Says(t, p, req),
         put = "zero" => req.major = 0 /\ req.minor = 0
  PROVE  LET q == Stored(put, t[p + 1])
         IN  /\ Spells(t, {i \in 1..p + 1 : OfMethod(t, i)}, q.method)
             /\ Spells(t, {i \in 1..p + 1 : OfUri(t, i)}, q.uri)
             /\ q.major = Number(t, {i \in 1..Len(t) : OfMajor(t, i)}, p + 1)
             /\ q.minor = Number(t, {i \in 1..Len(t) : OfMinor(t, i)}, p + 1)
<1> DEFINE c == t[p + 1]
           q == Stored(put, c)
<1>1. /\ q.method = IF put = "method" THEN Append(req.method, c) ELSE req.method
      /\ q.uri = IF put = "uri" THEN Append(req.uri, c) ELSE req.uri
      /\ q.major = IF put = "zero" THEN 0
                   ELSE IF put = "major" THEN req.major * 10 + Value(c) ELSE req.major
      /\ q.minor = IF put = "zero" THEN 0
                   ELSE IF put = "minor" THEN req.minor * 10 + Value(c) ELSE req.minor
  BY StoredLine
<1>2. p + 1 \in 1..Len(t) /\ p + 1 \in 1..p + 1 /\ req.method \in Seq(Char) /\ req.uri \in Seq(Char)
  BY DEF Request
<1> HIDE DEF q
<1>3. Spells(t, {i \in 1..p + 1 : OfMethod(t, i)}, q.method)
  <2> DEFINE U == {i \in 1..p + 1 : OfMethod(t, i)}
  <2>1. {i \in U : i <= p} = {i \in 1..p : OfMethod(t, i)}
    OBVIOUS
  <2>2. Spells(t, {i \in U : i <= p}, req.method)
    BY <2>1 DEF Says
  <2>3. U \in SUBSET (1..p + 1) /\ (p + 1 \in U <=> put = "method")
    BY <1>2 DEF Belongs
  <2> HIDE DEF U
  <2>4. Spells(t, U, IF p + 1 \in U THEN Append(req.method, t[p + 1]) ELSE req.method)
    BY <1>2, <2>2, <2>3, SpellsNext
  <2>5. QED
    BY <1>1, <2>3, <2>4 DEF U
<1>4. Spells(t, {i \in 1..p + 1 : OfUri(t, i)}, q.uri)
  <2> DEFINE U == {i \in 1..p + 1 : OfUri(t, i)}
  <2>1. {i \in U : i <= p} = {i \in 1..p : OfUri(t, i)}
    OBVIOUS
  <2>2. Spells(t, {i \in U : i <= p}, req.uri)
    BY <2>1 DEF Says
  <2>3. U \in SUBSET (1..p + 1) /\ (p + 1 \in U <=> put = "uri")
    BY <1>2 DEF Belongs
  <2> HIDE DEF U
  <2>4. Spells(t, U, IF p + 1 \in U THEN Append(req.uri, t[p + 1]) ELSE req.uri)
    BY <1>2, <2>2, <2>3, SpellsNext
  <2>5. QED
    BY <1>1, <2>3, <2>4 DEF U
<1>5. q.major = Number(t, {i \in 1..Len(t) : OfMajor(t, i)}, p + 1)
  <2> DEFINE S == {i \in 1..Len(t) : OfMajor(t, i)}
  <2>1. (p + 1 \in S <=> put = "major") /\ req.major = Number(t, S, p)
    BY <1>2 DEF Belongs, Says
  <2> HIDE DEF S
  <2>2. Number(t, S, p + 1) = IF p + 1 \in S THEN Number(t, S, p) * 10 + Value(c) ELSE Number(t, S, p)
    BY NumberNext
  <2>3. q.major = Number(t, S, p + 1)
    BY <1>1, <2>1, <2>2
  <2>4. QED
    BY <2>3 DEF S
<1>6. q.minor = Number(t, {i \in 1..Len(t) : OfMinor(t, i)}, p + 1)
  <2> DEFINE S == {i \in 1..Len(t) : OfMinor(t, i)}
  <2>1. (p + 1 \in S <=> put = "minor") /\ req.minor = Number(t, S, p)
    BY <1>2 DEF Belongs, Says
  <2> HIDE DEF S
  <2>2. Number(t, S, p + 1) = IF p + 1 \in S THEN Number(t, S, p) * 10 + Value(c) ELSE Number(t, S, p)
    BY NumberNext
  <2>3. q.minor = Number(t, S, p + 1)
    BY <1>1, <2>1, <2>2
  <2>4. QED
    BY <2>3 DEF S
<1> QED
  BY <1>3, <1>4, <1>5, <1>6 DEF q

\* The headers, one character further.
LEMMA HeadersSayNext ==
  ASSUME NEW t, NEW p \in Nat, p < Len(t), Len(t) \in Nat, t[p + 1] \in Char, NEW put \in Puts,
         Belongs(t, p + 1, put), req \in Request, Says(t, p, req),
         put \in {"name", "value"} => req.headers # <<>>
  PROVE  LET hs == Stored(put, t[p + 1]).headers
         IN  /\ Len(hs) = Rank(Heads(t), p + 1)
             /\ \A a \in Heads(t) : a <= p + 1 =>
                  /\ Spells(t, {i \in 1..p + 1 : OfName(t, a, i)}, hs[Rank(Heads(t), a)].name)
                  /\ Spells(t, {i \in 1..p + 1 : OfValue(t, a, i)}, hs[Rank(Heads(t), a)].value)
<1> DEFINE c == t[p + 1]
           hs == Stored(put, c).headers
           n == Len(req.headers)
           k(a) == Rank(Heads(t), a)
<1>1. n = Rank(Heads(t), p) /\ n \in Nat /\ p + 1 \in 1..p + 1
  BY DEF Says, Request
<1>2. ASSUME NEW a \in Heads(t), a <= p
      PROVE  /\ Spells(t, {i \in 1..p : OfName(t, a, i)}, req.headers[k(a)].name)
             /\ Spells(t, {i \in 1..p : OfValue(t, a, i)}, req.headers[k(a)].value)
  BY <1>2 DEF Says
<1>3. ASSUME NEW a \in Heads(t), a <= p, k(a) \in 1..n,
             hs[k(a)].name = IF OfName(t, a, p + 1) THEN Append(req.headers[k(a)].name, c)
                                                    ELSE req.headers[k(a)].name,
             hs[k(a)].value = IF OfValue(t, a, p + 1) THEN Append(req.headers[k(a)].value, c)
                                                      ELSE req.headers[k(a)].value
      PROVE  /\ Spells(t, {i \in 1..p + 1 : OfName(t, a, i)}, hs[k(a)].name)
             /\ Spells(t, {i \in 1..p + 1 : OfValue(t, a, i)}, hs[k(a)].value)
  <2>1. req.headers[k(a)].name \in Seq(Char) /\ req.headers[k(a)].value \in Seq(Char)
    <3>1. req.headers \in Seq(Header)
      BY DEF Request
    <3>2. req.headers[k(a)] \in Header
      BY <1>3, <3>1
    <3> QED
      BY <3>2 DEF Header
  <2> HIDE DEF hs
  <2>2. Spells(t, {i \in 1..p + 1 : OfName(t, a, i)}, hs[k(a)].name)
    <3> DEFINE U == {i \in 1..p + 1 : OfName(t, a, i)}
    <3>1. {i \in U : i <= p} = {i \in 1..p : OfName(t, a, i)}
      OBVIOUS
    <3>2. Spells(t, {i \in U : i <= p}, req.headers[k(a)].name)
      BY <1>2, <1>3, <3>1
    <3>3. U \in SUBSET (1..p + 1) /\ (p + 1 \in U <=> OfName(t, a, p + 1))
      BY <1>1
    <3> HIDE DEF U, k
    <3>4. Spells(t, U, IF p + 1 \in U THEN Append(req.headers[k(a)].name, t[p + 1])
                                      ELSE req.headers[k(a)].name)
      BY <2>1, <3>2, <3>3, SpellsNext
    <3>5. QED
      BY <1>3, <3>3, <3>4 DEF U
  <2>3. Spells(t, {i \in 1..p + 1 : OfValue(t, a, i)}, hs[k(a)].value)
    <3> DEFINE U == {i \in 1..p + 1 : OfValue(t, a, i)}
    <3>1. {i \in U : i <= p} = {i \in 1..p : OfValue(t, a, i)}
      OBVIOUS
    <3>2. Spells(t, {i \in U : i <= p}, req.headers[k(a)].value)
      BY <1>2, <1>3, <3>1
    <3>3. U \in SUBSET (1..p + 1) /\ (p + 1 \in U <=> OfValue(t, a, p + 1))
      BY <1>1
    <3> HIDE DEF U, k
    <3>4. Spells(t, U, IF p + 1 \in U THEN Append(req.headers[k(a)].value, t[p + 1])
                                      ELSE req.headers[k(a)].value)
      BY <2>1, <3>2, <3>3, SpellsNext
    <3>5. QED
      BY <1>3, <3>3, <3>4 DEF U
  <2> QED
    BY <2>2, <2>3
<1>4. CASE put = "header"
  <2>1. /\ Len(hs) = n + 1 /\ \A j \in 1..n : hs[j] = req.headers[j]
        /\ hs[n + 1].name = <<c>> /\ hs[n + 1].value = <<>>
    BY <1>4, StoredHeader
  <2> HIDE DEF hs
  <2>2. p + 1 \in Heads(t) /\ Rank(Heads(t), p + 1) = n + 1
    BY <1>1, <1>4, RankNext DEF Belongs
  <2>3. ASSUME NEW a \in Heads(t), a <= p
        PROVE  /\ Spells(t, {i \in 1..p + 1 : OfName(t, a, i)}, hs[k(a)].name)
               /\ Spells(t, {i \in 1..p + 1 : OfValue(t, a, i)}, hs[k(a)].value)
    <3>1. a \in Nat /\ ~Newest(t, a, p + 1)
      BY <2>2, <2>3 DEF Newest, Heads
    <3>2. ~OfName(t, a, p + 1) /\ ~OfValue(t, a, p + 1)
      BY <2>3, <3>1 DEF Belongs
    <3>3. k(a) \in 1..n
      BY <1>1, <2>3, EarlierRank
    <3> QED
      BY <1>3, <2>1, <2>3, <3>2, <3>3
  <2>4. Spells(t, {i \in 1..p + 1 : OfName(t, p + 1, i)}, hs[k(p + 1)].name)
    <3>1. OfName(t, p + 1, p + 1)
      <4>1. Newest(t, p + 1, p + 1)
        BY <2>2 DEF Newest
      <4> QED
        BY <1>4, <2>2, <4>1 DEF Belongs
    <3>2. {i \in 1..p + 1 : OfName(t, p + 1, i)} = {p + 1}
      BY <3>1 DEF OfName
    <3>3. Spells(t, {p + 1}, <<c>>)
      BY SpellsOne
    <3> QED
      BY <2>1, <2>2, <3>2, <3>3
  <2>5. Spells(t, {i \in 1..p + 1 : OfValue(t, p + 1, i)}, hs[k(p + 1)].value)
    <3>1. \A i \in 1..p + 1 : ~OfValue(t, p + 1, i)
      BY DEF OfValue, HeaderCuts
    <3>2. {i \in 1..p + 1 : OfValue(t, p + 1, i)} = {}
      BY <3>1
    <3> QED
      BY <2>1, <2>2, <3>2, SpellsNothing
  <2>6. \A a \in Heads(t) : a <= p + 1 => a <= p \/ a = p + 1
    BY DEF Heads
  <2> QED
    BY <2>1, <2>2, <2>3, <2>4, <2>5, <2>6 DEF hs
<1>5. CASE put # "header"
  <2>1. /\ Len(hs) = n
        /\ \A j \in 1..n :
             /\ hs[j].name = IF put = "name" /\ j = n THEN Append(req.headers[j].name, c)
                                                      ELSE req.headers[j].name
             /\ hs[j].value = IF put = "value" /\ j = n THEN Append(req.headers[j].value, c)
                                                        ELSE req.headers[j].value
    BY <1>5, StoredBack
  <2> HIDE DEF hs
  <2>2. p + 1 \notin Heads(t) /\ Rank(Heads(t), p + 1) = n
    BY <1>1, <1>5, RankNext DEF Belongs
  <2>3. ASSUME NEW a \in Heads(t), a <= p + 1
        PROVE  /\ Spells(t, {i \in 1..p + 1 : OfName(t, a, i)}, hs[k(a)].name)
               /\ Spells(t, {i \in 1..p + 1 : OfValue(t, a, i)}, hs[k(a)].value)
    <3>1. a <= p
      BY <2>2, <2>3 DEF Heads
    <3>2. k(a) \in 1..n /\ (k(a) = n <=> Newest(t, a, p + 1))
      BY <1>1, <2>2, <3>1, NewestRank
    <3>3. /\ OfName(t, a, p + 1) <=> put = "name" /\ k(a) = n
          /\ OfValue(t, a, p + 1) <=> put = "value" /\ k(a) = n
      BY <1>5, <2>3, <3>2 DEF Belongs
    <3> QED
      BY <1>3, <2>1, <3>1, <3>2, <3>3
  <2> QED
    BY <2>1, <2>2, <2>3 DEF hs
<1> QED
  BY <1>4, <1>5

LEMMA SaysNext ==
  ASSUME NEW t, NEW p \in Nat, p < Len(t), Len(t) \in Nat, t[p + 1] \in Char, NEW put \in Puts,
         Belongs(t, p + 1, put), req \in Request, Says(t, p, req),
         put \in {"name", "value"} => req.headers # <<>>,
         put = "zero" => req.major = 0 /\ req.minor = 0
  PROVE  Says(t, p + 1, Stored(put, t[p + 1]))
<1> DEFINE q == Stored(put, t[p + 1])
<1>1. /\ Spells(t, {i \in 1..p + 1 : OfMethod(t, i)}, q.method)
      /\ Spells(t, {i \in 1..p + 1 : OfUri(t, i)}, q.uri)
      /\ q.major = Number(t, {i \in 1..Len(t) : OfMajor(t, i)}, p + 1)
      /\ q.minor = Number(t, {i \in 1..Len(t) : OfMinor(t, i)}, p + 1)
  BY LineSaysNext
<1>2. /\ Len(q.headers) = Rank(Heads(t), p + 1)
      /\ \A a \in Heads(t) : a <= p + 1 =>
           /\ Spells(t, {i \in 1..p + 1 : OfName(t, a, i)}, q.headers[Rank(Heads(t), a)].name)
           /\ Spells(t, {i \in 1..p + 1 : OfValue(t, a, i)}, q.headers[Rank(Heads(t), a)].value)
  BY HeadersSayNext
<1> HIDE DEF q
<1>3. Says(t, p + 1, q)
  BY <1>1, <1>2 DEF Says
<1> QED
  BY <1>3 DEF q

\* Until the slash of "HTTP/", where they are set to 0, the version numbers are 0 already.
NotNumbered == state_ \in {"method_start", "method", "uri", "http_version_h", "http_version_t_1",
                           "http_version_t_2", "http_version_p", "http_version_slash"} =>
                 req.major = 0 /\ req.minor = 0

\* What is stored is what the characters consumed say, before the verdict too.
SaysSoFar == result # "bad" => Says(input, pos, req)

StoredInv == VerdictInv /\ NotNumbered /\ SaysSoFar

LEMMA SaysNothing == ASSUME NEW t, Len(t) \in Nat PROVE Says(t, 0, EmptyRequest)
<1>1. \A S : Number(t, S, 0) = 0
  BY NumberStart
<1>2. /\ {i \in 1..0 : OfMethod(t, i)} = {} /\ {i \in 1..0 : OfUri(t, i)} = {}
      /\ {j \in Heads(t) : j <= 0} = {} /\ \A a \in Heads(t) : ~(a <= 0)
  BY DEF Heads
<1>3. Rank(Heads(t), 0) = 0
  BY <1>2, FS_EmptySet DEF Rank
<1> QED
  BY <1>1, <1>2, <1>3, SpellsNothing DEF Says, EmptyRequest

LEMMA StoredInit == Init => StoredInv
<1> SUFFICES ASSUME Init PROVE StoredInv
  OBVIOUS
<1>1. Len(input) \in Nat /\ pos = 0 /\ req = EmptyRequest
  BY InputsAssumption DEF Init
<1>2. SaysSoFar
  BY <1>1, SaysNothing DEF SaysSoFar
<1> QED
  BY <1>1, <1>2, VerdictInit DEF StoredInv, NotNumbered, EmptyRequest

LEMMA NotNumberedConsume == ASSUME Inv, NotNumbered, Consume PROVE NotNumbered'
<1>1. PICK r \in Takes(input[pos + 1]) : state_' = r.to /\ req' = Stored(r.put, input[pos + 1])
  BY DEF Consume
<1>2. r \in Table /\ r.from = state_ /\ r.put \in Puts /\ req \in Request
  BY <1>1, RowFacts DEF Takes, Inv, TypeOK, Puts
<1>3. r.to \in {"method_start", "method", "uri", "http_version_h", "http_version_t_1",
                "http_version_t_2", "http_version_p", "http_version_slash"} =>
        /\ r.from \in {"method_start", "method", "uri", "http_version_h", "http_version_t_1",
                       "http_version_t_2", "http_version_p", "http_version_slash"}
        /\ r.put \notin {"major", "minor"}
  BY <1>2 DEF Table, Row
<1> QED
  BY <1>1, <1>2, <1>3, StoredLine DEF NotNumbered

LEMMA SaysConsume == ASSUME StoredInv, Consume PROVE SaysSoFar'
<1> DEFINE c == input[pos + 1]
<1>1. PICK r \in Takes(c) : state_' = r.to /\ req' = Stored(r.put, c)
  BY DEF Consume
<1>2. r \in Table /\ r.from = state_ /\ c \in r.on /\ r.put \in Puts
  BY <1>1, RowFacts DEF Takes, Puts
<1>3. /\ pos \in Nat /\ Len(input) \in Nat /\ pos < Len(input) /\ c \in Char /\ req \in Request
      /\ result = "indeterminate" /\ Inv /\ Placed /\ input' = input /\ pos' = pos + 1
  BY DEF StoredInv, VerdictInv, Inv, TypeOK, Consume, More, Advance
<1>4. PICK s \in 1..pos + 1 : Located(input, state_, s, pos, req.headers)
  BY <1>3 DEF Placed
<1>5. Belongs(input, pos + 1, r.put)
  <2>1. s \in Nat /\ 0 < s /\ s <= pos + 1
    BY <1>3
  <2> QED
    BY <1>2, <1>3, <1>4, <2>1, RowBelongs
<1>6. r.put \in {"name", "value"} => req.headers # <<>>
  BY <1>2, <1>3, RowFacts DEF Inv, BackIsSafe
<1>7. r.put = "zero" => req.major = 0 /\ req.minor = 0
  <2>1. r.put = "zero" => r.from = "http_version_slash"
    BY <1>2 DEF Table, Row
  <2> QED
    BY <1>2, <2>1 DEF StoredInv, NotNumbered
<1>8. Says(input, pos, req)
  BY <1>3 DEF StoredInv, SaysSoFar
<1>9. Says(input, pos + 1, Stored(r.put, c))
  BY <1>2, <1>3, <1>5, <1>6, <1>7, <1>8, SaysNext
<1> QED
  BY <1>1, <1>3, <1>9 DEF SaysSoFar

LEMMA SaysComplete == ASSUME StoredInv, Complete PROVE SaysSoFar'
<1>1. /\ pos \in Nat /\ Len(input) \in Nat /\ pos < Len(input) /\ req \in Request
      /\ input[pos + 1] = "LF" /\ input[pos + 1] \in Char
      /\ result = "indeterminate" /\ input' = input /\ pos' = pos + 1 /\ req' = req
  BY DEF StoredInv, VerdictInv, Inv, TypeOK, Complete, More, Advance
<1>2. Belongs(input, pos + 1, "nothing")
  BY <1>1, NewlineBelongs
<1>3. Says(input, pos, req)
  BY <1>1 DEF StoredInv, SaysSoFar
<1>4. Says(input, pos + 1, Stored("nothing", input[pos + 1]))
  <2>1. "nothing" \in Puts
    BY DEF Puts
  <2> QED
    BY <1>1, <1>2, <1>3, <2>1, SaysNext
<1>5. Stored("nothing", input[pos + 1]) = req
  BY DEF Stored
<1> QED
  BY <1>1, <1>4, <1>5 DEF SaysSoFar

LEMMA StoredNext == StoredInv /\ [Next]_vars => StoredInv'
<1> SUFFICES ASSUME StoredInv, [Next]_vars PROVE StoredInv'
  OBVIOUS
<1>1. VerdictInv' /\ Inv
  BY VerdictNext DEF StoredInv, VerdictInv
<1>2. CASE Consume
  BY <1>1, <1>2, NotNumberedConsume, SaysConsume DEF StoredInv
<1>3. CASE Complete
  <2>1. NotNumbered'
    BY <1>3 DEF StoredInv, NotNumbered, Complete
  <2> QED
    BY <1>1, <1>3, <2>1, SaysComplete DEF StoredInv
<1>4. CASE Reject
  BY <1>1, <1>4 DEF StoredInv, NotNumbered, SaysSoFar, Reject
<1>5. ASSUME NEW n \in ChunkSizes, ReadChunk(n) PROVE StoredInv'
  BY <1>1, <1>5 DEF StoredInv, NotNumbered, SaysSoFar, ReadChunk
<1>6. CASE UNCHANGED vars
  BY <1>1, <1>6 DEF StoredInv, NotNumbered, SaysSoFar, vars
<1> QED
  BY <1>2, <1>3, <1>4, <1>5, <1>6 DEF Next

\* A good request is stored as the grammar reads it, for every input and every way of cutting it.
THEOREM StoredCorrect == Spec => []StoredMatchesGrammar
<1>1. StoredInv => StoredMatchesGrammar
  BY DEF StoredInv, SaysSoFar, StoredMatchesGrammar
<1> QED
  BY StoredInit, StoredNext, <1>1, PTL DEF Spec
=============================================================================
