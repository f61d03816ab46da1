--------------------------- MODULE RequestGrammar ---------------------------
(***************************************************************************)
(* The requests that request_parser accepts, and what they say, defined    *)
(* without a machine: by the places where the lines of a text t begin and  *)
(* end, where each line is cut into its parts, and which part of the       *)
(* request the character at a place belongs to.                            *)
(***************************************************************************)
EXTENDS RequestParser, FiniteSets

\* The characters at the places a to b are all in S.
Among(t, a, b, S) == \A i \in a..b : t[i] \in S

\* The line that begins at a ends in front of the CR at e.
LineStart(t, a) == a = 1 \/ t[a - 1] = "LF"
LineEnd(t, a, e) == t[e] = "CR" /\ Among(t, a, e - 1, Char \ {"CR"})

\* CR and LF come in pairs up to k.
Paired(t, k) == \A i \in 1..k : /\ t[i] = "CR" => i < k /\ t[i + 1] = "LF"
                                /\ t[i] = "LF" => i > 1 /\ t[i - 1] = "CR"

White == {"SP", "HT"}
Places(t, a, b, c) == {i \in a..b : t[i] = c}

\* The first n characters behind the place y are those of "HTTP/".
Http(t, y, n) == \A j \in 1..n : t[y + j] = <<"H", "T", "T", "P", "/">>[j]

\* The parts of a request line: the method before the SP at x, the uri before the SP at y,
\* "HTTP/" and the first number before the dot at d.
Method(t, x)   == 1 < x /\ Among(t, 1, x - 1, Token) /\ t[x] = "SP"
Uri(t, x, y)   == x < y /\ Among(t, x + 1, y - 1, Text \ {"SP"}) /\ t[y] = "SP"
Major(t, y, d) == y + 6 < d /\ Http(t, y, 5) /\ Among(t, y + 6, d - 1, Digit) /\ t[d] = "."

\* The cuts of a request line that ends at b.
RequestCuts(t, b) ==
  {r \in [sp1 : Places(t, 1, b, "SP"), sp2 : Places(t, 1, b, "SP"), dot : Places(t, 1, b, ".")] :
     /\ Method(t, r.sp1) /\ Uri(t, r.sp1, r.sp2) /\ Major(t, r.sp2, r.dot)
     /\ r.dot < b /\ Among(t, r.dot + 1, b, Digit)}

\* A header line: name, ":", SP, text.  The cut is the place of the colon.
HeaderCuts(t, a, b) == {i \in a + 1..b - 1 : /\ t[i] = ":" /\ t[i + 1] = "SP"
                                             /\ Among(t, a, i - 1, Token)
                                             /\ Among(t, i + 2, b, Text)}

\* A folded line: white space, then text or nothing; the cuts are the places where the
\* text may begin.
FoldCuts(t, a, b) == {i \in a + 1..b + 1 : Among(t, a, i - 1, White) /\ Among(t, i, b, Text)}

\* Behind the request line there is a line before the one that begins at a.
Follows(t, a) == \E h \in 2..a - 1 : LineStart(t, h)

\* What the line from a to b may be: a request line if it is the first one, a header, or
\* a line that continues one, of which the second line has none.
IsLine(t, a, b) ==
  IF a = 1 THEN RequestCuts(t, b) # {}
  ELSE HeaderCuts(t, a, b) # {} \/ (FoldCuts(t, a, b) # {} /\ Follows(t, a))

\* The line that begins at a is complete before k.
HasLine(t, a, k) == \E e \in a..k - 1 : LineEnd(t, a, e) /\ IsLine(t, a, e - 1)

\* The first k characters are a request: lines, and an empty one at the very end.
IsRequest(t, k) ==
  /\ Paired(t, k)
  /\ k > 2 /\ t[k] = "LF" /\ LineStart(t, k - 1)
  /\ \A a \in 1..k - 2 : LineStart(t, a) => HasLine(t, a, k - 1)

\* The beginnings of the input that are requests.
Accepted == {k \in 1..Len(input) : IsRequest(input, k)}

-----------------------------------------------------------------------------
(* What a request says: the part that the character at i belongs to *)

OfMethod(t, i) == Among(t, 1, i, Token)
OfUri(t, i)    == \E x \in 2..i - 1 : Method(t, x) /\ Among(t, x + 1, i, Text \ {"SP"})
OfMajor(t, i)  == \E x \in 2..i : Method(t, x) /\ \E y \in 2..i :
                    /\ Uri(t, x, y) /\ Http(t, y, 5)
                    /\ y + 6 <= i /\ Among(t, y + 6, i, Digit)
OfMinor(t, i)  == \E x \in 2..i : Method(t, x) /\ \E y \in 2..i : Uri(t, x, y) /\ \E d \in 2..i :
                    Major(t, y, d) /\ d < i /\ Among(t, d + 1, i, Digit)

\* Where a header begins: a line that begins with a character of a name.
Heads(t) == {a \in 2..Len(t) : LineStart(t, a) /\ t[a] \in Token}

\* The name of the header that begins at a is everything up to the colon, its value the
\* text behind the SP and, of the folded lines before the next header, all but the white
\* space in front.
OfName(t, a, i)  == a <= i /\ Among(t, a, i, Token)
OfValue(t, a, i) ==
  \/ \E c \in HeaderCuts(t, a, i) : c + 2 <= i
  \/ \E b \in a + 1..i : /\ LineStart(t, b) /\ Heads(t) \cap (a + 1..b) = {}
                         /\ \E c \in b + 1..i : /\ Among(t, b, c - 1, White)
                                                /\ t[c] \notin White /\ Among(t, c, i, Text)

\* The place of i among those of S, in increasing order.
Rank(S, i) == Cardinality({j \in S : j <= i})

\* v is made of the characters at the places in S.
Spells(t, S, v) == Len(v) = Cardinality(S) /\ \A i \in S : v[Rank(S, i)] = t[i]

\* The number written by the digits at the places of S that are not behind n.
Number(t, S, n) ==
  LET f[i \in 0..n] == IF i = 0 THEN 0
                       ELSE IF i \in S THEN f[i - 1] * 10 + Value(t[i]) ELSE f[i - 1]
  IN  f[n]

\* The first k characters say what is in q, the reference for connection::request_.
Says(t, k, q) ==
  /\ Spells(t, {i \in 1..k : OfMethod(t, i)}, q.method)
  /\ Spells(t, {i \in 1..k : OfUri(t, i)}, q.uri)
  /\ q.major = Number(t, {i \in 1..Len(t) : OfMajor(t, i)}, k)
  /\ q.minor = Number(t, {i \in 1..Len(t) : OfMinor(t, i)}, k)
  /\ Len(q.headers) = Rank(Heads(t), k)
  /\ \A a \in Heads(t) : a <= k =>
       /\ Spells(t, {i \in 1..k : OfName(t, a, i)}, q.headers[Rank(Heads(t), a)].name)
       /\ Spells(t, {i \in 1..k : OfValue(t, a, i)}, q.headers[Rank(Heads(t), a)].value)

-----------------------------------------------------------------------------
(* Properties *)

\* The verdict does not depend on how the input is cut into reads: good exactly when the
\* characters consumed are a request, and bad, or no verdict at the end of the input, only
\* if no beginning of the input is one (request_parser.cpp 13-190, connection.cpp 30-45).
VerdictMatchesGrammar ==
  /\ result = "good" => pos \in Accepted
  /\ result = "bad" \/ (result = "indeterminate" /\ pos = Len(input)) => Accepted = {}

\* A good request is stored as the grammar reads it: method, uri, version numbers, header
\* names, and header values with their folded lines joined, wherever the reads were cut
\* (request_parser.cpp 13-190).
StoredMatchesGrammar == result = "good" => Says(input, pos, req)
=============================================================================
