--------------------------- MODULE RequestParser ---------------------------
(***************************************************************************)
(* http_server/request_parser.{hpp,cpp}: the incremental parser that       *)
(* connection::do_read feeds with whatever one read brings.  parse() runs  *)
(* consume() over the characters of a chunk and returns at the first       *)
(* verdict; without one the connection reads again and the same parser     *)
(* goes on from state_ (reset() is never called).                          *)
(*                                                                         *)
(* Characters are the ones consume() tells apart: letters of "HTTP", "a"   *)
(* for any other token character, digits, ".", "/", ":", space, tab, CR,   *)
(* LF and "high" for a byte above 127, which is a negative char: neither   *)
(* is_char nor is_ctl.                                                     *)
(***************************************************************************)
EXTENDS Naturals, Sequences

CONSTANTS
  Inputs,       \* what a peer may send, as sequences of characters
  ChunkSizes    \* how many characters one async_read_some may bring

Char == {"H", "T", "P", "a", "0", "1", ".", "/", ":", "SP", "HT", "CR", "LF", "high"}

ASSUME InputsAssumption == Inputs \subseteq Seq(Char)
ASSUME ChunkAssumption == ChunkSizes \subseteq Nat \ {0}

\* is_char, is_ctl, is_tspecial and is_digit on Char
Ctl      == {"HT", "CR", "LF"}
TSpecial == {"/", ":", "SP", "HT"}
Digit    == {"0", "1"}
Value(d) == IF d = "1" THEN 1 ELSE 0
Text     == Char \ Ctl
Token    == Text \ (TSpecial \cup {"high"})

States == {"method_start", "method", "uri", "http_version_h", "http_version_t_1",
           "http_version_t_2", "http_version_p", "http_version_slash",
           "http_version_major_start", "http_version_major", "http_version_minor_start",
           "http_version_minor", "expecting_newline_1", "header_line_start", "header_lws",
           "header_name", "space_before_header_value", "header_value",
           "expecting_newline_2", "expecting_newline_3"}

VARIABLES
  input,    \* everything the peer sends
  pos,      \* how many characters have been consumed
  left,     \* characters of the current chunk not consumed yet
  state_,   \* request_parser::state_
  req,      \* connection::request_
  result    \* what the last parse() returned

vars == <<input, pos, left, state_, req, result>>

Header  == [name : Seq(Char), value : Seq(Char)]
Request == [method : Seq(Char), uri : Seq(Char), major : Nat, minor : Nat, headers : Seq(Header)]

TypeOK ==
  /\ input \in Seq(Char)
  /\ pos \in 0..Len(input)
  /\ left \in 0..(Len(input) - pos)
  /\ state_ \in States
  /\ req \in Request
  /\ result \in {"indeterminate", "good", "bad"}

EmptyRequest == [method |-> <<>>, uri |-> <<>>, major |-> 0, minor |-> 0, headers |-> <<>>]

Init ==
  /\ input \in Inputs
  /\ pos = 0
  /\ left = 0
  /\ state_ = "method_start"
  /\ req = EmptyRequest
  /\ result = "indeterminate"

-----------------------------------------------------------------------------
(* consume *)

Row(from, on, to, put) == [from |-> from, on |-> on, to |-> to, put |-> put]

\* The branches of consume() that return indeterminate: the state, the characters, the next
\* state and what is stored.  Anything else is bad, except the last newline.
Table == {
  Row("method_start",              Token,          "method",                    "method"),
  Row("method",                    {"SP"},         "uri",                       "nothing"),
  Row("method",                    Token,          "method",                    "method"),
  Row("uri",                       {"SP"},         "http_version_h",            "nothing"),
  Row("uri",                       Text \ {"SP"},  "uri",                       "uri"),
  Row("http_version_h",            {"H"},          "http_version_t_1",          "nothing"),
  Row("http_version_t_1",          {"T"},          "http_version_t_2",          "nothing"),
  Row("http_version_t_2",          {"T"},          "http_version_p",            "nothing"),
  Row("http_version_p",            {"P"},          "http_version_slash",        "nothing"),
  Row("http_version_slash",        {"/"},          "http_version_major_start",  "zero"),
  Row("http_version_major_start",  Digit,          "http_version_major",        "major"),
  Row("http_version_major",        {"."},          "http_version_minor_start",  "nothing"),
  Row("http_version_major",        Digit,          "http_version_major",        "major"),
  Row("http_version_minor_start",  Digit,          "http_version_minor",        "minor"),
  Row("http_version_minor",        {"CR"},         "expecting_newline_1",       "nothing"),
  Row("http_version_minor",        Digit,          "http_version_minor",        "minor"),
  Row("expecting_newline_1",       {"LF"},         "header_line_start",         "nothing"),
  Row("header_line_start",         {"CR"},         "expecting_newline_3",       "nothing"),
  Row("header_line_start",         {"SP", "HT"},   "header_lws",                "nothing"),
  Row("header_line_start",         Token,          "header_name",               "header"),
  Row("header_lws",                {"CR"},         "expecting_newline_2",       "nothing"),
  Row("header_lws",                {"SP", "HT"},   "header_lws",                "nothing"),
  Row("header_lws",                Text \ {"SP"},  "header_value",              "value"),
  Row("header_name",               {":"},          "space_before_header_value", "nothing"),
  Row("header_name",               Token,          "header_name",               "name"),
  Row("space_before_header_value", {"SP"},         "header_value",              "nothing"),
  Row("header_value",              {"CR"},         "expecting_newline_2",       "nothing"),
  Row("header_value",              Text,           "header_value",              "value"),
  Row("expecting_newline_2",       {"LF"},         "header_line_start",         "nothing")}

\* Mutant: a line may be folded although there is no header yet.
TakesAnyFold(c) == {r \in Table : r.from = state_ /\ c \in r.on}

\* The branch consume(c) takes; a folded line needs a header to continue.
Takes(c) == {r \in Table : /\ r.from = state_ /\ c \in r.on
                           /\ r.to = "header_lws" => req.headers # <<>>}

\* req.headers.back(), and req with another header there
LastHeader    == req.headers[Len(req.headers)]
Back(h) == [req EXCEPT !.headers = [req.headers EXCEPT ![Len(req.headers)] = h]]

\* Mutant: the text of a folded line replaces the value.
ContinuedAnew(c) == IF state_ = "header_lws" THEN <<c>> ELSE Append(LastHeader.value, c)

\* headers.back().value.push_back(c)
Continued(c) == Append(LastHeader.value, c)

\* req after the branch that stores c as put says
Stored(put, c) ==
  CASE put = "method" -> [req EXCEPT !.method = Append(req.method, c)]
    [] put = "uri"    -> [req EXCEPT !.uri = Append(req.uri, c)]
    [] put = "zero"   -> [req EXCEPT !.major = 0, !.minor = 0]
    [] put = "major"  -> [req EXCEPT !.major = req.major * 10 + Value(c)]
    [] put = "minor"  -> [req EXCEPT !.minor = req.minor * 10 + Value(c)]
    [] put = "header" -> [req EXCEPT !.headers = Append(req.headers, [name |-> <<c>>, value |-> <<>>])]
    [] put = "name"   -> Back([LastHeader EXCEPT !.name = Append(LastHeader.name, c)])
    [] put = "value"  -> Back([LastHeader EXCEPT !.value = Continued(c)])
    [] OTHER          -> req

-----------------------------------------------------------------------------
(* parse, one character at a time, and the reads that feed it *)

More == result = "indeterminate" /\ left > 0

\* *begin++
Advance == pos' = pos + 1 /\ left' = left - 1 /\ UNCHANGED input

\* A branch that returns indeterminate.
Consume ==
  /\ More
  /\ LET c == input[pos + 1]
     IN  \E r \in Takes(c) :
           /\ state_' = r.to
           /\ req' = Stored(r.put, c)
  /\ Advance
  /\ UNCHANGED result

\* The newline after an empty line: good.  What is left of the chunk is not looked at.
Complete ==
  /\ More
  /\ state_ = "expecting_newline_3" /\ input[pos + 1] = "LF"
  /\ result' = "good"
  /\ Advance
  /\ UNCHANGED <<state_, req>>

\* Any other character: bad.
Reject ==
  /\ More
  /\ Takes(input[pos + 1]) = {}
  /\ ~(state_ = "expecting_newline_3" /\ input[pos + 1] = "LF")
  /\ result' = "bad"
  /\ Advance
  /\ UNCHANGED <<state_, req>>

\* Mutant: the connection resets the parser before every read.
ReadChunkResets(n) ==
  /\ result = "indeterminate" /\ left = 0 /\ n <= Len(input) - pos
  /\ left' = n
  /\ state_' = "method_start"
  /\ UNCHANGED <<input, pos, req, result>>

\* The chunk is used up without a verdict: the next read brings n characters.
ReadChunk(n) ==
  /\ result = "indeterminate" /\ left = 0 /\ n <= Len(input) - pos
  /\ left' = n
  /\ UNCHANGED <<input, pos, state_, req, result>>

Next == Consume \/ Complete \/ Reject \/ \E n \in ChunkSizes : ReadChunk(n)

Spec == Init /\ [][Next]_vars

-----------------------------------------------------------------------------
(* Properties *)

\* headers.back() is called only when there is a header to push to, folded lines included
\* (request_parser.cpp 127, 148, 158, 175).
BackIsSafe ==
  state_ \in {"header_lws", "header_name", "space_before_header_value", "header_value",
              "expecting_newline_2"} => req.headers # <<>>

\* Whatever has been parsed so far has no empty method and no header without a name
\* (request_parser.cpp 15-22, 123-137).
NamesNotEmpty ==
  /\ state_ # "method_start" => req.method # <<>>
  /\ \A i \in 1..Len(req.headers) : req.headers[i].name # <<>>
=============================================================================
