--------------------------- MODULE RequestHandler ---------------------------
(***************************************************************************)
(* http_server/request_handler.cpp and mime_types.cpp: from the uri of a   *)
(* parsed request to the reply.  url_decode is stepped through one         *)
(* iteration of its loop at a time, and so is the loop that reads the      *)
(* file.  What the file system holds under a path is left open: nothing,   *)
(* a directory (which opens, and reads as empty) or a file of some size.   *)
(*                                                                         *)
(* A character is its code.  The parser lets no space or control character *)
(* into a uri, so the stream extraction never meets white space to skip.   *)
(***************************************************************************)
EXTENDS Naturals, Sequences, FiniteSets, Reply

CONSTANTS
  Uris,      \* the uris a parsed request may have
  Sizes,     \* bound: the sizes of files
  BufSize    \* sizeof(buf), 512 in the code

Byte == 0..255

ASSUME UrisAssumption == Uris \subseteq Seq(Byte \ {32})
ASSUME SizesAssumption == Sizes \subseteq Nat
ASSUME BufSizeAssumption == BufSize \in Nat \ {0}

Percent == 37
Plus    == 43
Minus   == 45
Dot     == 46
Slash   == 47
Space   == 32
Zero    == 48
LetterX == {88, 120}
IndexHtml == <<105, 110, 100, 101, 120, Dot, 104, 116, 109, 108>>

VARIABLES
  uri,            \* req.uri
  i,              \* url_decode's index, from 0
  request_path,   \* url_decode's out, then the path with index.html added
  pc,             \* "decode", "read", "done"
  opened,         \* the name given to ifstream, without doc_root_
  extension,      \* handle_request's extension
  size,           \* the size of what was opened
  rep             \* connection::reply_

vars == <<uri, i, request_path, pc, opened, extension, size, rep>>

\* A reply before anything is stored in it.
FreshReply == [status |-> "none", content |-> <<>>, headers |-> <<>>]

TypeOK ==
  /\ uri \in Seq(Byte)
  /\ i \in 0..Len(uri)
  /\ request_path \in Seq(Byte)
  /\ pc \in {"decode", "read", "done"}
  /\ opened \in Seq(Byte \ {0})
  /\ extension \in Seq(Byte)
  /\ size \in Nat
  /\ rep.status \in {"none", "ok", "bad_request", "not_found"}

Init ==
  /\ uri \in Uris
  /\ i = 0
  /\ request_path = <<>>
  /\ pc = "decode"
  /\ opened = <<>>
  /\ extension = <<>>
  /\ size = 0
  /\ rep = FreshReply

-----------------------------------------------------------------------------
(* url_decode *)

HexValue(c) == CASE c \in 48..57  -> c - 48
                 [] c \in 65..70  -> c - 55
                 [] c \in 97..102 -> c - 87
IsHex(c) == c \in 48..57 \cup 65..70 \cup 97..102

\* Whether "is >> std::hex >> value" succeeds on the two characters a b, and with what
\* value as a char: two hex digits, one followed by anything, or a sign and one; but "0x"
\* is a prefix without digits.
Extracts(a, b) == \/ IsHex(a) /\ ~(a = Zero /\ b \in LetterX)
                  \/ a \in {Plus, Minus} /\ IsHex(b)
Extracted(a, b) == CASE IsHex(a) /\ IsHex(b)  -> 16 * HexValue(a) + HexValue(b)
                     [] IsHex(a) /\ ~IsHex(b) -> HexValue(a)
                     [] a = Plus  -> HexValue(b)
                     [] a = Minus -> (256 - HexValue(b)) % 256

Fails(status) ==
  /\ rep' = StockReply(status)
  /\ pc' = "done"
  /\ UNCHANGED <<uri, i, opened, extension, size>>

Decoding == pc = "decode" /\ i < Len(uri)

\* in[i + k]; after the last character, where substr is cut short, nothing: a 0.
At(k) == IF i + k < Len(uri) THEN uri[i + k + 1] ELSE 0

\* Mutant: an escape of one digit at the end is taken.
AlmostWhole == i + 2 <= Len(uri)

\* Both digits are inside the uri.
Whole == i + 3 <= Len(uri)

\* i += 2, and the loop's i++
PastEscape == i + 3

\* An escape.
DecodeEscape ==
  /\ Decoding /\ At(0) = Percent
  /\ Whole /\ Extracts(At(1), At(2))
  /\ request_path' = Append(request_path, Extracted(At(1), At(2)))
  /\ i' = PastEscape
  /\ UNCHANGED <<uri, pc, opened, extension, size, rep>>

\* An escape that is cut off or not a number: url_decode returns false.
DecodeFails ==
  /\ Decoding /\ At(0) = Percent
  /\ ~(Whole /\ Extracts(At(1), At(2)))
  /\ Fails("bad_request")
  /\ UNCHANGED request_path

\* Any other character; "+" stands for a space.
DecodePlain ==
  /\ Decoding /\ At(0) # Percent
  /\ request_path' = Append(request_path, IF At(0) = Plus THEN Space ELSE At(0))
  /\ i' = i + 1
  /\ UNCHANGED <<uri, pc, opened, extension, size, rep>>

-----------------------------------------------------------------------------
(* handle_request *)

Decoded == pc = "decode" /\ i >= Len(uri)

\* Mutant: the search for ".." is left out.
UsableAnyDots(p) == p # <<>> /\ p[1] = Slash

\* The path is not empty, starts with "/" and contains no "..".
Usable(p) == /\ p # <<>> /\ p[1] = Slash
             /\ ~ \E k \in 1..(Len(p) - 1) : p[k] = Dot /\ p[k + 1] = Dot

WithIndex(p) == IF p[Len(p)] = Slash THEN p \o IndexHtml ELSE p

\* find_last_of, 0 for npos
LastOf(p, c) == LET P == {k \in 1..Len(p) : p[k] = c}
                IN  IF P = {} THEN 0 ELSE CHOOSE k \in P : \A j \in P : j <= k

\* Mutant: substr(last_dot_pos), the dot included.
ExtensionWithDot(p) == IF LastOf(p, Dot) # 0 /\ LastOf(p, Dot) > LastOf(p, Slash)
                       THEN SubSeq(p, LastOf(p, Dot), Len(p)) ELSE <<>>

Extension(p) == IF LastOf(p, Dot) # 0 /\ LastOf(p, Dot) > LastOf(p, Slash)
                THEN SubSeq(p, LastOf(p, Dot) + 1, Len(p)) ELSE <<>>

\* c_str(): the name ends at the first 0.
CString(p) == LET Z == {k \in 1..Len(p) : p[k] = 0}
              IN  IF Z = {} THEN p ELSE SubSeq(p, 1, (CHOOSE k \in Z : \A j \in Z : k <= j) - 1)

\* mime_types::extension_to_type
Gif  == <<103, 105, 102>>
Htm  == <<104, 116, 109>>
Html == <<104, 116, 109, 108>>
Jpg  == <<106, 112, 103>>
Png  == <<112, 110, 103>>
Mappings == {<<Gif, "image/gif">>, <<Htm, "text/html">>, <<Html, "text/html">>,
             <<Jpg, "image/jpeg">>, <<Png, "image/png">>}
ExtensionToType(e) == IF \E m \in Mappings : m[1] = e
                      THEN (CHOOSE m \in Mappings : m[1] = e)[2] ELSE "text/plain"

RefusePath ==
  /\ Decoded /\ ~Usable(request_path)
  /\ Fails("bad_request")
  /\ UNCHANGED request_path

\* The path is completed and the file opened, or not found.
OpenFile ==
  /\ Decoded /\ Usable(request_path)
  /\ request_path' = WithIndex(request_path)
  /\ extension' = Extension(request_path')
  /\ opened' = CString(request_path')
  /\ \/ /\ size' \in Sizes \cup {0}
        /\ pc' = "read"
        /\ rep' = [rep EXCEPT !.status = "ok"]
     \/ /\ rep' = StockReply("not_found")
        /\ pc' = "done"
        /\ UNCHANGED size
  /\ UNCHANGED <<uri, i>>

\* What is.read(buf, sizeof(buf)) brings: the bytes of a file are numbered.
Gcount == IF size - Len(rep.content) < BufSize THEN size - Len(rep.content) ELSE BufSize

ReadSome ==
  /\ pc = "read" /\ Gcount > 0
  /\ rep' = [rep EXCEPT !.content = rep.content \o [k \in 1..Gcount |-> Len(rep.content) + k]]
  /\ UNCHANGED <<uri, i, request_path, pc, opened, extension, size>>

\* gcount() is 0: the headers are filled in.
ReadEnd ==
  /\ pc = "read" /\ Gcount = 0
  /\ rep' = [rep EXCEPT !.headers =
               <<HeaderField("Conetent-Length", Len(rep.content)),
                 HeaderField("Content-type", ExtensionToType(extension))>>]
  /\ pc' = "done"
  /\ UNCHANGED <<uri, i, request_path, opened, extension, size>>

Next == \/ DecodeEscape \/ DecodeFails \/ DecodePlain
        \/ RefusePath \/ OpenFile \/ ReadSome \/ ReadEnd

Spec == Init /\ [][Next]_vars

-----------------------------------------------------------------------------
(* Reference definitions *)

\* Every "%" is followed by two hex digits.
WellFormed(u) == \A k \in 1..Len(u) : u[k] = Percent => /\ k + 2 <= Len(u)
                                                        /\ IsHex(u[k + 1]) /\ IsHex(u[k + 2])

\* A "%" at k that cannot be the second or third character of an escape, and is followed by
\* less than two characters or by two that are no number.
BadAt(u, k) == /\ u[k] = Percent
               /\ ~(k > 1 /\ u[k - 1] = Percent) /\ ~(k > 2 /\ u[k - 2] = Percent)
               /\ k + 2 <= Len(u) => ~Extracts(u[k + 1], u[k + 2])
BadEscape(u) == \E k \in 1..Len(u) : BadAt(u, k)

\* The places of u that are not digits of an escape, and what each stands for.
Starts(u) == {k \in 1..Len(u) : ~(k > 1 /\ u[k - 1] = Percent) /\ ~(k > 2 /\ u[k - 2] = Percent)}
Stands(u, k) == CASE u[k] = Percent -> 16 * HexValue(u[k + 1]) + HexValue(u[k + 2])
                  [] u[k] = Plus    -> Space
                  [] OTHER          -> u[k]
Rank(u, k) == Cardinality({j \in Starts(u) : j <= k})
Reference(u) == [n \in 1..Rank(u, Len(u)) |-> Stands(u, CHOOSE k \in Starts(u) : Rank(u, k) = n)]

\* The type that goes with the last part of a path, from a dot on.
Segments(p) == {SubSeq(p, k + 1, Len(p)) : k \in {j \in 1..Len(p) : p[j] = Slash}}
LastSegment(p) == CHOOSE s \in Segments(p) : \A t \in Segments(p) : Len(s) <= Len(t)
EndsIn(s, e) == \E d \in 1..Len(s) : s[d] = Dot /\ SubSeq(s, d + 1, Len(s)) = e
TypeOf(p) ==
  LET s == LastSegment(p)
  IN  CASE EndsIn(s, Gif)                    -> "image/gif"
        [] EndsIn(s, Htm) \/ EndsIn(s, Html) -> "text/html"
        [] EndsIn(s, Jpg)                    -> "image/jpeg"
        [] EndsIn(s, Png)                    -> "image/png"
        [] OTHER                             -> "text/plain"

-----------------------------------------------------------------------------
(* Properties *)

\* A well-formed uri is never refused for its escapes and is decoded character by character
\* as the reference does.  One with an escape that is cut off by its end or is no number is
\* refused wherever that is, whatever was decoded before it, and nothing is opened
\* (request_handler.cpp 15-18, 54-78).
DecodesOrRefuses ==
  /\ WellFormed(uri) => /\ Decoded => request_path = Reference(uri)
                        /\ pc = "done" => i >= Len(uri)
  /\ BadEscape(uri) => /\ ~Decoded /\ opened = <<>>
                       /\ pc # "decode" => pc = "done" /\ rep.status = "bad_request"

\* An ok reply carries every byte of the file once and in order, for sizes below, at and
\* above a multiple of the buffer, and says so in its length; its type is that of the last
\* part of the path asked for, index.html included, where a dot in a directory's name does
\* not count, and differs from that of the file opened only if a zero byte cut the name
\* short (request_handler.cpp 26-52).
OkReplyIsTheFile ==
  pc = "done" /\ rep.status = "ok" =>
    /\ rep.content = [k \in 1..size |-> k]
    /\ rep.headers[1].value = size
    /\ rep.headers[2].value = TypeOf(request_path)
    /\ \/ rep.headers[2].value = TypeOf(opened)
       \/ \E k \in 1..Len(request_path) : request_path[k] = 0

\* Cut at the slashes: whatever was escaped in the uri, and wherever index.html or the end
\* of a C string changed the name, the name opened starts at doc_root_ and none of its
\* parts is ".." (request_handler.cpp 16-39).
OpenedInsideRoot ==
  opened # <<>> =>
    /\ opened[1] = Slash
    /\ ~ \E k \in 1..(Len(opened) - 2) :
           /\ SubSeq(opened, k, k + 2) = <<Slash, Dot, Dot>>
           /\ k + 3 > Len(opened) \/ opened[k + 3] = Slash

\* A client that reads the buffers as a stream, status line, header lines up to the first
\* empty line, then the content, gets back the reply (reply.cpp 81-94).
ClientReadsReply ==
  pc = "done" =>
    LET b == ToBuffers(rep)
    IN  /\ b[1] = StatusLine(rep.status)
        /\ \E n \in 1..((Len(b) - 3) \div 4) :
             /\ b[4 * n + 2] = "crlf"
             /\ \A k \in 1..n : /\ b[4 * k - 2] # "crlf"
                                /\ b[4 * k - 1] = "name_value_separator"
                                /\ b[4 * k + 1] = "crlf"
             /\ rep.headers = [k \in 1..n |-> HeaderField(b[4 * k - 2], b[4 * k])]
             /\ Len(b) = 4 * n + 3 /\ b[4 * n + 3] = rep.content
             /\ b[4] = Len(rep.content)
=============================================================================
