-------------------------- MODULE MCRequestParser --------------------------
(***************************************************************************)
(* RequestParser on requests with every feature of the grammar, and on     *)
(* everything one edit away from them: one character replaced, removed or  *)
(* added at any place.                                                     *)
(***************************************************************************)
EXTENDS RequestGrammar, SequencesExt

Version == <<"H", "T", "T", "P", "/", "1", ".", "1">>
CRLF == <<"CR", "LF">>

\* The shortest request: a one-letter method and an empty uri.
Shortest == <<"a", "SP", "SP">> \o Version \o CRLF \o CRLF

\* A long version, an empty header value, and a second request behind the first.
Pipelined ==
  <<"T", "a", "SP", "/", "high", "SP">> \o <<"H", "T", "T", "P", "/", "1", "0", ".", "0", "1">>
    \o CRLF \o <<"a", ":", "SP">> \o CRLF \o CRLF \o <<"a", "SP">>

\* Two headers, the first folded twice, once with nothing but white space.
Folded ==
  <<"a", "SP", "/", "SP">> \o Version \o CRLF
    \o <<"a", "1", ":", "SP", "SP", ":">> \o CRLF \o <<"HT", "SP", "a", "SP", "a">> \o CRLF
    \o <<"SP">> \o CRLF \o <<"P", ":", "SP", "0">> \o CRLF \o CRLF

Edits(t) ==
  {t} \cup {ReplaceAt(t, i, c) : i \in 1..Len(t), c \in Char}
      \cup {RemoveAt(t, i) : i \in 1..Len(t)}
      \cup {InsertAt(t, i, c) : i \in 1..Len(t), c \in Char}

MCInputs == Edits(Shortest) \cup Edits(Pipelined) \cup Edits(Folded)
=============================================================================
