----------------------------- MODULE ChatFraming -----------------------------
(***************************************************************************)
(* boost_chat/chat_message.hpp and the reads that fill one: the bytes of   *)
(* one sender, the session of chat_server.cpp that cuts them into messages *)
(* and relays them, and a chat_client.cpp that reads what is relayed.      *)
(*                                                                         *)
(* The sender is left open: chat_client never calls encode_header, so the  *)
(* header it sends is whatever its stack held.  The session's body read    *)
(* asks for length() bytes, HeaderLength more than the body has.  They lie *)
(* behind the message in data_, and are not relayed; with the longest body *)
(* they end in the padding between data_ and body_length_.                 *)
(***************************************************************************)
EXTENDS Naturals, SequencesExt

CONSTANTS
  HeaderLength,   \* chat_message::header_length
  MaxBody,        \* chat_message::max_body_length
  Pad,            \* the bytes between data_ and body_length_ in the object
  Bytes,          \* the values of a byte
  Inputs          \* the byte sequences a sender may send

ASSUME FramingAssumption ==
  /\ HeaderLength \in Nat \ {0} /\ MaxBody \in Nat /\ Pad \in Nat
  /\ Inputs \subseteq Seq(Bytes)

VARIABLES
  input,          \* all that the sender sends
  taken,          \* how much of it the session has read
  session,        \* what the session is reading, "left" once it has left the room
  data_,          \* read_msg_.data_ of the session
  body_length_,   \* read_msg_.body_length_ of the session
  delivered,      \* the messages handed to the room, each as the bytes do_write sends
  relayed,        \* those bytes in a row, as every participant is sent them
  from,           \* history: where in the input each message begins
  client,         \* what the client is reading, "closed" once it has given up
  clientLength,   \* read_msg_.body_length_ of the client
  seen,           \* how much of the relayed bytes the client has read
  printed         \* the bodies it has printed

server == <<input, taken, session, data_, body_length_, delivered, relayed, from>>
reader == <<client, clientLength, seen, printed>>
framingVars == <<server, reader>>

Size == HeaderLength + MaxBody

\* "?" is a byte of an object that is not initialized; none is ever relayed.
FramingTypeOK ==
  /\ input \in Inputs /\ taken \in 0..Len(input)
  /\ session \in {"header", "body", "left"}
  /\ data_ \in [1..Size -> Bytes \cup {"?"}]
  /\ body_length_ \in 0..MaxBody
  /\ delivered \in Seq(Seq(Bytes)) /\ relayed \in Seq(Bytes)
  /\ from \in Seq(Nat) /\ Len(from) = Len(delivered)
  /\ client \in {"header", "body", "closed"}
  /\ clientLength \in 0..MaxBody
  /\ seen \in 0..Len(relayed)
  /\ printed \in Seq(Seq(Bytes))

\* Bytes: digits, blanks, signs, and everything else, which all counts alike.
Digits == <<"0", "1", "2", "3", "4", "5", "6", "7", "8", "9">>
DigitValue(c) == CHOOSE v \in 0..9 : Digits[v + 1] = c

\* atoi: the number after any blanks and a sign, up to the first byte that is no digit.
Atoi(h) ==
  LET lead   == Max({k \in 0..Len(h) : \A j \in 1..k : h[j] = " "})
      signed == lead < Len(h) /\ h[lead + 1] \in {"-", "+"}
      start  == IF signed THEN lead + 1 ELSE lead
      stop   == Max({k \in start..Len(h) : \A j \in start + 1..k : h[j] \in ToSet(Digits)})
      Shift(n, c) == 10 * n + DigitValue(c)
  IN  [minus |-> signed /\ h[lead + 1] = "-",
       value |-> FoldLeft(Shift, 0, SubSeq(h, start + 1, stop))]

\* A negative number becomes a huge size_t: it is refused as too long.
Accepts(h) ==
  LET a == Atoi(h) IN a.value \in 0..MaxBody /\ (a.minus => a.value = 0)

DecodeHeader(h) == IF Accepts(h) THEN Atoi(h).value ELSE 0

\* Nothing is read yet.
FramingInit ==
  /\ input \in Inputs
  /\ taken = 0
  /\ session = "header"
  /\ data_ = [k \in 1..Size |-> "?"]
  /\ body_length_ = 0
  /\ delivered = <<>>
  /\ relayed = <<>>
  /\ from = <<>>
  /\ client = "header"
  /\ clientLength = 0
  /\ seen = 0
  /\ printed = <<>>

-----------------------------------------------------------------------------
(* The session *)

\* data_ after an async_read of n bytes to the given offset; what lies beyond is not ours.
Filled(offset, n) ==
  [k \in 1..Size |-> IF k \in offset + 1..offset + n THEN input[taken + k - offset] ELSE data_[k]]

\* do_read_header
ReadHeader ==
  /\ session = "header" /\ taken + HeaderLength <= Len(input)
  /\ taken' = taken + HeaderLength
  /\ data_' = Filled(0, HeaderLength)
  /\ body_length_' = DecodeHeader(SubSeq(data_', 1, HeaderLength))
  /\ session' = IF Accepts(SubSeq(data_', 1, HeaderLength)) THEN "body" ELSE "left"
  /\ UNCHANGED <<input, delivered, relayed, from, reader>>

\* Mutant: the header is taken off the length instead of added to it.
AskedTooLittle == IF body_length_ > HeaderLength THEN body_length_ - HeaderLength ELSE 0

\* read_msg_.length(), which the session reads to body()
Asked == HeaderLength + body_length_

\* do_read_body: a read past the padding would replace body_length_.
ReadBody ==
  /\ session = "body" /\ taken + Asked <= Len(input)
  /\ taken' = taken + Asked
  /\ data_' = Filled(HeaderLength, Asked)
  /\ body_length_' \in IF Asked > MaxBody + Pad THEN 0..MaxBody ELSE {body_length_}
  /\ delivered' = Append(delivered, SubSeq(data_', 1, HeaderLength + body_length_'))
  /\ relayed' = relayed \o SubSeq(data_', 1, HeaderLength + body_length_')
  /\ from' = Append(from, taken - HeaderLength)
  /\ session' = "header"
  /\ UNCHANGED <<input, reader>>

\* The sender closes or its connection fails: the session leaves.
ReadFails ==
  /\ session # "left"
  /\ session' = "left"
  /\ UNCHANGED <<input, taken, data_, body_length_, delivered, relayed, from, reader>>

-----------------------------------------------------------------------------
(* The client that reads the relayed messages *)

Following(n) == SubSeq(relayed, seen + 1, seen + n)

\* do_read_header
ClientHeader ==
  /\ client = "header" /\ seen + HeaderLength <= Len(relayed)
  /\ seen' = seen + HeaderLength
  /\ clientLength' = DecodeHeader(Following(HeaderLength))
  /\ client' = IF Accepts(Following(HeaderLength)) THEN "body" ELSE "closed"
  /\ UNCHANGED <<server, printed>>

\* Mutant: the client asks for length() as the session does.
ClientAskedLength == HeaderLength + clientLength

\* read_msg_.body_length()
ClientAsked == clientLength

\* do_read_body
ClientBody ==
  /\ client = "body" /\ seen + ClientAsked <= Len(relayed)
  /\ seen' = seen + ClientAsked
  /\ printed' = Append(printed, Following(ClientAsked))
  /\ client' = "header"
  /\ UNCHANGED <<server, clientLength>>

FramingNext == ReadHeader \/ ReadBody \/ ReadFails \/ ClientHeader \/ ClientBody

FramingSpec == FramingInit /\ [][FramingNext]_framingVars

-----------------------------------------------------------------------------
(* Properties *)

\* Every message that is relayed is a run of bytes as the sender sent them, with the header
\* that announced it in front and no byte of an earlier message in the same data_ behind it;
\* messages do not overlap, and the read behind the longest body leaves body_length_ alone
\* (chat_message.hpp 36-45, 52-53; chat_server.cpp 62-86).
DeliveredAsSent ==
  \A k \in 1..Len(delivered) :
    LET m == delivered[k]
    IN  /\ m = SubSeq(input, from[k] + 1, from[k] + Len(m))
        /\ Accepts(SubSeq(m, 1, HeaderLength))
        /\ Len(m) = HeaderLength + DecodeHeader(SubSeq(m, 1, HeaderLength))
        /\ k > 1 => from[k] >= from[k - 1] + Len(delivered[k - 1])

\* Whatever the sender sent, the client stays in step with the session: it never refuses a
\* header and prints the bodies of the relayed messages, one for one and in order
\* (chat_server.cpp 87-97, chat_client.cpp 43-73).
ClientInStep ==
  /\ client # "closed"
  /\ Len(printed) <= Len(delivered)
  /\ \A k \in 1..Len(printed) :
       printed[k] = SubSeq(delivered[k], HeaderLength + 1, Len(delivered[k]))
=============================================================================
