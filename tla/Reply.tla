-------------------------------- MODULE Reply --------------------------------
(***************************************************************************)
(* http_server/reply.{hpp,cpp}: replies, the stock replies, and their      *)
(* conversion to the buffers that async_write sends one after the other.   *)
(* The wording of status lines and pages is abstracted to the status they  *)
(* belong to; a content is a sequence of bytes or of such words.           *)
(***************************************************************************)
EXTENDS Naturals, Sequences

Statuses == {"ok", "created", "accepted", "no_content", "multiple_choices", "moved_permanently",
             "moved_temporarily", "not_modified", "bad_request", "unauthorized", "forbidden",
             "not_found", "internal_server_error", "not_implemented", "bad_gateway",
             "service_unavailable"}

\* status_strings::to_buffer
StatusLine(status) == <<"status line", IF status \in Statuses THEN status ELSE "internal_server_error">>

\* stock_replies::to_string: the page of a status; the one of ok is empty.
StockContent(status) == IF status = "ok" THEN <<>> ELSE <<"page", status>>

HeaderField(name, value) == [name |-> name, value |-> value]

\* reply::stock_reply
StockReply(status) ==
  [status  |-> status,
   content |-> StockContent(status),
   headers |-> <<HeaderField("Content-Length", Len(StockContent(status))),
                 HeaderField("Content-Type", "test/html")>>]

\* Mutant: the empty line between headers and content is missing.
NoEmptyLine == <<>>

EmptyLine == <<"crlf">>

\* reply::to_buffers: the status line (which has its own line end), four buffers for each
\* header, an empty line, the content.
ToBuffers(rep) ==
  LET H == rep.headers
  IN  <<StatusLine(rep.status)>>
      \o [k \in 1..(4 * Len(H)) |->
            LET h == H[((k - 1) \div 4) + 1]
            IN  CASE k % 4 = 1 -> h.name
                  [] k % 4 = 2 -> "name_value_separator"
                  [] k % 4 = 3 -> h.value
                  [] OTHER     -> "crlf"]
      \o EmptyLine \o <<rep.content>>
=============================================================================
