---------------------------- MODULE HttpReceive ----------------------------
(***************************************************************************)
(* receive_from_server (helpers.cpp) and the buffer it fills (buffer.cpp): *)
(* one HTTP response read from a connection that hands it over in pieces,  *)
(* may break it off, and may stay open when the response is over.          *)
(* A response is a sequence of tokens of one unit of length each.  Where   *)
(* it is cut inside a token, the token counts as not there yet: so it is   *)
(* for every search, the tokens being chosen for that.                     *)
(***************************************************************************)
EXTENDS Integers, Sequences, FiniteSetsExt

CONSTANTS BUFLEN  \* what one read takes at most

ASSUME HttpAssumption == BUFLEN \in Nat \ {0}

VARIABLES
  stage,           \* "idle", "header" and "body" (the two loops), "returned"
  text,            \* the response the service sent
  sent,            \* how much of it reaches the client, in the end
  closed,          \* has the service's end of the connection been closed?
  buffer, header_end, content_length

httpVars == <<stage, text, sent, closed, buffer, header_end, content_length>>

\* Tokens: "\r\n" (nl), the two status lines looked for, a Set-Cookie line up
\* to its ";", the field name Content-Length in any case, numbers, and JSON:
\* ":" is what stands between a name and the value in quotes, up to the
\* opening quote, and "value" ends with the closing one.
HEADER_TERMINATOR == <<"nl", "nl">>
CONTENT_LENGTH == <<"Content-Length">>
MaxLength == 9     \* bound: the longest body
Number == <<"0", "1", "2", "3", "4", "5", "6", "7", "8", "9">>

\* A body with a token or an error in it, a book whose title mentions the
\* field, no body, and one that is not JSON.
Bodies == [data |-> <<"{", "token", ":", "value", "}">>, error |-> <<"{", "error", "}">>,
           mention |-> <<"{", "Content-Length", "1", "}">>,
           empty |-> <<>>, page |-> <<"text">>]
Response == [ok : BOOLEAN, cookie : BOOLEAN, length : BOOLEAN, body : DOMAIN Bodies]

Text(r) ==
  LET body == Bodies[r.body]
  IN  <<IF r.ok THEN "200" ELSE "400", "nl">>
      \o (IF r.cookie THEN <<"cookie", "nl">> ELSE <<>>)
      \o (IF r.length THEN <<"Content-Length", Number[Len(body) + 1], "nl">> ELSE <<>>)
      \o <<"nl">> \o body

HttpInit ==
  /\ stage = "idle"
  /\ text = <<>>
  /\ sent = 0
  /\ closed = FALSE
  /\ buffer = <<>>
  /\ header_end = 0
  /\ content_length = 0

-----------------------------------------------------------------------------
(* The service and the network.                                            *)

\* The request is written, and receive_from_server begins: this much of the
\* response r will arrive.
Respond(r) ==
  /\ stage = "idle"
  /\ stage' = "header"
  /\ text' = Text(r)
  /\ sent' \in 0..Len(text')
  /\ closed' = (sent' < Len(text'))
  /\ UNCHANGED <<buffer, header_end, content_length>>

\* An idle connection is closed at some time, or never.
Close ==
  /\ stage \in {"header", "body"}
  /\ ~closed
  /\ closed' = TRUE
  /\ UNCHANGED <<stage, text, sent, buffer, header_end, content_length>>

-----------------------------------------------------------------------------
(* The client.                                                             *)

\* buffer_find and buffer_find_insensitive: the first place, from 0, or -1.
buffer_find(data, what) ==
  LET at == {i \in 0..(Len(data) - Len(what)) : SubSeq(data, i + 1, i + Len(what)) = what}
  IN  IF at = {} THEN -1 ELSE Min(at)

\* What strtol may read after place i: past the end of the buffer, anything.
strtol(data, i) ==
  IF i = Len(data) THEN 0..MaxLength
  ELSE {Max({n \in 0..MaxLength : n = 0 \/ Number[n + 1] = data[i + 1]})}

\* read returns some of what there is, and buffer_add appends it.
Read ==
  \E n \in 1..BUFLEN :
    /\ Len(buffer) + n <= sent
    /\ buffer' = SubSeq(text, 1, Len(buffer) + n)
AtEnd == Len(buffer) = sent /\ closed

\* A turn of the first loop.  Without the field it goes on to the end.
ReadHeader ==
  /\ stage = "header"
  /\ Read
  /\ LET terminator == buffer_find(buffer', HEADER_TERMINATOR)
         start == buffer_find(buffer', CONTENT_LENGTH)
     IN  /\ header_end' = IF terminator < 0 THEN -1
                          ELSE terminator + Len(HEADER_TERMINATOR)
         /\ IF terminator < 0 \/ start < 0
            THEN UNCHANGED <<stage, content_length>>
            ELSE /\ content_length' \in strtol(buffer', start + Len(CONTENT_LENGTH))
                 /\ stage' = "body"
  /\ UNCHANGED <<text, sent, closed>>

ReadHeaderEnd ==
  /\ stage = "header"
  /\ AtEnd
  /\ stage' = "body"
  /\ UNCHANGED <<text, sent, closed, buffer, header_end, content_length>>

\* The second loop's condition.  A header_end of -1 is SIZE_MAX as a size_t.
MissingBody == header_end < 0 \/ Len(buffer) < content_length  \* mutant
Missing == header_end < 0 \/ Len(buffer) < content_length + header_end

ReadBody ==
  /\ stage = "body"
  /\ Missing
  /\ Read
  /\ UNCHANGED <<stage, text, sent, closed, header_end, content_length>>

ReturnWhole ==      \* mutant: does not look at the result of read
  /\ stage = "body"
  /\ ~Missing
  /\ stage' = "returned"
  /\ UNCHANGED <<text, sent, closed, buffer, header_end, content_length>>
Return ==
  /\ stage = "body"
  /\ ~Missing \/ AtEnd
  /\ stage' = "returned"
  /\ UNCHANGED <<text, sent, closed, buffer, header_end, content_length>>

\* The caller has looked at the response and closed the connection.
Reset ==
  /\ stage' = "idle"
  /\ text' = <<>>
  /\ sent' = 0
  /\ closed' = FALSE
  /\ buffer' = <<>>
  /\ header_end' = 0
  /\ content_length' = 0

Receive == ReadHeader \/ ReadHeaderEnd \/ ReadBody \/ Return

-----------------------------------------------------------------------------
HeaderLength == buffer_find(text, HEADER_TERMINATOR)
LengthInHeader == buffer_find(text, CONTENT_LENGTH) \in 0..HeaderLength
LengthIsClear == LengthInHeader \/ buffer_find(text, CONTENT_LENGTH) = -1

\* However the network cuts it, the whole response is read, its header found
\* where it is, unless the connection was broken off or a body that mentions
\* "Content-Length: " stands in for a header that does not.
WholeResponse ==
  stage = "returned" /\ sent = Len(text) /\ LengthIsClear =>
    buffer = text /\ header_end = HeaderLength + Len(HEADER_TERMINATOR)

\* With a Content-Length the client goes on when all has arrived, though the
\* service keeps the connection open; in any case it does at its end.
Answered ==
  stage # "idle" /\ (closed \/ (sent = Len(text) /\ LengthInHeader)) ~> stage = "idle"

=============================================================================
