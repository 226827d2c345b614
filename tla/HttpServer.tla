----------------------------- MODULE HttpServer -----------------------------
(***************************************************************************)
(* HttpServer::on_message() and HttpParser::parse_request() (directory     *)
(* http/) on one connection.  The client's bytes arrive in segments that   *)
(* need not be requests; each segment is one call of on_message(), which   *)
(* leaves in the connection's input buffer what it does not consume.       *)
(*                                                                         *)
(* A byte string is a sequence of tokens: the text of a request line or of *)
(* a header, "cr", "lf", or any other text.  A text is one token because   *)
(* the parser looks at a line only when its CRLF is there.                 *)
(***************************************************************************)
EXTENDS Naturals, Sequences, SequencesExt

CONSTANTS
  Texts,    \* what a line can say, and what a body can hold besides CR and LF
  LengthOf, \* the Content-Length header texts, and the lengths they give
  Usages  \* how a client may send and how parse_request() may be called:
          \*  - script: the requests the client sends;
          \*  - keep_request: TRUE when the caller keeps its HttpRequest
          \*    between the calls of parse_request() that one request takes,
          \*    as the parser's tests do; FALSE for HttpServer's
          \*    on_message(), whose HttpRequest is local to the call;
          \*  - whole_segments: does a segment end only where a request ends?
          \*  - pipelined: does the client send on before it has its answer?
          \*  - keep_alive_enabled_: of the server;
          \*  - handler: the calls http_callback_ makes on the response

Response == INSTANCE HttpResponse

(***************************************************************************)
(* The texts the parser accepts: every other line is an error.  The method *)
(* decides nothing in the server; of the versions, HTTP/1.0 and HTTP/2.0   *)
(* go the same way.                                                        *)
(***************************************************************************)
Lines_1_1 == {"GET 1.1", "POST 1.1", "HEAD 1.1"}
RequestLines == Lines_1_1 \cup {"GET 1.0", "GET 2.0"}
HeaderTexts == DOMAIN LengthOf \cup {"hdr", "close", "keep-alive"}
CRLF == <<"cr", "lf">>
Tokens == Texts \cup {"cr", "lf"}

(***************************************************************************)
(* A request, its bytes, and where the i-th request of a script ends.      *)
(***************************************************************************)
Requests == [line : Texts, headers : Seq(Texts), body : Seq(Tokens)]

Encode(r) == <<r.line>> \o CRLF
               \o FlattenSeq([i \in DOMAIN r.headers |-> <<r.headers[i]>> \o CRLF])
               \o CRLF \o r.body

Stream(requests) == FlattenSeq([i \in DOMAIN requests |-> Encode(requests[i])])
End(requests, i) == Len(Stream(SubSeq(requests, 1, i)))

VARIABLES
  usage,      \* what this client sends, and how
  arrived,    \* how much of Stream(script) has been read from the socket
  buffer,     \* the connection's input buffer
  pc,         \* "wait" for data, in the loop of "parse", or what it returns
  request,    \* the HttpRequest being filled
  parser,     \* has_error_ and content_length_
  conn,       \* the connection's state_
  served,     \* history: requests given to http_callback_
  replies     \* history: responses the connection accepted

vars == <<usage, arrived, buffer, pc, request, parser, conn, served, replies>>

script == usage.script
answered == Len(replies)

FreshRequest == [state |-> "PARSE_REQUEST_LINE", line |-> "", headers |-> << >>,
                 body |-> << >>]
FreshParser == [has_error_ |-> FALSE, content_length_ |-> 0]

(***************************************************************************)
(* on_connection() gives the connection its parser; when it has run before *)
(* the connection was CONNECTED, the first on_message() does.              *)
(***************************************************************************)
Init ==
  /\ usage \in Usages
  /\ arrived = 0 /\ buffer = << >>
  /\ pc = "wait"
  /\ request = FreshRequest /\ parser = FreshParser
  /\ conn = "CONNECTED"
  /\ served = << >> /\ replies = << >>

-----------------------------------------------------------------------------
(* HttpRequest.                                                            *)

(***************************************************************************)
(* headers_ keeps the values of one field in the order they were added:    *)
(* add_header() joins them with commas, get_header() returns the joined    *)
(* value, here the places of the values it is joined from.  The field      *)
(* names are compared in lower case; a text stands for all its spellings.  *)
(***************************************************************************)
add_header(r, text) == [r EXCEPT !.headers = Append(@, text)]
get_header(r, texts) == {i \in DOMAIN r.headers : r.headers[i] \in texts}
ConnectionTexts == {"close", "keep-alive"}

(***************************************************************************)
(* get_content_length(): a repeated header is joined with commas, and      *)
(* stoull() stops at the first one, so the first text counts.              *)
(***************************************************************************)
get_content_length(r) ==
  LET lengths == get_header(r, DOMAIN LengthOf)
  IN  IF lengths = {} THEN 0
      ELSE LengthOf[r.headers[CHOOSE i \in lengths : \A j \in lengths : i <= j]]

(***************************************************************************)
(* keep_alive() compares the whole joined Connection header, which is one  *)
(* text only if the field was sent once.                                   *)
(***************************************************************************)
ConnectionIs(r, text) ==
  \E i \in DOMAIN r.headers :
    get_header(r, ConnectionTexts) = {i} /\ r.headers[i] = text

BAD_keep_alive(r) == ~ConnectionIs(r, "close")

keep_alive(r) == IF r.line \in Lines_1_1 THEN ~ConnectionIs(r, "close")
                                         ELSE ConnectionIs(r, "keep-alive")

(***************************************************************************)
(* What a client may send and a handler call.  A request's body is what    *)
(* its Content-Length says; a text holds no line break.                    *)
(***************************************************************************)
ASSUME UsagesAssumption ==
  /\ RequestLines \cup HeaderTexts \subseteq Texts
  /\ Texts \cap {"cr", "lf"} = {}
  /\ LengthOf \in [DOMAIN LengthOf -> Nat]
  /\ \A u \in Usages :
       /\ u.script \in Seq(Requests)
       /\ \A i \in DOMAIN u.script : Len(u.script[i].body) = get_content_length(u.script[i])
       /\ u.handler \in Seq(Response!Calls)
       /\ {u.keep_request, u.whole_segments, u.pipelined, u.keep_alive_enabled_}
            \subseteq BOOLEAN

-----------------------------------------------------------------------------
(* Buffer::find_crlf(): the CRs that an LF follows.                        *)

Crlfs == {i \in 1..Len(buffer) - 1 : SubSeq(buffer, i, i + 1) = CRLF}
FirstCrlf == CHOOSE i \in Crlfs : \A j \in Crlfs : i <= j

Line == SubSeq(buffer, 1, FirstCrlf - 1)

(***************************************************************************)
(* retrieve(): the line and its CRLF leave the buffer.                     *)
(***************************************************************************)
AfterLine == SubSeq(buffer, FirstCrlf + 2, Len(buffer))

-----------------------------------------------------------------------------
(***************************************************************************)
(* handle_read() appends a segment and calls on_message(), which takes the *)
(* parser from the connection's context and an HttpRequest.                *)
(***************************************************************************)
on_message(n) ==
  /\ pc = "wait"
  /\ arrived + n <= (IF usage.pipelined THEN Len(Stream(script))
                     ELSE IF answered < Len(script) THEN End(script, answered + 1)
                     ELSE 0)
  /\ usage.whole_segments => \E i \in DOMAIN script : arrived + n = End(script, i)
  /\ arrived' = arrived + n
  /\ buffer' = buffer \o SubSeq(Stream(script), arrived + 1, arrived + n)
  /\ request' = IF usage.keep_request THEN request ELSE FreshRequest
  /\ pc' = "parse"
  /\ UNCHANGED <<usage, parser, conn, served, replies>>

(***************************************************************************)
(* Where the line says a request line: an istringstream reads the line's   *)
(* words, and skips the CRs and LFs before and after each.                 *)
(***************************************************************************)
RequestLineAt ==
  {i \in DOMAIN Line : /\ Line[i] \in RequestLines
                       /\ \A j \in 1..i - 1 : Line[j] \in {"cr", "lf"}
                       /\ i < Len(Line) => Line[i + 1] \in {"cr", "lf"}}

(***************************************************************************)
(* A line is a header when it has a colon.  All that stands before it is   *)
(* the name: a header's text that does not begin its line is another       *)
(* field, which the server never asks for.                                 *)
(***************************************************************************)
HeaderAt == {i \in DOMAIN Line : Line[i] \in HeaderTexts}
HeaderRead == IF 1 \in HeaderAt THEN Line[1] ELSE "hdr"

(***************************************************************************)
(* One turn of parse_request()'s loop in each of its states.               *)
(***************************************************************************)
parse_request_line ==
  /\ pc = "parse" /\ request.state = "PARSE_REQUEST_LINE"
  /\ Crlfs # {}
  /\ buffer' = AfterLine
  /\ \/ \E i \in RequestLineAt :
          /\ request' = [request EXCEPT !.line = Line[i], !.state = "PARSE_HEADERS"]
          /\ UNCHANGED <<pc, parser>>
     \/ /\ RequestLineAt = {}
        /\ parser' = [parser EXCEPT !.has_error_ = TRUE]
        /\ pc' = "failed"
        /\ UNCHANGED request
  /\ UNCHANGED <<usage, arrived, conn, served, replies>>

parse_header_line ==
  /\ pc = "parse" /\ request.state = "PARSE_HEADERS"
  /\ Crlfs # {} /\ Line # << >>
  /\ buffer' = AfterLine
  /\ IF HeaderAt # {}
       THEN /\ request' = add_header(request, HeaderRead)
            /\ UNCHANGED <<pc, parser>>
       ELSE /\ parser' = [parser EXCEPT !.has_error_ = TRUE]
            /\ pc' = "failed"
            /\ UNCHANGED request
  /\ UNCHANGED <<usage, arrived, conn, served, replies>>

parse_blank_line ==
  /\ pc = "parse" /\ request.state = "PARSE_HEADERS"
  /\ Crlfs # {} /\ Line = << >>
  /\ buffer' = AfterLine
  /\ parser' = [parser EXCEPT !.content_length_ = get_content_length(request)]
  /\ IF get_content_length(request) > 0
       THEN request' = [request EXCEPT !.state = "PARSE_BODY"] /\ pc' = pc
       ELSE request' = [request EXCEPT !.state = "PARSE_COMPLETE"] /\ pc' = "complete"
  /\ UNCHANGED <<usage, arrived, conn, served, replies>>

BAD_parse_body ==
  /\ pc = "parse" /\ request.state = "PARSE_BODY"
  /\ LET n == IF Len(buffer) < parser.content_length_ THEN Len(buffer)
              ELSE parser.content_length_
     IN  /\ request' = [request EXCEPT !.body = SubSeq(buffer, 1, n),
                                       !.state = "PARSE_COMPLETE"]
         /\ buffer' = SubSeq(buffer, n + 1, Len(buffer))
  /\ pc' = "complete"
  /\ UNCHANGED <<usage, arrived, parser, conn, served, replies>>

parse_body ==
  /\ pc = "parse" /\ request.state = "PARSE_BODY"
  /\ Len(buffer) >= parser.content_length_
  /\ request' = [request EXCEPT !.body = SubSeq(buffer, 1, parser.content_length_),
                                !.state = "PARSE_COMPLETE"]
  /\ buffer' = SubSeq(buffer, parser.content_length_ + 1, Len(buffer))
  /\ pc' = "complete"
  /\ UNCHANGED <<usage, arrived, parser, conn, served, replies>>

(***************************************************************************)
(* The loop breaks: parse_request() wants more data.  on_message() still   *)
(* looks at has_error_.                                                    *)
(***************************************************************************)
need_more ==
  /\ pc = "parse"
  /\ IF request.state = "PARSE_BODY" THEN Len(buffer) < parser.content_length_
                                     ELSE Crlfs = {}
  /\ pc' = IF parser.has_error_ THEN "failed" ELSE "wait"
  /\ UNCHANGED <<usage, arrived, buffer, request, parser, conn, served, replies>>

(***************************************************************************)
(* The parser has failed: conn->shutdown().                                *)
(***************************************************************************)
BAD_parse_failed ==
  /\ pc = "failed"
  /\ pc' = "wait"
  /\ UNCHANGED <<usage, arrived, buffer, request, parser, conn, served, replies>>

parse_failed ==
  /\ pc = "failed"
  /\ conn' = "DISCONNECTING"
  /\ pc' = "wait"
  /\ UNCHANGED <<usage, arrived, buffer, request, parser, served, replies>>

(***************************************************************************)
(* The response on_request() sends: it decides whether the connection      *)
(* ends, says so in the Connection header, and http_callback_ makes its    *)
(* calls.  Without a callback it is a 404 with a body.                     *)
(***************************************************************************)
Reply ==
  LET close == ~keep_alive(request) \/ ~usage.keep_alive_enabled_
      filled == Response!set_header(
                  Response!set_close_connection(Response!NewResponse, close),
                  "connection", IF close THEN "close" ELSE "keep-alive")
      after[i \in 0..Len(usage.handler)] ==
        IF i = 0 THEN filled ELSE Response!Call(after[i - 1], usage.handler[i])
  IN  after[Len(usage.handler)]

(***************************************************************************)
(* on_request(): the callback, send(), which a connection that is not      *)
(* CONNECTED ignores, and shutdown() if the response says so; then         *)
(* parser->reset().                                                        *)
(***************************************************************************)
on_request ==
  /\ pc = "complete"
  /\ served' = Append(served, [line |-> request.line, headers |-> request.headers,
                               body |-> request.body])
  /\ replies' = IF conn = "CONNECTED"
                  THEN Append(replies, Response!append_to_buffer(Reply)) ELSE replies
  /\ conn' = IF Reply.close_connection_ THEN "DISCONNECTING" ELSE conn
  /\ parser' = FreshParser
  /\ request' = FreshRequest
  /\ pc' = "wait"
  /\ UNCHANGED <<usage, arrived, buffer>>

-----------------------------------------------------------------------------
Parse == \/ parse_request_line
         \/ parse_header_line
         \/ parse_blank_line
         \/ parse_body
         \/ need_more
         \/ parse_failed
         \/ on_request

Next == Parse \/ \E n \in 1..Len(Stream(script)) : on_message(n)

Spec == Init /\ [][Next]_vars

-----------------------------------------------------------------------------
(* Properties.                                                             *)

(***************************************************************************)
(* How many requests have arrived to their last byte.                      *)
(***************************************************************************)
Complete == {i \in 0..Len(script) : End(script, i) <= arrived}
MostRecent == CHOOSE i \in Complete : \A j \in Complete : j <= i

(***************************************************************************)
(* Between two calls of on_message(), what http_callback_ was given is the *)
(* requests that have arrived completely, each with its own headers and    *)
(* body: it depends on the bytes, not on where the segments were cut       *)
(* (parse_request, on_message).                                            *)
(***************************************************************************)
EveryRequestServed == pc = "wait" => served = SubSeq(script, 1, MostRecent)

(***************************************************************************)
(* Is the request line of r one, and is each of its headers one?           *)
(***************************************************************************)
WellFormedRequest(r) == /\ r.line \in RequestLines
                        /\ \A i \in DOMAIN r.headers : r.headers[i] \in HeaderTexts

(***************************************************************************)
(* The uses for which parse_request() keeps its place in the stream.       *)
(***************************************************************************)
KeepsPlace == usage.keep_request \/ usage.whole_segments
Supported == KeepsPlace /\ \A i \in DOMAIN script : WellFormedRequest(script[i])

(***************************************************************************)
(* Then the requests served are the first ones of the script, unmixed, and *)
(* without pipelining none that has arrived waits (parse_request,          *)
(* on_message).  A request has arrived when its body has as many bytes as  *)
(* its Content-Length says, as parse_request() has it; a client that sends *)
(* fewer is not served, though a test of the parser expects it to be.      *)
(***************************************************************************)
RequestsServed ==
  Supported => /\ IsPrefix(served, script)
               /\ usage.pipelined \/ EveryRequestServed

(***************************************************************************)
(* What HTTP says of r: does the connection persist after it?              *)
(***************************************************************************)
Persistent(r) == IF r.line \in Lines_1_1 THEN ~Contains(r.headers, "close")
                                         ELSE Contains(r.headers, "keep-alive")

(***************************************************************************)
(* A handler that sets one body, and leaves the length and the connection  *)
(* to the server.                                                          *)
(***************************************************************************)
Plain(handler) ==
  \E k \in DOMAIN handler :
    /\ handler[k].op \in {"set_body", "redirect"} /\ handler[k].arg > 0
    /\ \A i \in DOMAIN handler \ {k} :
         handler[i].op = "add_header" /\ handler[i].arg = "other"

(***************************************************************************)
(* Every request up to the first one that ends the connection is answered, *)
(* and the connection is shut down after that one and no earlier           *)
(* (keep_alive, on_request).                                               *)
(***************************************************************************)
KeepAliveHonoured ==
  Supported /\ pc = "wait" /\ Plain(usage.handler) =>
    LET ends == {i \in DOMAIN served : ~Persistent(served[i])
                                         \/ ~usage.keep_alive_enabled_}
    IN  /\ conn = "DISCONNECTING" <=> ends # {}
        /\ answered = IF ends = {} THEN Len(served)
                      ELSE CHOOSE i \in ends : \A j \in ends : i <= j

(***************************************************************************)
(* The length in each response is that of the body sent, and the           *)
(* connection lines agree with each other and with what the server does    *)
(* next, for handlers that set one body: the client can tell where each    *)
(* response ends and which is the last, unless it asked with HEAD, which   *)
(* the server answers with a body too (ensure_content_length, on_request,  *)
(* append_to_buffer).                                                      *)
(***************************************************************************)
ResponsesFramed ==
  Plain(usage.handler) =>
    \A i \in DOMAIN replies :
      /\ replies[i].length = <<replies[i].body>>
      /\ \/ ToSet(replies[i].connection) = {"keep-alive"} /\ (conn = "CONNECTED" \/ i < answered
              \/ \E j \in DOMAIN script : ~WellFormedRequest(script[j]))
         \/ ToSet(replies[i].connection) = {"close"} /\ conn = "DISCONNECTING"
              /\ i = answered

(***************************************************************************)
(* No line or body of the script can be taken for the request line of      *)
(* another request.                                                        *)
(***************************************************************************)
Unmistakable ==
  \A i \in DOMAIN script :
    ToSet(script[i].headers \o script[i].body) \cap RequestLines = {}

(***************************************************************************)
(* A request that cannot be parsed is never answered and costs a client    *)
(* that waits for its answers the connection, if the parser keeps its      *)
(* place; if it loses it, because the server's HttpRequest is new with     *)
(* every segment, then only for requests in which it finds no other        *)
(* request line (parse_request_line, parse_header_line, on_message).       *)
(***************************************************************************)
MalformedRefused ==
  ~usage.pipelined /\ (KeepsPlace \/ Unmistakable) =>
    \A i \in DOMAIN script :
      ~WellFormedRequest(script[i])
        => /\ answered < i
           /\ pc = "wait" /\ End(script, i) <= arrived => conn = "DISCONNECTING"
=============================================================================
