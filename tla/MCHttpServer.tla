---------------------------- MODULE MCHttpServer ----------------------------
(***************************************************************************)
(* HttpServer for TLC.  The POST's body is itself the text of a request,   *)
(* so that a parser that loses its place would take it for one.            *)
(***************************************************************************)
EXTENDS HttpServer

Lengths == [len0 |-> 0, len1 |-> 1, len5 |-> 5]
TextsSent == RequestLines \cup {"len0", "len1", "len5", "hdr", "close", "keep-alive", "text"}

Get == [line |-> "GET 1.1", headers |-> <<"hdr">>, body |-> << >>]
Closing == [line |-> "GET 1.1", headers |-> <<"close">>, body |-> << >>]
Old == [line |-> "GET 1.0", headers |-> <<"len0">>, body |-> << >>]
OldKept == [line |-> "GET 1.0", headers |-> <<"keep-alive">>, body |-> << >>]
Post == [line |-> "POST 1.1", headers |-> <<"len5", "hdr">>, body |-> Encode(
           [line |-> "GET 1.1", headers |-> << >>, body |-> << >>])]
Heading == [line |-> "HEAD 1.1", headers |-> << >>, body |-> << >>]
Newer == [line |-> "GET 2.0", headers |-> << >>, body |-> << >>]
Short == [line |-> "POST 1.1", headers |-> <<"len1">>, body |-> <<"cr">>]

WellFormed == {Get, Heading, Closing, Old, OldKept, Newer, Post, Short}

(***************************************************************************)
(* Up to n requests, nothing after the one that ends the connection.       *)
(***************************************************************************)
ClientScripts(n) ==
  {s \in UNION {[1..m -> WellFormed] : m \in 1..n} :
     \A i \in 1..Len(s) - 1 : s[i] \notin {Closing, Old, Newer}}

(***************************************************************************)
(* A line that is no request line; one that is no header; and one that is  *)
(* no header but would be a request line.                                  *)
(***************************************************************************)
BadLine == [line |-> "text", headers |-> <<"len1">>, body |-> <<"text">>]
BadHeader == [line |-> "GET 1.1", headers |-> <<"hdr", "text">>, body |-> << >>]

LineForHeader == [line |-> "GET 1.1", headers |-> <<"hdr", "GET 1.1">>, body |-> << >>]

Malformed == {BadLine, BadHeader, LineForHeader}
MalformedScripts == {<<bad>> : bad \in Malformed}
                      \cup {<<r, bad>> : r \in {Get, Post, Short}, bad \in Malformed}

(***************************************************************************)
(* Handlers: one body, as the main program's; the redirect; and those that *)
(* make the length or the connection lines disagree with the message.      *)
(***************************************************************************)
call(op, arg) == [op |-> op, arg |-> arg]
OneBody == <<call("set_body", 2)>>
PlainHandlers == {OneBody, <<call("add_header", "other"), call("redirect", 1)>>}
OtherHandlers == {<<call("set_body", 1), call("append_body", 1)>>,
                  <<call("set_body", 1), call("remove_header", "content-length")>>,
                  <<call("set_body", 1), call("clear_body", 0)>>,
                  <<call("add_header", "connection")>>,
                  <<call("close", 0)>>,
                  <<call("reset", 0), call("set_body", 2)>>}

(***************************************************************************)
(* Streaming use of the parser, with any segments; the server's, with      *)
(* whole requests in a segment; and the server's with malformed requests.  *)
(***************************************************************************)
KeptUsages == [script : ClientScripts(3), keep_request : {TRUE},
               whole_segments : {FALSE}, pipelined : BOOLEAN,
               keep_alive_enabled_ : {TRUE}, handler : {OneBody}]
WholeUsages == [script : ClientScripts(3), keep_request : {FALSE},
                whole_segments : {TRUE}, pipelined : BOOLEAN,
                keep_alive_enabled_ : BOOLEAN,
                handler : PlainHandlers \cup OtherHandlers]
RefusedUsages == [script : MalformedScripts, keep_request : BOOLEAN,
                  whole_segments : BOOLEAN, pipelined : {FALSE},
                  keep_alive_enabled_ : {TRUE}, handler : {OneBody}]
GoodUsages == KeptUsages \cup WholeUsages \cup RefusedUsages

(***************************************************************************)
(* The server's use, with segments as the network cuts them.               *)
(***************************************************************************)
ServerUsages == [script : ClientScripts(2), keep_request : {FALSE},
                 whole_segments : {FALSE}, pipelined : {FALSE},
                 keep_alive_enabled_ : {TRUE}, handler : {OneBody}]
=============================================================================
