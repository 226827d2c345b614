---------------------------- MODULE HttpResponse ----------------------------
(***************************************************************************)
(* HttpResponse (http/http_response.cpp): the calls an http_callback_      *)
(* makes on a response, as functions of the response, and the message that *)
(* append_to_buffer() writes.  A body is its length.  The values of a      *)
(* header are a sequence, which add_header() joins with commas; a field    *)
(* name stands for all its spellings.  The status, the content type and    *)
(* the server and date lines frame nothing and are left out.               *)
(***************************************************************************)
EXTENDS Naturals, Sequences, Functions

NewResponse == [close_connection_ |-> FALSE, headers_ |-> << >>, body_ |-> 0]

has_header(r, field) == field \in DOMAIN r.headers_
set_header(r, field, value) ==
  [r EXCEPT !.headers_ = [f \in DOMAIN @ \cup {field} |->
                            IF f = field THEN <<value>> ELSE @[f]]]

add_header(r, field, value) ==
  IF has_header(r, field) THEN [r EXCEPT !.headers_[field] = Append(@, value)]
                          ELSE set_header(r, field, value)

remove_header(r, field) == [r EXCEPT !.headers_ = Restrict(@, DOMAIN @ \ {field})]

(***************************************************************************)
(* The length is written once: a header that is there is left alone.       *)
(***************************************************************************)
ensure_content_length(r) ==
  IF r.body_ > 0 /\ ~has_header(r, "content-length")
    THEN set_header(r, "content-length", r.body_) ELSE r

BAD_set_body(r, n) == [ensure_content_length(r) EXCEPT !.body_ = n]

set_body(r, n) == ensure_content_length([r EXCEPT !.body_ = n])
append_body(r, n) == ensure_content_length([r EXCEPT !.body_ = @ + n])
clear_body(r) == [r EXCEPT !.body_ = 0]

redirect(r, n) == set_body(set_header(r, "location", "url"), n)

set_close_connection(r, close) == [r EXCEPT !.close_connection_ = close]

reset == NewResponse

(***************************************************************************)
(* One call of a handler.  "other" stands for the fields that frame        *)
(* nothing.                                                                *)
(***************************************************************************)
Calls == [op : {"set_body", "append_body", "redirect"}, arg : Nat]
           \cup [op : {"add_header", "remove_header"},
                 arg : {"content-length", "connection", "location", "other"}]
           \cup [op : {"clear_body", "close", "reset"}, arg : {0}]

Call(r, call) ==
  CASE call.op = "set_body"      -> set_body(r, call.arg)
    [] call.op = "append_body"   -> append_body(r, call.arg)
    [] call.op = "clear_body"    -> clear_body(r)
    [] call.op = "redirect"      -> redirect(r, call.arg)
    [] call.op = "add_header"    -> add_header(r, call.arg, "text")
    [] call.op = "remove_header" -> remove_header(r, call.arg)
    [] call.op = "close"         -> set_close_connection(r, TRUE)
    [] call.op = "reset"         -> reset

(***************************************************************************)
(* append_to_buffer() writes the headers and then a connection line of its *)
(* own, whether or not there is one among the headers.                     *)
(***************************************************************************)
Values(r, field) == IF has_header(r, field) THEN r.headers_[field] ELSE << >>

append_to_buffer(r) ==
  [length |-> Values(r, "content-length"),
   connection |-> Append(Values(r, "connection"),
                         IF r.close_connection_ THEN "close" ELSE "keep-alive"),
   body |-> r.body_]
=============================================================================
