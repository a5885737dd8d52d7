------------------------------- MODULE Fields -------------------------------
(***************************************************************************)
(* Message heads and what their framing and connection fields mean          *)
(* (crates/h11r/src/wire/fields.rs, target.rs).  A head is a record of what *)
(* Fields::scan reads from it:                                              *)
(*   kind     "request" or "response"                                       *)
(*   method   a request's method; status  a response's code                 *)
(*   version  10 or 11                                                      *)
(*   te       the Transfer-Encoding codings in order, <<>> if no such field *)
(*   cl       the Content-Length elements in order, BadLength if unparsable *)
(*   opts     the Connection options                                        *)
(*   upgrade  the protocols of Upgrade, {BadProtocol} if the field is invalid*)
(*   expect   does Expect name 100-continue                                 *)
(*   valid    every other rule holds: the target and Host of a request, and *)
(*            when sent, field syntax, reason, TE, empty list elements      *)
(*   syntax   "ok", "bad" (httparse refuses it), or "dropped" (only a       *)
(*            lenient parse takes it, losing a field line)                  *)
(***************************************************************************)
EXTENDS State, Integers, Sequences

BadLength == -1

BadProtocol == "?"

(* What Codings::read makes of one element of a Transfer-Encoding list.     *)
Codings == {"chunked", "other", "malformed"}

(* What Fields::scan reads from the fields of a head.                       *)
MessageHeads == [kind : {"request", "response"}, method : STRING, status : Nat, version : {10, 11},
                 te : Seq(Codings), cl : Seq(Nat \cup {BadLength}),
                 opts : SUBSET {"close", "keep-alive", "upgrade"}, upgrade : SUBSET STRING,
                 expect : BOOLEAN, valid : BOOLEAN, syntax : {"ok", "bad", "dropped"}]

(* Framing, and with None the Option<Framing> of a writer.                  *)
Fixed(n) == [kind |-> "Fixed", n |-> n]

Chunked == [kind |-> "Chunked", n |-> 0]

CloseDelimited == [kind |-> "CloseDelimited", n |-> 0]

FramingError == [kind |-> "Err", n |-> 0]

NoFraming == [kind |-> None, n |-> 0]

(* Codings::framing on a non-empty list of codings.                         *)
CodingsFraming(te, response) ==
    LET before == {te[i] : i \in 1..(Len(te) - 1)}
        chunked == te[Len(te)] = "chunked"
    IN  IF "malformed" \in before \cup {te[Len(te)]} THEN FramingError
        ELSE IF ~chunked THEN IF response THEN CloseDelimited ELSE FramingError
        ELSE IF "chunked" \in before \/ (before # {} /\ ~response) THEN FramingError
        ELSE Chunked

has_transfer_encoding(h) == h.te # <<>>

has_framing(h) == h.te # <<>> \/ h.cl # <<>>

(* Fields::framing.                                                         *)
framing(h, version, response) ==
    IF h.te # <<>> THEN IF h.cl # <<>> \/ version = 10 THEN FramingError
                        ELSE CodingsFraming(h.te, response)
    ELSE IF h.cl # <<>> THEN IF h.cl[1] # BadLength /\ \A i \in DOMAIN h.cl : h.cl[i] = h.cl[1]
                             THEN Fixed(h.cl[1]) ELSE FramingError
    ELSE IF response THEN CloseDelimited ELSE Fixed(0)

persistent(h) == "close" \notin h.opts /\ (h.version = 11 \/ "keep-alive" \in h.opts)

expects_continue(h, f) == h.version = 11 /\ f # Fixed(0) /\ h.expect

(* Fields::check_send, validate_headers and validate_reason.                *)
check_send(h) ==
    /\ h.valid
    /\ Len(h.cl) <= 1
    /\ h.upgrade # {} => "upgrade" \in h.opts

(* Mutant: a head that already names an option keeps it.                    *)
KeepsOption(h, option) == IF h.opts = {} THEN h ELSE [h EXCEPT !.opts = @ \cup {option}]

set_connection_option(h, option) ==
    [h EXCEPT !.opts = (@ \ {"close", "keep-alive"}) \cup {option}]

(* RFC 9110: CONNECT and TRACE requests have no content.                    *)
content_forbidden(method, f) == f # Fixed(0) /\ method \in {"CONNECT", "TRACE"}

is_informational(status) == status \in 100..199

is_success(status) == status \in 200..299
=============================================================================
