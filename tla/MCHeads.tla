------------------------------ MODULE MCHeads ------------------------------
(***************************************************************************)
(* The message heads of the small instances, each built from a plain one.   *)
(***************************************************************************)
EXTENDS Fields

Rq == [kind |-> "request", method |-> "GET", status |-> 0, version |-> 11, te |-> <<>>,
       cl |-> <<>>, opts |-> {}, upgrade |-> {}, expect |-> FALSE, valid |-> TRUE, syntax |-> "ok"]

Rs == [Rq EXCEPT !.kind = "response", !.status = 200]

Post == [Rq EXCEPT !.method = "POST"]

Status(code) == [Rs EXCEPT !.status = code]

Sized(h, n) == [h EXCEPT !.cl = <<n>>]

Chunky(h) == [h EXCEPT !.te = <<"chunked">>]

Http10(h) == [h EXCEPT !.version = 10]

Option(h, option) == [h EXCEPT !.opts = @ \cup {option}]

Upgrading(h, protocol) == [h EXCEPT !.opts = @ \cup {"upgrade"}, !.upgrade = {protocol}]

Expecting(h) == [h EXCEPT !.expect = TRUE]
=============================================================================
