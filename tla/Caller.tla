------------------------------- MODULE Caller -------------------------------
(***************************************************************************)
(* What a connection tells its caller, and the calls other than those that  *)
(* receive: Delivery and PyConnection answer in the same terms.             *)
(***************************************************************************)
EXTENDS Receive, Send

CONSTANTS Settings,  \* by name, the surroundings a connection may be in
          MaxData    \* bound on the length of one piece of body sent

(* A setting is the local role, the pieces that receive_data may bring, the *)
(* heads the caller may send and a bound on what is received and not told.  *)
(* The pieces are made of symbols.                                          *)
Symbols(s) == UNION {{piece[i] : i \in DOMAIN piece} : piece \in s.pieces}

ASSUME CallerAssumption ==
    /\ \A name \in DOMAIN Settings :
          LET s == Settings[name]
          IN  /\ s.role \in Roles
              /\ s.heads \subseteq MessageHeads
              /\ s.max_input \in Nat
              /\ s.pieces \subseteq Seq(Symbols(s))
              /\ \A symbol \in Symbols(s) :
                    /\ symbol.tok = "head" => symbol.h \in MessageHeads
                    /\ symbol.tok = "hex" => symbol.n \in Nat
    /\ MaxData \in Nat

(* An out is what one call tells.                                           *)
Out(kind, data, chunk_start, chunk_end) ==
    [kind |-> kind, data |-> data, chunk_start |-> chunk_start, chunk_end |-> chunk_end]

Answer(kind, data) == Out(kind, data, FALSE, FALSE)

Told(p, input) ==
    IF p.kind = "Data" THEN Out("Data", Prefix(input, p.count), p.chunk_start, p.chunk_end)
    ELSE Answer(p.kind, <<>>)

(* The outcomes of the calls that a caller with these heads can make.       *)
Lengths == 0..MaxData

Restarted(x) ==
    IF CanReuse(x) THEN Sent(start_next_cycle(x), <<>>)
    ELSE Refused(NoKeepAliveIf(UnsolicitedBytes(x), x))

Closed(x) ==
    IF LocalAccepts(x, StateEvent("ConnectionClosed")) THEN Sent(close(x), <<>>) ELSE Refused(x)

Calls(x, heads) ==
    {send_request(x, h) : h \in heads}
        \cup {send_request_with_body(x, h, n) : h \in heads, n \in Lengths}
        \cup {send_informational_response(x, h) : h \in heads}
        \cup {send_response(x, h) : h \in heads}
        \cup {send_response_with_body(x, h, n) : h \in heads, n \in Lengths}
        \cup {send_data(x, n) : n \in Lengths}
        \cup {end_of_message(x, trailers) : trailers \in {<<>>, <<"field">>}}
        \cup {Restarted(x), Closed(x)}

ToldOfCall(sent) == Answer(IF sent.ok THEN "Sent" ELSE "LocalError", sent.wire)
=============================================================================
