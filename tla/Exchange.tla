------------------------------ MODULE Exchange ------------------------------
(***************************************************************************)
(* A client and a server connection (crates/h11r/src/connection) joined by  *)
(* a transport: two byte streams, each of which may be cut, losing what was *)
(* still under way.  Both callers make any call their connection accepts,   *)
(* in any order; a refused call changes nothing and is left out.  A server  *)
(* answers requests: it does not speak before one has begun.                *)
(***************************************************************************)
EXTENDS Receive, Send

CONSTANT Settings   \* by name, the callers and the transport there may be

(* A head that the sender's checks let pass the parser accepts, and nobody   *)
(* ends a message with trailers longer than the section limit.              *)
ASSUME ExchangeAssumption ==
    \A name \in DOMAIN Settings :
       LET s == Settings[name]
       IN  /\ \A h \in s.requests :
                 h \in MessageHeads /\ h.kind = "request" /\ (h.valid => h.syntax = "ok")
           /\ \A h \in s.responses :
                 h \in MessageHeads /\ h.kind = "response" /\ (h.valid => h.syntax = "ok")
           /\ \A t \in s.trailers : t \in Seq(STRING) /\ Len(t) < MaxHead
           /\ s.breaks \subseteq Roles
           /\ s.max_wire \in Nat /\ s.max_data \in Nat

VARIABLES setting,   \* the name of the setting, which does not change
          ends,      \* the two connections
          wire,      \* what each has written and the other has not received
          shut,      \* has each closed its side of the transport
          cut,       \* was each one's stream cut before it closed
          pending,   \* what each has sent and the other's events have not told
          garbled,   \* has an event told what was not sent
          ahead      \* exchanges the client has begun and the server has not

moving == <<ends, wire, shut, cut, pending, garbled, ahead>>

vars == <<setting, moving>>

Requests == Settings[setting].requests    \* the heads the client may send

Responses == Settings[setting].responses  \* the heads the server may send

Trailers == Settings[setting].trailers    \* what either may end a message with

Breaks == Settings[setting].breaks        \* the roles whose stream may be cut

MaxWire == Settings[setting].max_wire     \* bound on the symbols written and not read, each way

MaxData == Settings[setting].max_data     \* bound on the length of one piece of body

(* A message as the two callers see it: its head, its bytes, its end.       *)
HeadItem(h) == [item |-> "head", code |-> IF h.kind = "request" THEN h.method ELSE h.status]

ByteItem == [item |-> "byte", code |-> None]

EndItem == [item |-> "end", code |-> None]

Init == /\ setting \in DOMAIN Settings
        /\ ends = [r \in Roles |-> NewConnection(r, FALSE)]
        /\ wire = [r \in Roles |-> <<>>]
        /\ shut = [r \in Roles |-> FALSE]
        /\ cut = [r \in Roles |-> FALSE]
        /\ pending = [r \in Roles |-> <<>>]
        /\ garbled = FALSE
        /\ ahead = 0

----------------------------------------------------------------------------
(* The last byte of a sized message tells its end.                          *)
EndsWith(before, after) ==
    IF after.cycle.writer = Fixed(0) /\ before.cycle.writer # Fixed(0) THEN <<EndItem>> ELSE <<>>

(* Sending.  What is written after a cut goes nowhere.                      *)
Writable(r, sent) ==
    /\ sent.ok
    /\ ~shut[r]
    /\ Len(wire[r]) + Len(ends[peer(r)].input) + Len(sent.wire) <= MaxWire

Write(r, sent, items) ==
    /\ Writable(r, sent)
    /\ ends' = [ends EXCEPT ![r] = sent.c]
    /\ wire' = [wire EXCEPT ![r] = IF cut[r] THEN @ ELSE @ \o sent.wire]
    /\ pending' = [pending EXCEPT ![r] = IF cut[r] THEN @ ELSE @ \o items \o EndsWith(ends[r], sent.c)]
    /\ UNCHANGED <<shut, cut, garbled, ahead>>

Bytes(n) == [i \in 1..n |-> ByteItem]

(* The items of a complete message; a switch leaves it without an end.      *)
Complete(r, sent, h, n) ==
    <<HeadItem(h)>> \o IF local_state(sent.c) = "SwitchedProtocol" THEN <<>>
                       ELSE Append(Bytes(n), EndItem)

SendRequest(h) ==
    \E sent \in {send_request(ends["client"], h)} : Write("client", sent, <<HeadItem(h)>>)

SendRequestWithBody(h, n) ==
    \E sent \in {send_request_with_body(ends["client"], h, n)} :
        Write("client", sent, Complete("client", sent, h, n))

Answering == local_state(ends["server"]) = "SendResponse"

SendInformationalResponse(h) ==
    /\ Answering
    /\ \E sent \in {send_informational_response(ends["server"], h)} :
          Write("server", sent, <<HeadItem(h)>>)

SendResponse(h) ==
    /\ Answering
    /\ \E sent \in {send_response(ends["server"], h)} : Write("server", sent, <<HeadItem(h)>>)

SendResponseWithBody(h, n) ==
    /\ Answering
    /\ \E sent \in {send_response_with_body(ends["server"], h, n)} :
          Write("server", sent, Complete("server", sent, h, n))

SendData(r, n) == \E sent \in {send_data(ends[r], n)} : Write(r, sent, Bytes(n))

EndOfMessage(r, trailers) ==
    \E sent \in {end_of_message(ends[r], trailers)} :
        Write(r, sent, IF ends[r].cycle.writer = Fixed(0) THEN <<>> ELSE <<EndItem>>)

----------------------------------------------------------------------------
(* The transport.                                                           *)
Deliver(r) ==
    /\ wire[r] # <<>>
    /\ ends' = [ends EXCEPT ![peer(r)] = receive_bytes(@, wire[r])]
    /\ wire' = [wire EXCEPT ![r] = <<>>]
    /\ UNCHANGED <<shut, cut, pending, garbled, ahead>>

DeliverEof(r) ==
    /\ wire[r] = <<>> /\ (shut[r] \/ cut[r])
    /\ ~ends[peer(r)].eof
    /\ ends' = [ends EXCEPT ![peer(r)] = record_eof(@)]
    /\ UNCHANGED <<wire, shut, cut, pending, garbled, ahead>>

(* The stream from r breaks: of the bytes under way some do not arrive.     *)
Cut(r) ==
    /\ r \in Breaks /\ ~cut[r] /\ ~ends[peer(r)].eof
    /\ \E n \in 0..Len(wire[r]) : wire' = [wire EXCEPT ![r] = Prefix(@, n)]
    /\ cut' = [cut EXCEPT ![r] = TRUE]
    /\ UNCHANGED <<ends, shut, pending, garbled, ahead>>

----------------------------------------------------------------------------
(* Receiving.  An event tells the next items of what the peer has sent.     *)
Told(c, p) ==
    CASE p.kind = "Data" -> Bytes(p.count)
      [] p.kind = "EndOfMessage" -> <<EndItem>>
      [] OTHER -> LET at == CHOOSE i \in DOMAIN c.input :
                                /\ c.input[i].tok = "head"
                                /\ \A j \in 1..(i - 1) : c.input[j].tok # "head"
                  IN  <<HeadItem(c.input[at].h)>>

MessageEvents == {"Request", "InformationalResponse", "Response", "Data", "EndOfMessage"}

(* The end of a close-delimited body cannot be told from a cut.             *)
Tell(r, p) ==
    LET c == ends[r]
        from == peer(r)
        told == IF p.kind \in MessageEvents THEN Told(c, p) ELSE <<>>
        fits == told = Prefix(pending[from], Len(told))
    IN  /\ ends' = [ends EXCEPT ![r] = p.c]
        /\ pending' = [pending EXCEPT ![from] = IF fits THEN Skip(@, Len(told)) ELSE @]
        /\ garbled' = \/ garbled
                      \/ ~fits /\ ~(cut[from] /\ c.cycle.reader.kind = "CloseDelimited")
        /\ UNCHANGED <<wire, shut, cut, ahead>>

Poll(r) == \E p \in {next_event(ends[r], due) : due \in BOOLEAN} : Tell(r, p)

----------------------------------------------------------------------------
StartNextCycle(r) ==
    /\ CanReuse(ends[r])
    /\ ends' = [ends EXCEPT ![r] = start_next_cycle(@)]
    /\ ahead' = IF r = "client" THEN ahead + 1 ELSE ahead - 1
    /\ UNCHANGED <<wire, shut, cut, pending, garbled>>

(* The caller closes its side of the transport with its connection.         *)
Close(r) ==
    /\ LocalAccepts(ends[r], StateEvent("ConnectionClosed"))
    /\ ~shut[r]
    /\ ends' = [ends EXCEPT ![r] = close(@)]
    /\ shut' = [shut EXCEPT ![r] = TRUE]
    /\ UNCHANGED <<wire, cut, pending, garbled, ahead>>

Sending(r) ==
    \/ r = "client" /\ \E h \in Requests : \/ SendRequest(h)
                                           \/ \E n \in 0..MaxData : SendRequestWithBody(h, n)
    \/ r = "server" /\ \E h \in Responses : \/ SendResponse(h)
                                            \/ SendInformationalResponse(h)
                                            \/ \E n \in 0..MaxData : SendResponseWithBody(h, n)
    \/ \E n \in 1..MaxData : SendData(r, n)
    \/ \E trailers \in Trailers : EndOfMessage(r, trailers)

Next == /\ \E r \in Roles : \/ Sending(r)
                            \/ Deliver(r)
                            \/ DeliverEof(r)
                            \/ Cut(r)
                            \/ Poll(r)
                            \/ StartNextCycle(r)
                            \/ Close(r)
        /\ UNCHANGED setting

Spec == Init /\ [][Next]_vars

----------------------------------------------------------------------------
Intact == \A r \in Roles : ~cut[r]

(* A client whose request crossed the server's orderly close has been told  *)
(* all there was; only a cut excuses any other protocol error.              *)
BytesAccepted ==
    /\ ends["server"].st.client = "Error" => cut["client"]
    /\ ends["client"].st.server = "Error" =>
          cut["server"] \/ (shut["server"] /\ wire["server"] = <<>> /\ pending["server"] = <<>>)

(* What one side sends the other understands.  Its events tell the heads,   *)
(* every byte of each body and its end, in order, for every framing the two *)
(* may choose, and never report complete what was cut short; and whatever   *)
(* the callers send, in whichever order bytes, answers and closes cross,    *)
(* neither connection calls the other's bytes a protocol error.             *)
Understood == ~garbled /\ BytesAccepted

(* A client that goes on to its next exchange has a server that will read   *)
(* it, and a server that goes on has a client that has not given the        *)
(* connection up, unless the stream between ended.                          *)
ReuseAgreed ==
    /\ ahead \in {-1, 0, 1}
    /\ ahead = 1 => ends["server"].st.keep_alive
    /\ ahead = -1 => ends["client"].st.keep_alive \/ ends["client"].eof

(* The client takes the connection for switched only when the server does.  *)
SwitchAgreed ==
    ends["client"].st.client = "SwitchedProtocol" => ends["server"].st.server = "SwitchedProtocol"

(* A client that waits for 100 Continue has a server that knows of it, or   *)
(* will read it in the bytes under way, or its answer is under way.         *)
WaitKnown ==
    LET c == ends["client"]
        s == ends["server"]
    IN  c.cycle.waiting_for_continue /\ Intact =>
            \/ s.cycle.waiting_for_continue
            \/ wire["client"] # <<>> \/ s.input # <<>>
            \/ wire["server"] # <<>> \/ c.input # <<>>

(* The two connections never disagree for good on what each must know of    *)
(* the other: whether there is a next exchange, which protocol is spoken,   *)
(* and whether the client is waiting for 100 Continue.                      *)
SidesAgree == ReuseAgreed /\ SwitchAgreed /\ WaitKnown
=============================================================================
