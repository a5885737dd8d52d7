-------------------------------- MODULE Send --------------------------------
(***************************************************************************)
(* Serialising local events (crates/h11r/src/connection/send.rs).  A call   *)
(* returns whether it succeeded, the connection after it and the symbols to *)
(* write; a call that fails returns LocalProtocolError.                     *)
(***************************************************************************)
EXTENDS Cycle

Sent(c, wire) == [ok |-> TRUE, c |-> c, wire |-> wire]

Refused(c) == [ok |-> FALSE, c |-> c, wire |-> <<>>]

send_request(c, h) ==
    LET f == framing(h, h.version, FALSE)
        upgrades == IF h.version = 11 THEN h.upgrade ELSE {}
        ev == request_event(h.method, upgrades)
        allowed == /\ c.role = "client"
                   /\ c.input = <<>>
                   /\ check_send(h)
                   /\ f # FramingError
                   /\ ~content_forbidden(h.method, f)
                   /\ ~(f = Fixed(0) /\ h.expect)
                   /\ BadProtocol \notin h.upgrade
                   /\ "upgrade" \in h.opts => h.upgrade # {}
                   /\ LocalAccepts(c, ev)
    IN  IF ~allowed THEN Refused(c)
        ELSE Sent([record_request(advance_local(c, ev), h, f, upgrades) EXCEPT !.cycle.writer = f],
                  <<HeadOf(h)>>)

send_informational_response(c, h) ==
    LET ev == informational_event(h)
        allowed == /\ c.role = "server" /\ is_informational(h.status)
                   /\ c.peer_version # 10
                   /\ check_send(h)
                   /\ ~has_framing(h)
                   /\ HasInformationalEvent(c, h)
                   /\ LocalAccepts(c, ev)
    IN  IF ~allowed THEN Refused(c)
        ELSE Sent(record_informational(advance_local(c, ev), h.status), <<HeadOf(h)>>)

(* The framing of a final response: what its fields declare, once the fields*)
(* a peer cannot read are stripped, or a default.                           *)
Http11(c, h) == c.peer_version = 11 /\ h.version = 11

Stripped(c, h) == ~Http11(c, h) /\ has_transfer_encoding(h)

Declared(c, h) == has_framing(h) /\ ~Stripped(c, h)

response_framing(c, h) ==
    LET bodyless == response_has_no_body(c, h.status)
        declared == framing(h, h.version, bodyless)
    IN  IF Stripped(c, h) /\ framing(h, 11, bodyless) = FramingError THEN FramingError
        ELSE IF bodyless THEN IF Declared(c, h) /\ declared = FramingError THEN FramingError ELSE Fixed(0)
        ELSE IF h.status = 205
             THEN IF Declared(c, h) /\ declared # Fixed(0) THEN FramingError ELSE Fixed(0)
        ELSE IF Declared(c, h) THEN declared
        ELSE IF Http11(c, h) THEN Chunked ELSE CloseDelimited

(* Mutant: the framing chosen by default is not written.                    *)
DefaultFramingUnsaid(c, h, f) == h

(* The fields written for it.                                               *)
framed_head(c, h, f) ==
    LET kept == IF Stripped(c, h) THEN [h EXCEPT !.te = <<>>] ELSE h
    IN  IF Declared(c, h) \/ response_has_no_body(c, h.status) THEN kept
        ELSE IF h.status = 205 THEN [kept EXCEPT !.cl = <<0>>]
        ELSE IF f = Chunked THEN [kept EXCEPT !.te = <<"chunked">>]
        ELSE kept

(* Mutant: only sized content can be unread.                                *)
ChunkedCountsAsRead(c) ==
    c.cycle.reader.kind = "Fixed" /\ c.cycle.reader.n > c.held + Len(c.input)

(* Mutant: held bytes do not count as received.                             *)
IgnoresHeld(c) == c.cycle.reader.kind = "Fixed" => c.cycle.reader.n > Len(c.input)

(* Request content that has not all arrived when the response starts.       *)
unread(c) ==
    c.cycle.reader.kind = "Fixed" => c.cycle.reader.n > c.held + Len(c.input)

(* Every reason to close is recorded first, so the head states exactly      *)
(* whether the connection persists.                                         *)
send_response(c, h) ==
    LET connect == opens_tunnel(c, h.status)
        f == response_framing(c, h)
        ev == final_response_event(c, h.status)
        allowed == /\ c.role = "server" /\ ~is_informational(h.status)
                   /\ check_send(h)
                   /\ h.status = 426 => h.upgrade # {} /\ BadProtocol \notin h.upgrade
                   /\ ~((h.status = 204 \/ connect) /\ has_framing(h))
                   /\ f # FramingError
                   /\ LocalAccepts(c, ev)
        advanced == advance_local(c, ev)
        closes == \/ f = CloseDelimited
                  \/ peer_state(advanced) = "SendBody" /\ unread(c)
                  \/ "close" \in h.opts
        after == [record_response(NoKeepAliveIf(closes, advanced))
                    EXCEPT !.cycle.writer = IF connect THEN NoFraming ELSE f]
        head == framed_head(c, h, f)
    IN  IF ~allowed THEN Refused(c)
        ELSE Sent(after, <<HeadOf(CASE connect -> head
                                    [] ~connect /\ ~after.st.keep_alive ->
                                          set_connection_option(head, "close")
                                    [] ~connect /\ after.st.keep_alive /\ ~Http11(c, h) ->
                                          set_connection_option(head, "keep-alive")
                                    [] OTHER -> head)>>)

(* send_data, send_data_parts and send_data_framing.                        *)
send_data(c, length) ==
    LET w == c.cycle.writer
        next == IF w.kind = "Fixed" THEN Fixed(w.n - length) ELSE w
        allowed == /\ w # NoFraming
                   /\ w.kind = "Fixed" => length <= w.n
                   /\ LocalAccepts(c, StateEvent("Data"))
    IN  IF ~allowed THEN Refused(c)
        ELSE Sent([advance_local(c, StateEvent("Data"))
                      EXCEPT !.cycle.writer = next, !.cycle.waiting_for_continue = FALSE],
                  IF w = Chunked /\ length # 0
                  THEN <<Hex(length), Symbol("crlf")>> \o Body(length) \o <<Symbol("crlf")>>
                  ELSE Body(length))

Trailer(trailers) == [i \in DOMAIN trailers |-> Symbol("field")]

last_chunk(trailers) == <<Hex(0), Symbol("crlf")>> \o Trailer(trailers) \o <<Symbol("crlf")>>

(* trailers is the sequence of the trailer fields, each one permitted or    *)
(* not (validate_trailers).                                                 *)
end_of_message(c, trailers) ==
    LET w == c.cycle.writer
        allowed == /\ "forbidden" \notin {trailers[i] : i \in DOMAIN trailers}
                   /\ w # NoFraming
                   /\ w.kind = "Fixed" => w.n = 0
                   /\ w # Chunked => trailers = <<>>
                   /\ LocalAccepts(c, StateEvent("EndOfMessage"))
    IN  IF ~allowed THEN Refused(c)
        ELSE Sent([advance_local(c, StateEvent("EndOfMessage"))
                      EXCEPT !.cycle.writer = NoFraming, !.cycle.waiting_for_continue = FALSE],
                  IF w = Chunked THEN last_chunk(trailers) ELSE <<>>)

----------------------------------------------------------------------------
(* Mutant: only the state is restored.                                      *)
RestoresStateOnly(saved, c) == [c EXCEPT !.st = saved.st]

Restored(saved, c) == [c EXCEPT !.st = saved.st, !.cycle = saved.cycle]

(* send_complete: the head, a body and the end of the message as one write. *)
(* Any failure restores the state and the cycle saved at the start.         *)
send_complete(c, head, length) ==
    LET data == IF length # 0 THEN send_data(head.c, length) ELSE Sent(head.c, <<>>)
        end == end_of_message(data.c, <<>>)
    IN  CASE ~head.ok -> Refused(Restored(c, head.c))
          [] head.ok /\ local_state(head.c) = "SwitchedProtocol" ->
                IF length = 0 THEN head ELSE Refused(Restored(c, head.c))
          [] head.ok /\ local_state(head.c) # "SwitchedProtocol" ->
                IF data.ok /\ end.ok THEN Sent(end.c, head.wire \o data.wire \o end.wire)
                ELSE Refused(Restored(c, end.c))

WithLength(h, length) == [h EXCEPT !.cl = Append(@, length)]

send_request_with_body(c, h, length) ==
    LET adds == (h.method \in {"POST", "PUT", "PATCH"} \/ length # 0) /\ ~has_framing(h)
    IN  send_complete(c, send_request(c, IF adds THEN WithLength(h, length) ELSE h), length)

send_response_with_body(c, h, length) ==
    LET adds == ~has_framing(h) /\ ~response_has_no_body(c, h.status)
    IN  send_complete(c, send_response(c, IF adds THEN WithLength(h, length) ELSE h), length)
=============================================================================
