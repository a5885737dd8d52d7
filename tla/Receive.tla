------------------------------ MODULE Receive ------------------------------
(***************************************************************************)
(* Reading peer bytes into events (crates/h11r/src/connection/receive.rs).  *)
(* An outcome of a poll is its kind (an event, NeedData, Paused or Err),    *)
(* the connection after it and, for Data, the count and the chunk flags.    *)
(***************************************************************************)
EXTENDS Cycle

CONSTANT MaxHead   \* Limits::max_head_bytes, in symbols

ASSUME MaxHeadAssumption == MaxHead \in Nat \ {0}

(* receive_data with bytes, and with none.                                  *)
receive_bytes(c, s) == [c EXCEPT !.input = @ \o s]

record_eof(c) == NoKeepAliveIf(c.role = "client", [c EXCEPT !.eof = TRUE])

Polled(kind, c) ==
    [kind |-> kind, c |-> c, count |-> 0, chunk_start |-> FALSE, chunk_end |-> FALSE]

(* Mutant: the end of the transport is forgotten.                           *)
AlwaysNeedData(c) == Polled("NeedData", c)

need_data_or_eof(c) == Polled(IF c.eof THEN "Err" ELSE "NeedData", c)

(* What the peer's part of the state machine refuses is a protocol error.   *)
IfPeerAccepts(c, ev, outcome) == IF PeerAccepts(c, ev) THEN outcome ELSE Polled("Err", c)

peer_data(c, count, chunk_start, chunk_end) ==
    IfPeerAccepts(c, StateEvent("Data"),
        [Polled("Data", [advance_peer(c, StateEvent("Data"))
                            EXCEPT !.cycle.waiting_for_continue = FALSE])
            EXCEPT !.count = count, !.chunk_start = chunk_start, !.chunk_end = chunk_end])

(* Mutant: the decoder stays in the finished body.                          *)
FinishKeepsReader(c) ==
    IfPeerAccepts(c, StateEvent("EndOfMessage"),
        Polled("EndOfMessage", advance_peer(c, StateEvent("EndOfMessage"))))

finish_peer(c) ==
    IfPeerAccepts(c, StateEvent("EndOfMessage"),
        Polled("EndOfMessage", [advance_peer(c, StateEvent("EndOfMessage"))
                                   EXCEPT !.cycle.reader = ReadHead]))

peer_closed(c) ==
    IfPeerAccepts(c, StateEvent("ConnectionClosed"),
        Polled("ConnectionClosed", advance_peer(c, StateEvent("ConnectionClosed"))))

----------------------------------------------------------------------------
(* Payload.                                                                 *)

payload_reader(c) ==
    /\ peer_state(c) = "SendBody"
    /\ \/ c.cycle.reader.kind = "Fixed" /\ c.cycle.reader.n > 0
       \/ c.cycle.reader.kind \in {"ChunkData", "CloseDelimited"}

(* payload_remaining is unbounded while the peer's close ends the body.     *)
WithinPayload(c, count) ==
    payload_reader(c) /\ (c.cycle.reader.kind # "CloseDelimited" => count <= c.cycle.reader.n)

(* Mutant: bytes beyond the payload are taken too.                          *)
PayloadTakesAll(c, available) ==
    LET r == c.cycle.reader
        next == IF r.kind = "CloseDelimited" THEN r ELSE Reader(r.kind, r.n - available)
    IN  peer_data([c EXCEPT !.cycle.reader = next], available, r.first, r.n = available)

(* Mutant: every piece of a chunk is taken for its first.                   *)
PayloadKeepsFirst(c, available) ==
    LET r == c.cycle.reader
        count == IF r.kind # "CloseDelimited" /\ r.n < available THEN r.n ELSE available
        last == r.kind = "ChunkData" /\ count = r.n
        next == IF last THEN Reader("ChunkDataEnd", 0) ELSE [r EXCEPT !.n = @ - count]
    IN  peer_data([c EXCEPT !.cycle.reader = IF r.kind = "CloseDelimited" THEN r ELSE next],
                  count, r.first, last)

(* advance_payload, with the Data event it leads to.                        *)
advance_payload(c, available) ==
    LET r == c.cycle.reader
        sized == r.kind \in {"Fixed", "ChunkData"}
        count == IF sized /\ r.n < available THEN r.n ELSE available
        last == r.kind = "ChunkData" /\ count = r.n
        next == CASE ~sized -> r
                  [] last -> Reader("ChunkDataEnd", 0)
                  [] OTHER -> Reader(r.kind, r.n - count)
    IN  peer_data([c EXCEPT !.cycle.reader = next], count, r.first, last)

read_payload(c) ==
    IF c.input = <<>> THEN need_data_or_eof(c) ELSE advance_payload(c, Len(c.input))

(* Mutant: bytes already held are not counted.                              *)
HoldForgetsHeld(c, count) ==
    count # 0 /\ ~c.eof /\ c.input = <<>> /\ WithinPayload(c, count)

hold_body_data(c, count) ==
    count # 0 /\ ~c.eof /\ c.input = <<>> /\ WithinPayload(c, c.held + count)

(* Mutant: bytes handed over still count as held.                           *)
HeldNotReduced(c, count) ==
    IF count = 0 \/ count > c.held THEN Polled("LocalError", c) ELSE advance_payload(c, count)

(* Its failures are the caller's: they do not poison the peer.              *)
next_event_in_place(c, count) ==
    LET p == advance_payload(c, count)
    IN  IF count = 0 \/ count > c.held THEN Polled("LocalError", c)
        ELSE IF p.kind = "Err" THEN [p EXCEPT !.kind = "LocalError"]
        ELSE [p EXCEPT !.c.held = @ - count]

----------------------------------------------------------------------------
(* Field sections.  due stands for the schedule of SectionProgress::due,    *)
(* which may parse an unfinished section early, or not.                     *)

section(c) == Prefix(c.input, MaxHead)

section_due(c, skip, due) ==
    due \/ c.eof \/ Len(c.input) > MaxHead \/ Terminated(c.input, skip)

wait_for_section(c) ==
    IF Len(c.input) <= MaxHead THEN need_data_or_eof(c) ELSE Polled("Err", c)

(* An invalid Upgrade field proposes nothing.                               *)
Upgrades(h) ==
    IF h.version = 11 /\ "upgrade" \in h.opts /\ BadProtocol \notin h.upgrade THEN h.upgrade ELSE {}

accept_request(c, h) ==
    LET f == framing(h, h.version, FALSE)
        ev == request_event(h.method, Upgrades(h))
    IN  IF ~h.valid \/ f = FramingError \/ content_forbidden(h.method, f)
        THEN Polled("Err", c)
        ELSE IfPeerAccepts(c, ev,
                Polled("Request", [record_request(advance_peer(c, ev), h, f, Upgrades(h))
                    EXCEPT !.peer_version = h.version,
                           !.cycle.reader = Reader(IF f = Chunked THEN "ChunkSize" ELSE f.kind, f.n)]))

accept_informational(c, h) ==
    LET ev == informational_event(h)
        faulty == framing(h, h.version, TRUE) = FramingError
    IN  IF ~HasInformationalEvent(c, h) THEN Polled("Err", c)
        ELSE IfPeerAccepts(c, ev,
                Polled("InformationalResponse",
                    [record_informational(NoKeepAliveIf(faulty, advance_peer(c, ev)), h.status)
                        EXCEPT !.peer_version = h.version]))

(* Mutant: faulty framing fields do not matter without content.             *)
OnlyCloseDelimitedCloses(bodyless, declared) == ~bodyless /\ declared = CloseDelimited

(* The framing of a final response that forbids reuse.                      *)
FramingCloses(bodyless, declared) ==
    IF bodyless THEN declared = FramingError ELSE declared = CloseDelimited

(* A framing error is found after the response was recorded.                *)
accept_final(c, h) ==
    LET ev == final_response_event(c, h.status)
        declared == framing(h, h.version, TRUE)
        bodyless == response_has_no_body(c, h.status)
        f == IF bodyless THEN Fixed(0) ELSE declared
        recorded == [record_response(NoKeepAliveIf(~persistent(h), advance_peer(c, ev)))
                        EXCEPT !.peer_version = h.version]
    IN  IfPeerAccepts(c, ev,
            IF f = FramingError THEN Polled("Err", recorded)
            ELSE Polled("Response", [NoKeepAliveIf(FramingCloses(bodyless, declared), recorded)
                    EXCEPT !.cycle.reader = Reader(IF f = Chunked THEN "ChunkSize" ELSE f.kind, f.n)]))

accept_response(c, h) ==
    IF local_state(c) = "Idle" THEN Polled("Err", c)
    ELSE IF is_informational(h.status) THEN accept_informational(c, h)
    ELSE accept_final(c, h)

read_head(c, due) ==
    LET p == parse_head(section(c), IF c.role = "server" THEN "request" ELSE "response", c.lenient)
        h == c.input[p.end].h
        rest == NoKeepAliveIf(h.syntax = "dropped", [c EXCEPT !.input = Skip(@, p.end)])
    IN  IF ~section_due(c, TRUE, due) \/ p.status = "Partial" THEN wait_for_section(c)
        ELSE IF p.status = "Err" THEN Polled("Err", c)
        ELSE IF c.role = "server" THEN accept_request(rest, h)
        ELSE accept_response(rest, h)

----------------------------------------------------------------------------
(* Chunked bodies.  One poll goes through the line end of the last chunk,   *)
(* the next size line, and on to the data or the trailers.                  *)

read_trailers(c, due) ==
    LET p == parse_trailers(section(c))
    IN  IF ~section_due(c, FALSE, due) \/ p.status = "Partial" THEN wait_for_section(c)
        ELSE IF p.status = "Err" THEN Polled("Err", c)
        ELSE finish_peer([c EXCEPT !.input = Skip(@, p.end)])

read_chunk_size(c, due) ==
    LET end == find_crlf(c.input)
        extensions == c.cycle.chunk_extension_bytes + end - 2
        counted == [c EXCEPT !.cycle.chunk_extension_bytes = extensions]
        rest == [counted EXCEPT !.input = Skip(@, end)]
        size == c.input[1].n
    IN  IF end = 0 THEN IF incomplete_line_len(c.input) > MaxHead THEN Polled("Err", c) ELSE need_data_or_eof(c)
        ELSE IF end - 1 > MaxHead \/ ~valid_chunk_header(c.input, end) THEN Polled("Err", c)
        ELSE IF extensions > MaxHead THEN Polled("Err", counted)
        ELSE IF size = 0 THEN read_trailers([rest EXCEPT !.cycle.reader = Reader("ChunkTrailers", 0)], due)
        ELSE read_payload([rest EXCEPT !.cycle.reader = [kind |-> "ChunkData", n |-> size, first |-> TRUE]])

(* A line end is two bytes: one lone byte is not judged yet.                *)
read_chunk_end(c, due) ==
    IF c.input = <<>> \/ (Len(c.input) = 1 /\ c.input[1].tok \in {"byte", "bad", "hex", "cr"})
    THEN need_data_or_eof(c)
    ELSE IF c.input[1].tok # "crlf" THEN Polled("Err", c)
    ELSE read_chunk_size([c EXCEPT !.input = Skip(@, 1), !.cycle.reader = Reader("ChunkSize", 0)], due)

----------------------------------------------------------------------------
read_close_delimited(c) ==
    IF c.input # <<>> THEN peer_data(c, Len(c.input), FALSE, FALSE)
    ELSE IF c.eof THEN finish_peer(c)
    ELSE Polled("NeedData", c)

read_message(c, due) ==
    CASE c.cycle.reader.kind = "Head" -> read_head(c, due)
      [] c.cycle.reader.kind = "Fixed" -> IF c.cycle.reader.n = 0 THEN finish_peer(c) ELSE read_payload(c)
      [] c.cycle.reader.kind = "CloseDelimited" -> read_close_delimited(c)
      [] c.cycle.reader.kind = "ChunkSize" -> read_chunk_size(c, due)
      [] c.cycle.reader.kind = "ChunkData" -> read_payload(c)
      [] c.cycle.reader.kind = "ChunkDataEnd" -> read_chunk_end(c, due)
      [] c.cycle.reader.kind = "ChunkTrailers" -> read_trailers(c, due)

(* Mutant: what follows the last message is thrown away.                    *)
DiscardsTrailingData(c) ==
    IF c.eof THEN peer_closed([c EXCEPT !.input = <<>>])
    ELSE Polled("NeedData", [c EXCEPT !.input = <<>>])

(* A finished peer: its next bytes wait for the caller.                     *)
read_finished(c) ==
    IF c.input # <<>> THEN Polled("Paused", c)
    ELSE IF c.eof THEN peer_closed(c)
    ELSE Polled("NeedData", c)

next_event_inner(c, due) ==
    LET s == peer_state(c)
    IN  CASE s = "Closed" -> Polled("ConnectionClosed", c)
          [] s = "Idle" /\ c.eof /\ Len(c.input) <= MaxHead /\ only_empty_lines(c.input) ->
                peer_closed([c EXCEPT !.input = <<>>])
          [] s \in {"MightSwitchProtocol", "SwitchedProtocol"} -> Polled("Paused", c)
          [] s \in {"Done", "MustClose"} -> read_finished(c)
          [] s = "Error" -> Polled("Err", c)
          [] OTHER -> read_message(c, due)

(* Mutant: body bytes are delivered and stay in the buffer.                 *)
DataStaysBuffered(c, due) ==
    LET p == next_event_inner(c, due)
    IN  IF p.kind = "Err" THEN [p EXCEPT !.c.st = process_error(@, peer(c.role))] ELSE p

(* A failure poisons the peer; data leaves the buffer with its event.       *)
next_event(c, due) ==
    LET p == next_event_inner(c, due)
    IN  CASE p.kind = "Err" -> [p EXCEPT !.c.st = process_error(@, peer(c.role))]
          [] p.kind = "Data" -> [p EXCEPT !.c.input = Skip(@, p.count)]
          [] OTHER -> p

----------------------------------------------------------------------------
(* What the reader of the events makes of them.                             *)

(* A body: due is the length of the current Content-Length body or chunk,   *)
(* got what was delivered of it, open whether a chunk was started and not   *)
(* ended.                                                                   *)
NoBody == [due |-> 0, got |-> 0, open |-> FALSE]

(* The length of the chunk a Data event starts: its size line was read by   *)
(* an earlier poll or is the first one in the input.                        *)
ChunkLength(c) ==
    IF c.cycle.reader.kind = "ChunkData" THEN c.cycle.reader.n
    ELSE LET sizes == {i \in DOMAIN c.input : c.input[i].tok = "hex"}
         IN  c.input[CHOOSE i \in sizes : \A j \in sizes : i <= j].n

(* What may stay unparsed when more bytes are asked for: as much as the     *)
(* limit allows, and one CR more at the end of an unfinished chunk line.    *)
WithinLimit(c) ==
    Len(c.input) > MaxHead =>
        /\ c.cycle.reader.kind = "ChunkSize"
        /\ Len(c.input) = MaxHead + 1 /\ c.input[MaxHead + 1].tok = "cr"

(* A head after which no other message may follow: it asks to close, its    *)
(* framing fields are faulty, or a field line of it was lost.               *)
IsFinal(h) ==
    \/ ~is_informational(h.status) /\ ~persistent(h)
    \/ framing(h, h.version, h.kind = "response") = FramingError
    \/ h.syntax = "dropped"
=============================================================================
