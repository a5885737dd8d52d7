----------------------------- MODULE Connection -----------------------------
(***************************************************************************)
(* One Sans-I/O HTTP/1.1 connection (crates/h11r/src/connection), driven by *)
(* a caller that may make any call at any time and a peer that may send     *)
(* anything.  Each public method is one action: it always returns, with an  *)
(* event, with bytes to write, or with LocalProtocolError.                  *)
(***************************************************************************)
EXTENDS Receive, Send

CONSTANTS Settings,    \* by name, the surroundings a connection may be in
          MaxInput,    \* bound on the buffered symbols
          MaxHeld,     \* bound on the held body bytes
          MaxData      \* bound on the length of one piece of body sent

ASSUME ConnectionAssumption ==
    /\ MaxInput \in Nat /\ MaxHeld \in Nat /\ MaxData \in Nat
    /\ \A name \in DOMAIN Settings :
          LET s == Settings[name]
          IN  /\ s.role \in Roles /\ s.lenient \in BOOLEAN
              /\ s.heads \subseteq MessageHeads
              /\ \A symbol \in s.symbols : /\ symbol.tok = "head" => symbol.h \in MessageHeads
                                           /\ symbol.tok = "hex" => symbol.n \in Nat

VARIABLES setting,     \* the name of its surroundings, which do not change
          conn,        \* the Connection
          last,        \* how the last call ended
          announced,   \* what the response sent in this cycle says of reuse
          body,        \* the peer's body as its reader has seen it, as of NoBody
          final        \* has a head received so far ruled out a next message

vars == <<setting, conn, last, announced, body, final>>

(* A setting is the local role, whether the connection was made lenient,   *)
(* the symbols the peer may send and the heads the caller may try to send.  *)
Setting == Settings[setting]

Init == /\ setting \in DOMAIN Settings
        /\ conn = NewConnection(Setting.role, Setting.lenient)
        /\ last = "Ok"
        /\ announced = None
        /\ body = NoBody
        /\ final = FALSE

----------------------------------------------------------------------------
(* Receiving.                                                               *)

(* receive_data with bytes, which fails after EOF, and with none.           *)
ReceiveData(symbol) ==
    /\ Len(conn.input) < MaxInput
    /\ conn' = IF conn.eof THEN conn ELSE receive_bytes(conn, <<symbol>>)
    /\ last' = IF conn.eof THEN "LocalError" ELSE "Ok"
    /\ UNCHANGED <<announced, body, final>>

ReceiveEof ==
    /\ conn' = record_eof(conn)
    /\ last' = "Ok"
    /\ UNCHANGED <<announced, body, final>>

(* hold_body_data that answers false changes nothing.                       *)
HoldBodyData(count) ==
    /\ conn.held + count <= MaxHeld
    /\ conn' = IF hold_body_data(conn, count) THEN [conn EXCEPT !.held = @ + count] ELSE conn
    /\ last' = "Ok"
    /\ UNCHANGED <<announced, body, final>>

Deliver(p) ==
    body' = CASE p.kind \in {"Request", "Response"} -> [NoBody EXCEPT !.due = p.c.cycle.reader.n]
              [] p.kind = "Data" /\ p.chunk_start ->
                    [due |-> ChunkLength(conn), got |-> p.count, open |-> ~p.chunk_end]
              [] p.kind = "Data" /\ ~p.chunk_start /\ conn.cycle.reader.kind # "CloseDelimited" ->
                    [body EXCEPT !.got = @ + p.count, !.open = @ /\ ~p.chunk_end]
              [] OTHER -> body

NoteHead(p) ==
    final' = \/ final
             \/ /\ p.kind \in {"Request", "InformationalResponse", "Response"}
                /\ LET at == CHOOSE i \in DOMAIN conn.input :
                                /\ conn.input[i].tok = "head"
                                /\ \A j \in 1..(i - 1) : conn.input[j].tok # "head"
                   IN  IsFinal(conn.input[at].h)

NextEventInPlace(count) ==
    /\ \E p \in {next_event_in_place(conn, count)} :
          conn' = p.c /\ last' = p.kind /\ Deliver(p)
    /\ UNCHANGED <<announced, final>>

(* The caller hands over the held bytes before any next_event poll.         *)
NextEvent ==
    /\ conn.held = 0
    /\ \E p \in {next_event(conn, due) : due \in BOOLEAN} :
          conn' = p.c /\ last' = p.kind /\ Deliver(p) /\ NoteHead(p)
    /\ UNCHANGED announced

----------------------------------------------------------------------------
(* Sending.                                                                 *)

(* A call that ends in one of the outcomes.                                 *)
Call(outcomes) ==
    /\ \E r \in outcomes : conn' = r.c /\ last' = IF r.ok THEN "Ok" ELSE "LocalError"
    /\ UNCHANGED <<announced, body, final>>

SendRequest(h) == Call({send_request(conn, h)})

SendRequestWithBody(h, n) == Call({send_request_with_body(conn, h, n)})

SendInformationalResponse(h) == Call({send_informational_response(conn, h)})

(* What the head of a response tells a recipient of its version.            *)
Announce(r) ==
    announced' = IF ~r.ok \/ r.c.st.server = "SwitchedProtocol" THEN announced
                 ELSE LET h == r.wire[1].h
                      IN  IF /\ "close" \notin h.opts
                             /\ Http11(conn, h) \/ "keep-alive" \in h.opts
                          THEN "persist" ELSE "close"

Respond(outcomes) ==
    /\ \E r \in outcomes : /\ conn' = r.c /\ last' = IF r.ok THEN "Ok" ELSE "LocalError"
                           /\ Announce(r)
    /\ UNCHANGED <<body, final>>

SendResponse(h) == Respond({send_response(conn, h)})

SendResponseWithBody(h, n) == Respond({send_response_with_body(conn, h, n)})

SendData(n) == Call({send_data(conn, n)})

EndOfMessage(trailers) == Call({end_of_message(conn, trailers)})

----------------------------------------------------------------------------
StartNextCycle ==
    /\ conn' = IF CanReuse(conn) THEN start_next_cycle(conn)
               ELSE NoKeepAliveIf(UnsolicitedBytes(conn), conn)
    /\ last' = IF CanReuse(conn) THEN "Ok" ELSE "LocalError"
    /\ announced' = IF CanReuse(conn) THEN None ELSE announced
    /\ body' = IF CanReuse(conn) THEN NoBody ELSE body
    /\ UNCHANGED final

Close ==
    LET allowed == LocalAccepts(conn, StateEvent("ConnectionClosed"))
    IN  /\ conn' = IF allowed THEN close(conn) ELSE conn
        /\ last' = IF allowed THEN "Ok" ELSE "LocalError"
        /\ UNCHANGED <<announced, body, final>>

Requests == {h \in Setting.heads : h.kind = "request"}

Responses == {h \in Setting.heads : h.kind = "response"}

Receiving == \/ \E symbol \in Setting.symbols : ReceiveData(symbol)
             \/ ReceiveEof
             \/ \E count \in 0..MaxHeld : HoldBodyData(count)

Polling == \/ \E count \in 0..MaxHeld : NextEventInPlace(count)
           \/ NextEvent

Sending == \/ \E h \in Requests : \/ SendRequest(h)
                                  \/ \E n \in 0..MaxData : SendRequestWithBody(h, n)
           \/ \E h \in Responses : \/ SendResponse(h)
                                   \/ SendInformationalResponse(h)
                                   \/ \E n \in 0..MaxData : SendResponseWithBody(h, n)
           \/ \E n \in 0..MaxData : SendData(n)
           \/ \E trailers \in {<<>>, <<"field">>, <<"forbidden">>} : EndOfMessage(trailers)

Next == /\ Receiving \/ Polling \/ Sending \/ StartNextCycle \/ Close
        /\ UNCHANGED setting

Spec == Init /\ [][Next]_vars

----------------------------------------------------------------------------
(* Properties.                                                              *)

(* Every value has its type.                                                *)
TypeOK ==
    /\ setting \in DOMAIN Settings
    /\ conn \in Connections(Setting.symbols)
    /\ conn.role = Setting.role /\ conn.lenient = Setting.lenient
    /\ Len(conn.input) <= MaxInput /\ conn.held <= MaxHeld
    /\ announced \in {None, "persist", "close"}
    /\ body \in [due : Nat, got : Nat, open : BOOLEAN]
    /\ final \in BOOLEAN

S == INSTANCE ConnectionState WITH st <- conn.st, local <- conn.role

(* The calls a connection makes keep the connection state lawful: nothing   *)
(* a caller or a peer does reaches a joint state that ConnectionState rules *)
(* out, through any composition of events, errors and keep-alive decisions. *)
LifecycleInvariant ==
    S!Stabilized /\ S!ExchangeOrder /\ S!SwitchDecision /\ S!CompleteIsReusable

(* The framing of the message being sent exists exactly while the local     *)
(* actor is in its body: no call order, failed call, rollback, close or new *)
(* cycle leaves a writer behind or loses it.                                *)
WriterMatchesState ==
    (conn.cycle.writer # NoFraming) <=> (local_state(conn) = "SendBody")

(* The decoder follows the peer's state: inside a body exactly while the    *)
(* peer sends one, and back at the head otherwise, so a new cycle never     *)
(* starts in the middle of the previous body.  A poisoned peer is not read  *)
(* any more, and the empty body of a CONNECT response stays behind.         *)
ReaderMatchesState ==
    /\ peer_state(conn) = "SendBody" => conn.cycle.reader.kind # "Head"
    /\ peer_state(conn) \notin {"SendBody", "Error", "SwitchedProtocol"} =>
          conn.cycle.reader = ReadHead

(* Held bytes are payload: whatever is received, sent or answered between   *)
(* hold_body_data and next_event_in_place, the decoder is still inside a    *)
(* payload that has room for all of them.                                   *)
HeldIsPayload == conn.held > 0 => WithinPayload(conn, conn.held)

(* The reader of the events gets each body and each chunk whole: what was   *)
(* delivered and what the decoder still expects add up to the declared      *)
(* length, and a chunk is open for the reader exactly while the decoder is  *)
(* inside its data.                                                         *)
BodyAddsUp ==
    LET r == conn.cycle.reader
    IN  /\ r.kind = "Fixed" /\ peer_state(conn) = "SendBody" => body.got + r.n = body.due
        /\ r.kind = "ChunkData" /\ ~r.first => body.open /\ body.got + r.n = body.due
        /\ r.kind = "ChunkData" /\ r.first => ~body.open
        /\ r.kind = "ChunkDataEnd" => body.got = body.due
        /\ body.open => r.kind = "ChunkData"

(* A head that rules out a next message does so for good, on whichever path *)
(* it was accepted (with or without content, informational, parsed          *)
(* leniently) and whatever follows it; and so does a body, either way, that *)
(* only the end of the connection delimits.                                 *)
FinalHeadEndsReuse ==
    final \/ CloseDelimited.kind \in {conn.cycle.reader.kind, conn.cycle.writer.kind} =>
        ~conn.st.keep_alive

(* The server keeps its word: after a response that announced persistence   *)
(* nothing the request's remaining content, its errors or later calls do    *)
(* makes the server close the exchange itself, and after one that announced *)
(* close the connection is never reused.                                    *)
AnnouncementKept ==
    /\ announced = "close" => ~conn.st.keep_alive
    /\ announced = "persist" => conn.st.keep_alive /\ conn.st.client # "Error"

(* What the request proposed is known to the state machine and to the cycle *)
(* alike for as long as the server has not decided, so a response that the  *)
(* cycle takes for a switch is never refused by the state machine.          *)
ProposalsAgree ==
    conn.st.server = "SendResponse" =>
        conn.st.proposals = {k \in SwitchKinds :
                                IF k = "Connect" THEN conn.cycle.request_kind = "CONNECT"
                                ELSE conn.cycle.upgrade_proposals # {}}

(* The limit on heads bounds what a peer can make the connection keep: a    *)
(* poll that asks for more bytes leaves no more than max_head_bytes         *)
(* unparsed, in whichever section it stopped; only an unfinished chunk line *)
(* may be kept with one byte more, a final CR that may begin its line end.  *)
(* The extensions of all chunks of an accepted body together stay within    *)
(* the limit.                                                               *)
LimitsHold ==
    /\ last = "NeedData" => WithinLimit(conn)
    /\ peer_state(conn) # "Error" => conn.cycle.chunk_extension_bytes <= MaxHead

(* The documentation of client_is_waiting_for_100_continue: "Whether the    *)
(* client has sent Expect: 100-continue but has not begun its body".  A     *)
(* client whose message is complete is not waiting.                         *)
WaitingClientIsInBody == conn.cycle.waiting_for_continue => conn.st.client \in {"SendBody", "Error"}

(* Nobody waits for 100 Continue once the server has answered or switched.  *)
NoWaitAfterAnswer ==
    conn.cycle.waiting_for_continue => conn.st.server \in {"SendResponse", "Error"}

(* A failed call leaves the connection as it was: the head, body and end of *)
(* a complete message are committed together or not at all.  The exception  *)
(* is the one start_next_cycle documents.                                   *)
LocalErrorChangesNothing ==
    [][last' = "LocalError" =>
          conn' = NoKeepAliveIf(UnsolicitedBytes(conn) /\ conn'.st # conn.st, conn)]_vars

(* Every event makes progress: it takes input or held bytes, or moves the   *)
(* peer to a later state; only a closed peer repeats its event.             *)
EventsProgress ==
    [][last' \in {"Request", "InformationalResponse", "Response", "Data", "EndOfMessage"} =>
          \/ Len(conn'.input) + conn'.held < Len(conn.input) + conn.held
          \/ last' = "EndOfMessage" /\ peer_state(conn) = "SendBody"
                /\ peer_state(conn') # "SendBody"]_vars

(* Bytes after a complete message, or after a protocol switch, stay in the  *)
(* buffer for whoever comes next.                                           *)
TrailingDataKept ==
    [][peer_state(conn) \in {"Done", "MustClose", "MightSwitchProtocol", "SwitchedProtocol"} =>
          /\ Len(conn.input) <= Len(conn'.input)
          /\ conn.input = SubSeq(conn'.input, 1, Len(conn.input))]_vars
=============================================================================
