------------------------------- MODULE Cycle -------------------------------
(***************************************************************************)
(* The Connection value of crates/h11r/src/connection/mod.rs and the        *)
(* operations shared by its receiving and sending halves.  A connection c   *)
(* is the record of the Rust struct; operations map the value before to the *)
(* value after.                                                             *)
(***************************************************************************)
EXTENDS Wire

(* Reader.  n is what remains of a payload, first is the flag of Chunk::Data.*)
ReaderKinds == {"Head", "Fixed", "CloseDelimited", "ChunkSize", "ChunkData",
                "ChunkDataEnd", "ChunkTrailers"}

Readers == [kind : ReaderKinds, n : Nat, first : BOOLEAN]

Reader(kind, n) == [kind |-> kind, n |-> n, first |-> FALSE]

ReadHead == Reader("Head", 0)

(* Cycle: what the connection knows of the current exchange.                *)
Cycles == [reader                  : Readers,
           writer                  : [kind : {None, "Fixed", "Chunked", "CloseDelimited"}, n : Nat],
           chunk_extension_bytes   : Nat,
           request_kind            : {None, "Other", "HEAD", "CONNECT"},
           upgrade_proposals       : SUBSET STRING,
           waiting_for_continue    : BOOLEAN,
           continue_before_upgrade : BOOLEAN]

DefaultCycle == [reader                  |-> ReadHead,
                 writer                  |-> NoFraming,
                 chunk_extension_bytes   |-> 0,
                 request_kind            |-> None,
                 upgrade_proposals       |-> {},
                 waiting_for_continue    |-> FALSE,
                 continue_before_upgrade |-> FALSE]

(* Connection, of a peer that sends the symbols.  peer_version is 0 before  *)
(* the peer's first head.                                                   *)
Connections(symbols) ==
    [role : Roles, lenient : BOOLEAN, st : ConnectionStates, input : Seq(symbols), held : Nat,
     eof : BOOLEAN, peer_version : {0, 10, 11}, cycle : Cycles]

NewConnection(role, lenient) ==
    [role |-> role, lenient |-> lenient, st |-> new, input |-> <<>>, held |-> 0,
     eof |-> FALSE, peer_version |-> 0, cycle |-> DefaultCycle]

local_state(c) == state(c.st, c.role)

peer_state(c) == state(c.st, peer(c.role))

(* advance_peer and advance_local.                                          *)
PeerAccepts(c, ev) == Accepts(c.st, peer(c.role), ev)

advance_peer(c, ev) == [c EXCEPT !.st = process_event(@, peer(c.role), ev)]

LocalAccepts(c, ev) == Accepts(c.st, c.role, ev)

advance_local(c, ev) == [c EXCEPT !.st = process_event(@, c.role, ev)]

NoKeepAliveIf(condition, c) ==
    IF condition THEN [c EXCEPT !.st = disable_keep_alive(@)] ELSE c

----------------------------------------------------------------------------
RequestKind(method) == IF method \in {"HEAD", "CONNECT"} THEN method ELSE "Other"

opens_tunnel(c, status) == c.cycle.request_kind = "CONNECT" /\ is_success(status)

response_has_no_body(c, status) ==
    status \in {204, 304} \/ c.cycle.request_kind = "HEAD" \/ opens_tunnel(c, status)

final_response_event(c, status) ==
    IF opens_tunnel(c, status) THEN ProtocolSwitch("Connect") ELSE StateEvent("Response")

valid_upgrade_response(c, h) ==
    /\ h.version = 11
    /\ "upgrade" \in h.opts
    /\ h.upgrade # {}
    /\ h.upgrade \subseteq c.cycle.upgrade_proposals

(* Mutant: a switch does not wait for 100 Continue.                         *)
SwitchBeforeContinue(c, h) == h.status = 101 => valid_upgrade_response(c, h)

(* informational_event is None for a 101 that selects no offered upgrade.   *)
HasInformationalEvent(c, h) ==
    h.status = 101 => ~c.cycle.continue_before_upgrade /\ valid_upgrade_response(c, h)

informational_event(h) ==
    IF h.status = 101 THEN ProtocolSwitch("Upgrade") ELSE StateEvent("InformationalResponse")

(* Mutant: a CONNECT request cannot propose an upgrade as well.             *)
ProposesOneSwitch(method, upgrades) ==
    Request(IF method = "CONNECT" THEN {"Connect"}
            ELSE IF upgrades # {} THEN {"Upgrade"} ELSE {})

request_event(method, upgrades) ==
    Request((IF method = "CONNECT" THEN {"Connect"} ELSE {})
              \cup (IF upgrades # {} THEN {"Upgrade"} ELSE {}))

----------------------------------------------------------------------------
(* The record_* methods.                                                    *)
record_request(c, h, f, upgrades) ==
    LET waits == expects_continue(h, f)
    IN  [NoKeepAliveIf(~persistent(h), c) EXCEPT
            !.cycle.request_kind = RequestKind(h.method),
            !.cycle.waiting_for_continue = waits,
            !.cycle.continue_before_upgrade = waits /\ upgrades # {},
            !.cycle.upgrade_proposals = upgrades]

(* Mutant: 100 Continue is an informational response like any other.        *)
IgnoresContinue(c, status) == c

record_informational(c, status) ==
    IF status = 100
    THEN [c EXCEPT !.cycle.waiting_for_continue = FALSE,
                   !.cycle.continue_before_upgrade = FALSE]
    ELSE c

record_response(c) ==
    [c EXCEPT !.cycle.waiting_for_continue = FALSE,
              !.cycle.continue_before_upgrade = FALSE,
              !.cycle.upgrade_proposals = {}]

----------------------------------------------------------------------------
(* start_next_cycle fails, closing, for a client with unsolicited bytes; it *)
(* fails without effect when the exchange is not complete and reusable.     *)
UnsolicitedBytes(c) == c.role = "client" /\ peer_state(c) = "Done" /\ c.input # <<>>

CanReuse(c) == ~UnsolicitedBytes(c) /\ CanStartNextCycle(c.st)

start_next_cycle(c) == [c EXCEPT !.st = new, !.cycle = DefaultCycle]

close(c) == [advance_local(c, StateEvent("ConnectionClosed")) EXCEPT !.cycle.writer = NoFraming]
=============================================================================
