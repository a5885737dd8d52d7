------------------------------- MODULE State -------------------------------
(***************************************************************************)
(* The lifecycle state of one HTTP/1.1 connection, as the operators of      *)
(* crates/h11r/src/state.rs.  A connection state is a record of the states  *)
(* of the two protocol actors, the keep-alive flag and the protocol         *)
(* switches the current request proposes.  An operation takes the state     *)
(* before and returns the state after; one that Rust rejects with           *)
(* InvalidTransition is described by the predicate Accepts.                 *)
(***************************************************************************)
EXTENDS Naturals

Roles == {"client", "server"}

peer(role) == IF role = "client" THEN "server" ELSE "client"

States == {"Idle", "SendResponse", "SendBody", "Done", "MightSwitchProtocol",
           "SwitchedProtocol", "MustClose", "Closed", "Error"}

SwitchKinds == {"Connect", "Upgrade"}

(* SwitchProposals: the two flags as the set of the kinds proposed.         *)
ConnectionStates == [client : States, server : States,
                     keep_alive : BOOLEAN, proposals : SUBSET SwitchKinds]

(* StateEvent.  switches is the payload of Request (the proposals) and of   *)
(* ProtocolSwitch (the one kind), and empty otherwise.                      *)
StateEvent(kind) == [kind |-> kind, switches |-> {}]

Request(proposals) == [kind |-> "Request", switches |-> proposals]

ProtocolSwitch(kind) == [kind |-> "ProtocolSwitch", switches |-> {kind}]

StateEvents ==
    {Request(p) : p \in SUBSET SwitchKinds}
        \cup {ProtocolSwitch(k) : k \in SwitchKinds}
        \cup {StateEvent(k) : k \in {"InformationalResponse", "Response", "Data",
                                     "EndOfMessage", "ConnectionClosed"}}

new == [client |-> "Idle", server |-> "Idle", keep_alive |-> TRUE, proposals |-> {}]

state(c, role) == IF role = "client" THEN c.client ELSE c.server

WithState(c, role, s) ==
    IF role = "client" THEN [c EXCEPT !.client = s] ELSE [c EXCEPT !.server = s]

----------------------------------------------------------------------------
(* direct_transition: one actor's own state machine; None is a rejection.   *)
None == "None"

direct_transition(role, s, kind) ==
    CASE role = "client" /\ s = "Idle" /\ kind = "Request" -> "SendBody"
      [] role = "server" /\ s \in {"Idle", "SendResponse"} /\ kind = "Response" -> "SendBody"
      [] role = "server" /\ s = "SendResponse" /\ kind = "InformationalResponse" -> "SendResponse"
      [] role = "server" /\ s = "SendResponse" /\ kind = "ProtocolSwitch" -> "SwitchedProtocol"
      [] s = "SendBody" /\ kind = "Data" -> "SendBody"
      [] s = "SendBody" /\ kind = "EndOfMessage" -> "Done"
      [] s \in {"Idle", "Done", "MustClose", "Closed"} /\ kind = "ConnectionClosed" -> "Closed"
      [] OTHER -> None

----------------------------------------------------------------------------
(* One turn of the loop in stabilize, rule after rule in the code's order.  *)

(* A completed request waits for the server's decision, which either        *)
(* switches the client too or, once no proposal is left, releases it.       *)
ResolveSwitch(c) ==
    LET waits == \/ c.client = "Done" /\ c.proposals # {}
                 \/ c.client = "MightSwitchProtocol"
        client == IF ~waits THEN c.client
                  ELSE IF c.server = "SwitchedProtocol" THEN "SwitchedProtocol"
                  ELSE IF c.proposals = {} THEN "Done"
                  ELSE "MightSwitchProtocol"
        both == client = "SwitchedProtocol" /\ c.server = "SwitchedProtocol"
    IN  [c EXCEPT !.client = client,
                  !.proposals = IF both THEN {} ELSE c.proposals]

(* Without keep-alive a finished actor must close.                          *)
RequireClose(c) ==
    LET closes(s) == IF ~c.keep_alive /\ s = "Done" THEN "MustClose" ELSE s
    IN  [c EXCEPT !.client = closes(c.client), !.server = closes(c.server)]

(* Mutant: a failed actor strands a peer that has not started, as a closed  *)
(* one does.                                                                *)
ErrorStrandsIdle(c) ==
    LET strands(gone, other) == gone \in {"Closed", "Error"} /\ other \in {"Done", "Idle"}
    IN  IF strands(c.client, c.server) THEN [c EXCEPT !.server = "MustClose"]
        ELSE IF strands(c.server, c.client) THEN [c EXCEPT !.client = "MustClose"]
        ELSE c

(* An actor that closed or failed leaves nothing to do for a peer that has  *)
(* no message under way.                                                    *)
PropagateClose(c) ==
    LET strands(gone, other) ==
            \/ gone = "Closed" /\ other \in {"Done", "Idle"}
            \/ gone = "Error" /\ other = "Done"
    IN  IF strands(c.client, c.server) THEN [c EXCEPT !.server = "MustClose"]
        ELSE IF strands(c.server, c.client) THEN [c EXCEPT !.client = "MustClose"]
        ELSE c

(* Mutant: closing wins over switching.                                     *)
ClosePassFirst(c) == ResolveSwitch(PropagateClose(RequireClose(c)))

StabilizePass(c) == PropagateClose(RequireClose(ResolveSwitch(c)))

(* The loop ends after at most two passes: StabilizeReachesFixpoint of      *)
(* CallProofs shows that the second one changes nothing.                    *)
stabilize(c) ==
    LET once == StabilizePass(c)
    IN  IF once = c THEN c ELSE StabilizePass(once)

----------------------------------------------------------------------------
(* Mutant: any event moves any actor.                                       *)
AcceptsAnyState(c, role, ev) ==
    role = "client" /\ ev.kind = "Request" => c.server = "Idle"

(* Mutant: a request does not ask whether the server is free.               *)
AcceptsBusyServer(c, role, ev) ==
    /\ direct_transition(role, state(c, role), ev.kind) # None
    /\ role = "server" /\ ev.kind = "ProtocolSwitch" => ev.switches \subseteq c.proposals

(* process_event is rejected when the actor's own machine has no such edge, *)
(* when a request finds the server busy, and when a switch was not proposed.*)
Accepts(c, role, ev) ==
    /\ direct_transition(role, state(c, role), ev.kind) # None
    /\ role = "client" /\ ev.kind = "Request" => c.server = "Idle"
    /\ role = "server" /\ ev.kind = "ProtocolSwitch" => ev.switches \subseteq c.proposals

(* Mutant: a request does not oblige the server.                            *)
ServerStaysIdle(c, role, ev) ==
    IF role = "client" /\ ev.kind = "Request" THEN [c EXCEPT !.proposals = ev.switches] ELSE c

(* What the event does to the state besides moving its own actor.           *)
JointEffect(c, role, ev) ==
    CASE role = "client" /\ ev.kind = "Request" ->
            [c EXCEPT !.proposals = ev.switches, !.server = "SendResponse"]
      [] role = "server" /\ ev.kind = "Response" ->
            [c EXCEPT !.proposals = {},
                      !.keep_alive = /\ c.keep_alive
                                     /\ "Connect" \notin c.proposals
                                     /\ c.server # "Idle"]
      [] OTHER -> c

(* The successful outcome; the fast path for body data skips stabilize.     *)
process_event(c, role, ev) ==
    IF ev.kind = "Data" THEN c
    ELSE stabilize(WithState(JointEffect(c, role, ev), role,
                             direct_transition(role, state(c, role), ev.kind)))

(* Mutant: the joint rules are not run.                                     *)
DisableWithoutStabilize(c) == [c EXCEPT !.keep_alive = FALSE]

disable_keep_alive(c) == stabilize([c EXCEPT !.keep_alive = FALSE])

process_error(c, role) ==
    stabilize(WithState([c EXCEPT !.keep_alive = FALSE], role, "Error"))

CanStartNextCycle(c) ==
    c.client = "Done" /\ c.server = "Done" /\ c.keep_alive /\ c.proposals = {}

----------------------------------------------------------------------------
(* Connection::keep_alive, the answer the user of a connection sees.        *)
keep_alive(c) ==
    /\ c.keep_alive
    /\ {c.client, c.server} \cap {"MustClose", "Closed", "Error", "SwitchedProtocol"} = {}
=============================================================================
