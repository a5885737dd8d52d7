-------------------------- MODULE ConnectionState --------------------------
(***************************************************************************)
(* The connection state of crates/h11r/src/state.rs as a state machine of   *)
(* its own: every sequence of calls that the connection which owns it can   *)
(* make.  A rejected call returns InvalidTransition and changes nothing, so *)
(* it is a stuttering step.                                                 *)
(***************************************************************************)
EXTENDS State

VARIABLES st,      \* the ConnectionState
          local    \* the role of the endpoint that owns it

vars == <<st, local>>

Init == /\ st = new
        /\ local \in Roles

(* process_event, for either actor: what the local endpoint sends advances  *)
(* the local role and what it receives advances the peer's.                 *)
ProcessEvent(role, ev) ==
    /\ Accepts(st, role, ev)
    /\ st' = process_event(st, role, ev)
    /\ UNCHANGED local

DisableKeepAlive ==
    /\ st' = disable_keep_alive(st)
    /\ UNCHANGED local

(* process_error is reached only from next_event, which fails only in these *)
(* states of the peer; in the others it returns before it reads any input.  *)
ReadableStates == {"Idle", "SendResponse", "SendBody", "Error"}

ProcessError ==
    /\ state(st, peer(local)) \in ReadableStates
    /\ st' = process_error(st, peer(local))
    /\ UNCHANGED local

StartNextCycle ==
    /\ CanStartNextCycle(st)
    /\ st' = new
    /\ UNCHANGED local

Next == \/ \E role \in Roles, ev \in StateEvents : ProcessEvent(role, ev)
        \/ DisableKeepAlive
        \/ ProcessError
        \/ StartNextCycle

Spec == Init /\ [][Next]_vars

----------------------------------------------------------------------------
(* Every reachable state is a ConnectionState, and "each role reaches only  *)
(* the states meaningful to its half of the exchange" (state.rs, State).    *)
TypeOK == /\ st \in ConnectionStates
          /\ st.client # "SendResponse"
          /\ st.server # "MightSwitchProtocol"
          /\ local \in Roles

(* "The stored state is always stabilized" (the comment that justifies the  *)
(* fast path of process_event): after every call, whichever actor it moved, *)
(* no joint rule of stabilize is left to apply.                             *)
Stabilized == StabilizePass(st) = st

(* An exchange belongs to both actors: a client is idle only while the      *)
(* server has not been asked for anything, and then a server that spoke     *)
(* first has given up keep-alive; a server is idle only before a request;   *)
(* a client that has finished its request is answered by a server that      *)
(* still owes, is sending or has finished the response.                     *)
ExchangeOrder ==
    /\ st.client = "Idle" => \/ st.server = "Idle"
                             \/ st.server \in {"SendBody", "MustClose", "Error"} /\ ~st.keep_alive
    /\ st.server = "Idle" => st.client \in {"Idle", "Error"}
    /\ st.client = "Done" => st.server \in {"SendResponse", "SendBody", "Done"}

(* A protocol switch is decided once and for both actors: proposals wait    *)
(* only for a server that has not answered yet (or switched while the       *)
(* request body is still coming); a client waits for the decision only      *)
(* while there is one to come; and when the server has switched, the client *)
(* is still sending its request, has switched too, or has failed, but is    *)
(* never left in the HTTP lifecycle.                                        *)
SwitchDecision ==
    /\ st.proposals # {} => /\ st.client \in {"SendBody", "MightSwitchProtocol", "Error"}
                            /\ st.server \in {"SendResponse", "SwitchedProtocol", "Error"}
    /\ st.client = "MightSwitchProtocol" => /\ st.proposals # {}
                                            /\ st.server \in {"SendResponse", "Error"}
    /\ st.server = "SwitchedProtocol" => st.client \in {"SendBody", "SwitchedProtocol", "Error"}
    /\ st.client = "SwitchedProtocol" => st.server = "SwitchedProtocol"

(* What the documentation of Connection::keep_alive promises: when it is    *)
(* still true after both messages are complete, start_next_cycle accepts;   *)
(* and two actors that are both Done are never refused.                     *)
CompleteIsReusable ==
    st.client = "Done" /\ st.server = "Done" => keep_alive(st) /\ CanStartNextCycle(st)

(* A failure of the peer never takes away the message the local actor has   *)
(* started or owes: after process_error a server may still send the error   *)
(* response that RemoteProtocolError suggests.                              *)
ErrorKeepsLocalMessage ==
    [][ state(st, local) \in {"Idle", "SendResponse", "SendBody"}
          /\ state(st', peer(local)) = "Error" /\ state(st, peer(local)) # "Error"
        => state(st', local) = state(st, local) ]_vars

(* The connection state implements the sequence of exchanges of Lifecycle:  *)
(* an actor that has closed, failed, switched or must close is gone.        *)
PhaseOf(s) ==
    CASE s = "Idle" -> "Ready"
      [] s \in {"SendResponse", "SendBody"} -> "Active"
      [] s \in {"Done", "MightSwitchProtocol"} -> "Finished"
      [] OTHER -> "Gone"

L == INSTANCE Lifecycle WITH
        phase <- [a \in Roles |-> PhaseOf(state(st, a))],
        reuse <- keep_alive(st)

(* Every step of the connection state is a step of Lifecycle or a stutter.  *)
Exchanges == L!Spec
=============================================================================
