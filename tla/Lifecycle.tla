----------------------------- MODULE Lifecycle -----------------------------
(***************************************************************************)
(* What the connection state of crates/h11r/src/state.rs promises to the    *)
(* user of a connection, without saying how: the requests and responses of  *)
(* one connection form a sequence of exchanges, one after the other, and    *)
(* the connection's answer to "may HTTP go on here" is never taken back     *)
(* once it is no.                                                           *)
(*                                                                          *)
(* An actor is Ready for its next message, Active while its message is      *)
(* owed or under way, Finished when it is complete, and Gone when it will   *)
(* never send another HTTP message on this connection.                      *)
(***************************************************************************)

Actors == {"client", "server"}

Phases == {"Ready", "Active", "Finished", "Gone"}

VARIABLES phase,   \* the phase of each actor
          reuse    \* may HTTP continue after the current exchange

vars == <<phase, reuse>>

Init == /\ phase = [a \in Actors |-> "Ready"]
        /\ reuse = TRUE

(* The client's request begins an exchange and obliges the server.          *)
StartExchange ==
    /\ phase["client"] = "Ready" /\ phase["server"] = "Ready"
    /\ phase' = [a \in Actors |-> "Active"]
    /\ UNCHANGED reuse

(* A server may answer before any valid request, but then never again.      *)
EarlyResponse ==
    /\ phase["server"] = "Ready"
    /\ phase' = [phase EXCEPT !["server"] = "Active"]
    /\ reuse' = FALSE

Finish(a) ==
    /\ phase[a] = "Active"
    /\ phase' = [phase EXCEPT ![a] = "Finished"]
    /\ UNCHANGED reuse

(* Some actors leave for good (they close, fail, switch protocol or must    *)
(* close), or the connection just announces that it will not be reused.     *)
GiveUp ==
    /\ \E leaving \in SUBSET Actors :
          phase' = [a \in Actors |-> IF a \in leaving THEN "Gone" ELSE phase[a]]
    /\ reuse' = FALSE

(* Both messages are complete and the connection may go on.                 *)
NextExchange ==
    /\ reuse
    /\ phase = [a \in Actors |-> "Finished"]
    /\ phase' = [a \in Actors |-> "Ready"]
    /\ UNCHANGED reuse

Next == \/ StartExchange
        \/ EarlyResponse
        \/ \E a \in Actors : Finish(a)
        \/ GiveUp
        \/ NextExchange

Spec == Init /\ [][Next]_vars
=============================================================================
