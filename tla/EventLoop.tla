----------------------------- MODULE EventLoop -----------------------------
(***************************************************************************)
(* A connection whose caller runs an event loop around it: whatever else it *)
(* does in between, it never stops polling, and it polls as the             *)
(* documentation of hold_body_data asks, held bytes first.                  *)
(***************************************************************************)
EXTENDS Connection

VARIABLE polled   \* changes with every poll

loopVars == <<vars, polled>>

LoopInit == Init /\ polled = FALSE

Poll == /\ Polling
        /\ last' # "LocalError"
        /\ polled' = ~polled
        /\ UNCHANGED setting

OtherCall == /\ Receiving \/ Sending \/ StartNextCycle \/ Close
             /\ UNCHANGED <<setting, polled>>

LoopNext == Poll \/ OtherCall

(* In every state one of the two polls can be made: next_event when nothing *)
(* is held and next_event_in_place when something is.                       *)
LoopSpec == LoopInit /\ [][LoopNext]_loopVars /\ WF_polled(polled' = ~polled)

(* Once the transport has ended, polling comes to an end too: the caller is *)
(* told that the peer closed or failed, or is stopped before bytes that are *)
(* not part of the message, whatever it had received or was sending; it is  *)
(* never left waiting for bytes that cannot come.                           *)
DrainsAfterEof == conn.eof ~> last \in {"ConnectionClosed", "Err", "Paused"}
=============================================================================
