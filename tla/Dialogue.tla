----------------------------- MODULE Dialogue -----------------------------
(***************************************************************************)
(* Exchange with callers that follow the protocol as the connection reports *)
(* it.  A client keeps its body back while it waits for 100 Continue; a     *)
(* server whose client waits answers it; each moves on to the next exchange *)
(* when the connection lets it and closes when it must; both keep polling.  *)
(***************************************************************************)
EXTENDS Exchange

Waiting(r) == ends[r].cycle.waiting_for_continue

(* The calls a side makes now; a final response answers a client that waits *)
(* as well as a 100 does.                                                   *)
ClientCall ==
    \/ \E h \in Requests : SendRequest(h)
    \/ /\ ~Waiting("client")
       /\ \/ \E n \in 1..MaxData : SendData("client", n)
          \/ \E trailers \in Trailers : EndOfMessage("client", trailers)

ServerCall ==
    \/ \E h \in Responses : \/ SendResponse(h)
                            \/ (h.status = 100 => Waiting("server")) /\ SendInformationalResponse(h)
    \/ \E n \in 1..MaxData : SendData("server", n)
    \/ \E trailers \in Trailers : EndOfMessage("server", trailers)

MayClose(r) ==
    /\ ~shut[r]
    /\ local_state(ends[r]) = "MustClose" \/ (r = "client" /\ local_state(ends[r]) = "Idle")

Call(r) == \/ r = "client" /\ ClientCall
           \/ r = "server" /\ ServerCall
           \/ StartNextCycle(r)
           \/ MayClose(r) /\ Close(r)

(* A server may answer at once, but may as well wait for all of the request *)
(* first, unless its connection tells it that the client waits for it.      *)
Prompted(r) == \/ r = "client" \/ ~Answering
               \/ Waiting("server") \/ peer_state(ends["server"]) # "SendBody"

(* Is there a call to make?                                                 *)
Answers ==
    {send_response(ends["server"], h) : h \in Responses}
    \cup {send_informational_response(ends["server"], h) :
             h \in {h \in Responses : h.status = 100 => Waiting("server")}}

Content(r) ==
    {send_data(ends[r], n) : n \in 1..MaxData}
    \cup {end_of_message(ends[r], trailers) : trailers \in Trailers}

CanSend(r) ==
    \/ r = "client" /\ \E h \in Requests :
                         \E sent \in {send_request(ends[r], h)} : Writable(r, sent)
    \/ r = "server" /\ Answering /\ \E sent \in Answers : Writable(r, sent)
    \/ /\ r = "client" => ~Waiting(r)
       /\ \E sent \in Content(r) : Writable(r, sent)

CanCall(r) == CanSend(r) \/ CanReuse(ends[r]) \/ MayClose(r)

DialogueNext == /\ \E r \in Roles : Call(r) \/ Deliver(r) \/ DeliverEof(r) \/ Poll(r)
                /\ UNCHANGED setting

(* Would a poll change anything?                                            *)
CanPoll(r) == \E p \in {next_event(ends[r], due) : due \in BOOLEAN} : p.c # ends[r]

(* The transport delivers, and each caller's loop polls and makes a call    *)
(* that its connection accepts.  The last two are weak fairness of a        *)
(* prompted Call and of Poll, with their ENABLED given as state predicates. *)
Fairness == \A r \in Roles : /\ WF_moving(Deliver(r) \/ DeliverEof(r))
                             /\ []<>~(Prompted(r) /\ CanCall(r)) \/ []<><<Prompted(r) /\ Call(r)>>_moving
                             /\ []<>~CanPoll(r) \/ []<><<Poll(r)>>_moving

DialogueSpec == Init /\ [][DialogueNext]_vars /\ Fairness

----------------------------------------------------------------------------
(* HTTP goes on, or has ended in order, for this side.                      *)
Settled(r) == local_state(ends[r]) \in {"Idle", "Closed", "SwitchedProtocol"}

(* No exchange gets stuck: client and server never wait for each other,     *)
(* over 100 Continue, an early answer, a body that nobody reads, a proposed *)
(* switch or a close, and each gets from its part of the exchange to the    *)
(* next one, to a switched protocol or to an orderly close.                 *)
ExchangesEnd == \A r \in Roles : ~Settled(r) ~> Settled(r)
=============================================================================
