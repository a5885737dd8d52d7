---------------------------- MODULE MCExchange ----------------------------
(***************************************************************************)
(* A small instance of Exchange.                                            *)
(***************************************************************************)
EXTENDS Exchange, MCHeads

Callers(requests, responses, max_wire, max_data) ==
    [requests |-> requests, responses |-> responses, trailers |-> {<<>>}, breaks |-> {},
     max_wire |-> max_wire, max_data |-> max_data]

(* Framings: sized and chunked requests, sized, chunked and close-delimited *)
(* responses.                                                               *)
BodyRequests == {Sized(Post, 1), Chunky(Post)}

BodyResponses == {Rs, Sized(Rs, 1), Http10(Rs)}

(* Reuse: every wish for persistence on either side, without faults.        *)
ReuseRequests ==
    {Rq, Option(Rq, "close"), Http10(Rq), Option(Http10(Rq), "keep-alive"), Sized(Post, 1),
     [Rq EXCEPT !.method = "HEAD"]}

ReuseResponses == {Sized(Rs, 1), Option(Sized(Rs, 0), "close"), Http10(Rs), Status(204)}

(* Switching: tunnels, upgrades and requests that wait for 100 Continue.    *)
SwitchRequests ==
    {[Rq EXCEPT !.method = "CONNECT"], Upgrading(Rq, "ws"), Expecting(Sized(Post, 1)),
     Upgrading(Expecting(Sized(Post, 1)), "ws")}

SwitchResponses ==
    {Sized(Rs, 0), Status(200), Sized(Status(400), 0), Status(100), Upgrading(Status(101), "ws")}

ExchangeSettings ==
    [body |-> [Callers(BodyRequests, BodyResponses, 7, 2) EXCEPT !.trailers = {<<>>, <<"field">>}],
     broken |-> [Callers({Chunky(Post)}, {Rs, Sized(Rs, 1)}, 4, 1) EXCEPT !.breaks = Roles],
     reuse |-> Callers(ReuseRequests, ReuseResponses, 3, 1),
     switch |-> Callers(SwitchRequests, SwitchResponses, 3, 1)]
=============================================================================
