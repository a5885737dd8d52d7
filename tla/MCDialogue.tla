---------------------------- MODULE MCDialogue ----------------------------
(***************************************************************************)
(* A small instance of Dialogue: sized bodies, so that every caller comes   *)
(* to the end of its message.                                               *)
(***************************************************************************)
EXTENDS Dialogue, MCHeads

DialogueRequests ==
    {Rq, Option(Rq, "close"), Expecting(Sized(Post, 1)), Upgrading(Expecting(Sized(Post, 1)), "ws"),
     [Rq EXCEPT !.method = "CONNECT"]}

DialogueResponses ==
    {Sized(Rs, 1), Status(204), Option(Sized(Status(400), 0), "close"), Status(100),
     Upgrading(Status(101), "ws")}

DialogueSettings ==
    [dialogue |-> [requests |-> DialogueRequests, responses |-> DialogueResponses,
                   trailers |-> {<<>>}, breaks |-> {}, max_wire |-> 4, max_data |-> 1]]
=============================================================================
