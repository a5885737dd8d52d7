---------------------------- MODULE MCEventLoop ----------------------------
(***************************************************************************)
(* A small instance of EventLoop: how HTTP ends on a connection.  The       *)
(* protocol is switched, or the transport ends at any point of a message in *)
(* each framing.                                                            *)
(***************************************************************************)
EXTENDS MCConnection, EventLoop, TLC

ServerDrainSymbols ==
    Heads({Chunky(Post), Sized(Post, 1), Upgrading(Rq, "ws")})
        \cup {Symbol("byte"), Symbol("crlf"), Hex(1)}

ClientDrainSymbols ==
    Heads({Chunky(Rs), Sized(Rs, 1), Rs, Status(100)})
        \cup {Symbol("byte"), Symbol("crlf"), Hex(1)}

EndSettings ==
    SwitchSettings @@
    [server_eof |-> Surroundings("server", FALSE, ServerDrainSymbols, {Sized(Rs, 0)}),
     client_eof |-> Surroundings("client", FALSE, ClientDrainSymbols, {Rq})]
=============================================================================
