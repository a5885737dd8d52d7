--------------------------- MODULE MCPyConnection ---------------------------
(***************************************************************************)
(* A small instance of PyConnection.  Two values of a byte tell the order   *)
(* of the data.                                                             *)
(***************************************************************************)
EXTENDS PyConnection, MCHeads

A == [tok |-> "byte", value |-> "a"]

B == [tok |-> "byte", value |-> "b"]

Crlf == Symbol("crlf")

(* A server that reads sized and chunked requests and answers at any time.  *)
ServerPieces ==
    {<<HeadOf(Sized(Post, 3))>>, <<HeadOf(Chunky(Post))>>, <<A>>, <<B>>, <<A, B>>,
     <<Hex(2), Crlf>>}

(* A client that reads chunked and close-delimited responses.               *)
ClientPieces ==
    {<<HeadOf(Rs)>>, <<HeadOf(Chunky(Rs)), Hex(2), Crlf>>, <<A>>, <<B>>, <<A, B>>,
     <<Crlf, Hex(0), Crlf, Crlf>>}

PythonSettings ==
    [server |-> [role |-> "server", pieces |-> ServerPieces, heads |-> {Sized(Rs, 0)}, max_input |-> 3],
     client |-> [role |-> "client", pieces |-> ClientPieces, heads |-> {Rq}, max_input |-> 4]]
=============================================================================
