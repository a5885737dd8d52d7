---------------------------- MODULE MCConnection ----------------------------
(***************************************************************************)
(* Small instances of Connection: the settings of each run.                 *)
(***************************************************************************)
EXTENDS Connection, MCHeads

Heads(H) == {HeadOf(h) : h \in H}

Surroundings(role, lenient, symbols, heads) ==
    [role |-> role, lenient |-> lenient, symbols |-> symbols, heads |-> heads]

(* Bodies: a server reads a sized and a chunked request in every            *)
(* segmentation, held or buffered, and answers at any moment.               *)
ServerBodySymbols ==
    Heads({Chunky(Post), Sized(Post, 2)})
        \cup {Symbol("byte"), Symbol("crlf"), Hex(0), Hex(2)}

ServerBodySends == {Sized(Rs, 0)}

(* Limits: sections, chunk lines and extensions that reach the limit and go *)
(* beyond it.                                                               *)
ServerLimitsSymbols ==
    Heads({Chunky(Post)})
        \cup {Symbol("byte"), Symbol("crlf"), Symbol("cr"), Symbol("ext"), Symbol("field"),
              Hex(0), Hex(1)}

ServerLimitsSends == {}

(* Bodies: a client reads a sized, a chunked and a close-delimited response.*)
ClientBodySymbols ==
    Heads({Chunky(Rs), Sized(Rs, 2), Rs})
        \cup {Symbol("byte"), Symbol("crlf"), Symbol("field"), Hex(0), Hex(2)}

ClientBodySends == {Rq}

BodySettings ==
    [server |-> Surroundings("server", FALSE, ServerBodySymbols, ServerBodySends),
     limits |-> Surroundings("server", FALSE, ServerLimitsSymbols, ServerLimitsSends),
     client |-> Surroundings("client", FALSE, ClientBodySymbols, ClientBodySends)]

(* Reuse: requests of both versions that ask for every kind of persistence, *)
(* complete or not when the server answers in every framing.                *)
ServerReuseSymbols ==
    Heads({Rq, Sized(Post, 1), Chunky(Post), Option(Rq, "close"), Http10(Rq),
           Option(Http10([Rq EXCEPT !.method = "HEAD"]), "keep-alive"),
           [Rq EXCEPT !.valid = FALSE]})
        \cup {Symbol("byte")}

ServerReuseSends ==
    {Rs, Sized(Rs, 1), Chunky(Rs), Option(Sized(Rs, 0), "close"), Status(204), Status(205),
     Http10(Rs), Status(100), Chunky(Sized(Rs, 1))}

(* Reuse: a client and the responses that decide whether it goes on.        *)
ClientReuseSymbols ==
    Heads({Sized(Rs, 1), Sized(Rs, 0), Option(Sized(Rs, 0), "close"), Http10(Sized(Rs, 0)), Rs,
           Chunky(Sized(Rs, 0)), Status(304), Status(100), [Status(103) EXCEPT !.cl = <<BadLength>>],
           [Sized(Rs, 0) EXCEPT !.syntax = "dropped"], [Rs EXCEPT !.te = <<"other">>],
           [Rs EXCEPT !.te = <<"other", "chunked">>], [Status(304) EXCEPT !.te = <<"malformed">>]})
        \cup {Symbol("byte")}

ClientReuseSends ==
    {Rq, Sized(Post, 1), Expecting(Chunky(Post)), [Rq EXCEPT !.method = "HEAD"],
     Http10(Rq), Expecting(Rq)}

ReuseSettings ==
    [server |-> Surroundings("server", FALSE, ServerReuseSymbols, ServerReuseSends),
     client |-> Surroundings("client", TRUE, ClientReuseSymbols, ClientReuseSends)]

(* Switching: CONNECT and Upgrade requests, with and without Expect.        *)
ServerSwitchSymbols ==
    Heads({[Rq EXCEPT !.method = "CONNECT"], Upgrading(Rq, "ws"),
           Upgrading(Expecting(Sized(Post, 1)), "ws"),
           Upgrading([Rq EXCEPT !.method = "CONNECT"], "ws"), Upgrading(Rq, BadProtocol),
           Option(Upgrading(Rq, "ws"), "close")})
        \cup {Symbol("byte")}

ServerSwitchSends ==
    {Rs, Status(400), Status(100), Upgrading(Status(101), "ws"), Upgrading(Status(101), "h2c"),
     Upgrading(Status(426), "ws"), Status(426)}

ClientSwitchSymbols ==
    Heads({Rs, Sized(Rs, 1), Sized(Status(400), 0), Status(100), Upgrading(Status(101), "ws"),
           Upgrading(Status(101), "h2c")})
        \cup {Symbol("byte")}

ClientSwitchSends ==
    {[Rq EXCEPT !.method = "CONNECT"], Upgrading(Rq, "ws"), Upgrading(Expecting(Sized(Post, 1)), "ws"),
     Upgrading([Rq EXCEPT !.method = "CONNECT"], "ws"),
     Upgrading(Http10(Rq), "ws"), [Rq EXCEPT !.opts = {"upgrade"}]}

SwitchSettings ==
    [server |-> Surroundings("server", FALSE, ServerSwitchSymbols, ServerSwitchSends),
     client |-> Surroundings("client", FALSE, ClientSwitchSymbols, ClientSwitchSends)]

(* A chunked request that waits for 100 Continue and turns out empty.       *)
ContinueSettings ==
    [server |-> Surroundings("server", FALSE,
                             Heads({Expecting(Chunky(Post))}) \cup {Symbol("crlf"), Hex(0)},
                             {Status(100)})]
=============================================================================
