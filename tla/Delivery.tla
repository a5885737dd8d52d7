------------------------------ MODULE Delivery ------------------------------
(***************************************************************************)
(* What a connection promises to a caller that only passes it what it       *)
(* receives and polls it: all bytes lie in one buffer in the order they     *)
(* came, none is kept elsewhere, and every answer is the answer to them.    *)
(* Body data is told from the front, in pieces of any length; an out is     *)
(* what one call tells its caller.                                          *)
(***************************************************************************)
EXTENDS Naturals, Sequences

CONSTANTS Settings,                                   \* as in Caller
          NewConnection(_, _),                        \* the operations of the connection,
          receive_bytes(_, _), record_eof(_),         \* whatever they are,
          next_event(_, _), next_event_inner(_, _),
          Calls(_, _),
          Answer(_, _), Told(_, _), ToldOfCall(_)     \* and what is told of them

VARIABLES setting,   \* the name of its surroundings, which do not change
          c,         \* the connection
          out        \* what the last call told

Setting == Settings[setting]

Init == /\ setting \in DOMAIN Settings
        /\ c = NewConnection(Setting.role, FALSE)
        /\ out = Answer("Ok", <<>>)

Receive(piece) ==
    /\ Len(c.input) + Len(piece) <= Setting.max_input
    /\ c' = IF c.eof THEN c ELSE receive_bytes(c, piece)
    /\ out' = Answer(IF c.eof THEN "LocalError" ELSE "Ok", <<>>)

ReceiveEof == c' = record_eof(c) /\ out' = Answer("Ok", <<>>)

(* The answer to everything received.                                       *)
Poll(due) ==
    \E p \in {next_event(c, due)} :
        c' = p.c /\ out' = Told(p, next_event_inner(c, due).c.input)

(* Body data may be told as if no more than its first piece had come yet.   *)
PollPiece(n) ==
    \E p \in {next_event([c EXCEPT !.input = SubSeq(@, 1, n)], FALSE)} :
        /\ p.kind = "Data" /\ p.count = n
        /\ c' = [p.c EXCEPT !.input = SubSeq(c.input, n + 1, Len(c.input))]
        /\ out' = Told(p, c.input)

Call == \E sent \in Calls(c, Setting.heads) : c' = sent.c /\ out' = ToldOfCall(sent)

Next == /\ \/ \E piece \in Setting.pieces : Receive(piece)
           \/ ReceiveEof
           \/ \E due \in BOOLEAN : Poll(due)
           \/ \E n \in 1..Len(c.input) : PollPiece(n)
           \/ Call
        /\ UNCHANGED setting

Spec == Init /\ [][Next]_<<setting, c, out>>
=============================================================================
