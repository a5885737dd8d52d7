---------------------------- MODULE PyConnection ----------------------------
(***************************************************************************)
(* The Connection class of the Python binding                               *)
(* (crates/h11r-python/src/api/connection.rs): a core connection and a      *)
(* queue of received bytes objects that lie wholly within body payload,     *)
(* which are handed on as they are instead of being copied through the      *)
(* core's buffer.  An argument that cannot be converted raises before the   *)
(* core is called and is left out.                                          *)
(***************************************************************************)
EXTENDS Caller

LOCAL INSTANCE SequencesExt

VARIABLES setting, \* as in Delivery
          conn,    \* the core connection
          queue,   \* the bytes objects held back from it, oldest first
          out      \* what the last call returned or raised

vars == <<setting, conn, queue, out>>

Setting == Settings[setting]

(* All that was received and not told, in the order it came.                *)
Received == FlattenSeq(queue) \o conn.input

Init == /\ setting \in DOMAIN Settings
        /\ conn = NewConnection(Setting.role, FALSE)
        /\ queue = <<>>
        /\ out = Answer("Ok", <<>>)

(* receive_data of an exact bytes object, and of anything else.             *)
Hold(piece) ==
    /\ conn' = [conn EXCEPT !.held = @ + Len(piece)]
    /\ queue' = Append(queue, piece)
    /\ out' = Answer("Ok", <<>>)

Copy(piece) ==
    /\ conn' = IF conn.eof THEN conn ELSE receive_bytes(conn, piece)
    /\ out' = Answer(IF conn.eof THEN "LocalError" ELSE "Ok", <<>>)
    /\ UNCHANGED queue

ReceiveData(piece, exact) ==
    /\ Len(Received) + Len(piece) <= Setting.max_input
    /\ IF exact /\ hold_body_data(conn, Len(piece)) THEN Hold(piece) ELSE Copy(piece)

ReceiveEof ==
    /\ conn' = record_eof(conn)
    /\ out' = Answer("Ok", <<>>)
    /\ UNCHANGED queue

(* The oldest object leaves the queue before the core accepts it: if the    *)
(* core refused it, it would be lost.                                       *)
NextObject ==
    /\ queue # <<>>
    /\ queue' = Tail(queue)
    /\ \E p \in {next_event_in_place(conn, Len(Head(queue)))} :
          /\ conn' = p.c
          /\ out' = IF p.kind = "LocalError" THEN Answer("LocalError", <<>>)
                    ELSE Out("Data", Head(queue), p.chunk_start, p.chunk_end)

NextBuffered(due) ==
    /\ queue = <<>>
    /\ \E p \in {next_event(conn, due)} :
          /\ conn' = p.c
          /\ out' = Told(p, next_event_inner(conn, due).c.input)
    /\ UNCHANGED queue

NextEvent == NextObject \/ \E due \in BOOLEAN : NextBuffered(due)

(* The sends, start_next_cycle and close are the core's.                    *)
Call == /\ \E sent \in Calls(conn, Setting.heads) : conn' = sent.c /\ out' = ToldOfCall(sent)
        /\ UNCHANGED queue

buffered_nbytes == Len(conn.input) + conn.held

Next == /\ \/ \E piece \in Setting.pieces, exact \in BOOLEAN : ReceiveData(piece, exact)
           \/ ReceiveEof
           \/ NextEvent
           \/ Call
        /\ UNCHANGED setting

Spec == Init /\ [][Next]_vars

----------------------------------------------------------------------------
(* The connection and its queue speak of the same bytes: as many are held   *)
(* as the objects have, none is empty, and buffered_nbytes counts every     *)
(* byte received and not told.                                              *)
QueueIsHeld ==
    /\ \A i \in DOMAIN queue : queue[i] # <<>>
    /\ conn.held = Len(FlattenSeq(queue))
    /\ buffered_nbytes = Len(Received)

(* The connection that buffers all of it.                                   *)
Buffering == [conn EXCEPT !.input = Received, !.held = 0]

D == INSTANCE Delivery WITH c <- Buffering

(* Whether an object is held or copied cannot be told from outside: every   *)
(* call answers as a connection would that buffers everything in order, so  *)
(* no byte is lost, repeated or overtaken, no chunk flag is wrong, and no   *)
(* response announces reuse for other content than it would have.           *)
Delivers == D!Spec
=============================================================================
