-------------------------------- MODULE Fifo --------------------------------
(***************************************************************************)
(* What a receive buffer promises: bytes come out in the order they went    *)
(* in, each one once.                                                       *)
(***************************************************************************)
EXTENDS Integers, Sequences

CONSTANTS Byte,    \* the values of a byte
          Pieces   \* what may be put in at once

VARIABLES content,   \* the bytes in the buffer, oldest first
          taken      \* what the last operation took out

vars == <<content, taken>>

Init == content = <<>> /\ taken = <<>>

Put(piece) == content' = content \o piece /\ taken' = <<>>

Get(n) == /\ n <= Len(content)
          /\ content' = SubSeq(content, n + 1, Len(content))
          /\ taken' = SubSeq(content, 1, n)

Next == \/ \E piece \in Pieces : Put(piece)
        \/ \E n \in 0..Len(content) : Get(n)

Spec == Init /\ [][Next]_vars
=============================================================================
