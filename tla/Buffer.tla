------------------------------- MODULE Buffer -------------------------------
(***************************************************************************)
(* The receive buffer (Buffer of crates/h11r/src/wire/buffer.rs): bytes     *)
(* before start have been consumed; extend discards them, when that moves   *)
(* no more bytes than it discards, before it appends.                       *)
(***************************************************************************)
EXTENDS Integers, Sequences

CONSTANTS Byte,      \* the values of a byte
          Pieces,    \* what one extend may append
          MaxTotal   \* bound on the bytes appended in all

ASSUME BufferAssumption ==
    /\ Pieces \subseteq Seq(Byte)
    /\ MaxTotal \in Nat

VARIABLES bytes, start,   \* the two fields of Buffer
          taken,          \* the slice the last take returned
          total,          \* bytes appended so far
          moved           \* bytes moved by all compactions so far

buffer == <<bytes, start, taken, total, moved>>

BufferInit ==
    /\ bytes = <<>>
    /\ start = 0
    /\ taken = <<>>
    /\ total = 0
    /\ moved = 0

as_slice == SubSeq(bytes, start + 1, Len(bytes))

live == Len(bytes) - start

(* Mutant: the buffer is compacted at every chance.                         *)
AlwaysCompacts == start > 0

(* Mutant: the buffer is compacted only when nothing in it is live.         *)
CompactsWhenEmpty == start > 0 /\ live = 0

Compacts == start > 0 /\ start >= live

(* Mutant: the place in the buffer survives its compaction.                 *)
KeepsStart == start

NewStart == IF Compacts THEN 0 ELSE start

extend(piece) ==
    /\ total + Len(piece) <= MaxTotal
    /\ bytes' = IF Compacts THEN as_slice \o piece ELSE bytes \o piece
    /\ start' = NewStart
    /\ moved' = IF Compacts THEN moved + live ELSE moved
    /\ total' = total + Len(piece)
    /\ taken' = <<>>

(* consume, and take, which also returns the consumed slice.  Callers pass  *)
(* no more than as_slice has.                                               *)
take(count) ==
    /\ count <= live
    /\ start' = start + count
    /\ taken' = SubSeq(bytes, start + 1, start + count)
    /\ UNCHANGED <<bytes, total, moved>>

BufferNext == \/ \E piece \in Pieces : extend(piece)
              \/ \E count \in 0..live : take(count)

BufferSpec == BufferInit /\ [][BufferNext]_buffer

----------------------------------------------------------------------------
F == INSTANCE Fifo WITH content <- as_slice

(* The comment of compact, "amortized linear across adversarial receive     *)
(* boundaries": however a peer cuts its bytes up and however little of them *)
(* each poll consumes, all compactions together move no more bytes than     *)
(* have been consumed.                                                      *)
AmortizedLinear == moved + live <= total

(* Consumed bytes are not kept for long: a buffer that grows has fewer of   *)
(* them than bytes still needed, so a connection keeps at most twice what   *)
(* its limits let it buffer, besides what it was last given.                *)
WasteBounded == [][Len(bytes') > Len(bytes) => start' <= live']_buffer

(* The buffer is a queue: compaction, at whatever moment, neither loses,    *)
(* repeats nor reorders a byte, and a slice taken is the oldest bytes.      *)
IsFifo == F!Spec
=============================================================================
