------------------------------ MODULE Grammar ------------------------------
(***************************************************************************)
(* The parsers of crates/h11r/src/wire, fed with every short input that     *)
(* their bytes allow: chunk-size lines, the lines of Transfer-Encoding,     *)
(* request targets and Host values, and trailers.  An input begins in one   *)
(* of several ways, some of them deep in the grammar, and grows symbol by   *)
(* symbol, as a peer sends it; a length is one that is to be written.       *)
(***************************************************************************)
EXTENDS Integers, Sequences

CONSTANTS Bits,      \* usize::BITS
          Inputs,    \* by kind, the symbols, starts and bound of an input
          MaxLines   \* bound on the finished lines of Transfer-Encoding

ASSUME GrammarAssumption ==
    /\ Bits \in Nat \ {0} /\ MaxLines \in Nat
    /\ DOMAIN Inputs = {"chunk_line", "codings", "target", "trailers"}
    /\ \A k \in DOMAIN Inputs : Inputs[k].max_more \in Nat

VARIABLES kind,      \* what the input is: a key of Inputs, or "length"
          value,     \* the input so far
          more,      \* symbols that have come after its start
          codings,   \* Fields::codings after the finished lines of Transfer-Encoding
          list,      \* the elements of those lines by the grammar
          lines,     \* how many there are
          length     \* the length to be written

vars == <<kind, value, more, codings, list, lines, length>>

C == INSTANCE ChunkLine

TE == INSTANCE TransferCodings

T == INSTANCE Target

O == INSTANCE ObsFold

Received == \E k \in DOMAIN Inputs : kind = k /\ value \in Inputs[k].starts /\ length = 0

Written == kind = "length" /\ value = <<>> /\ length \in 0..C!MaxSize

Init == /\ Received \/ Written
        /\ more = 0
        /\ codings = TE!NoCodings
        /\ list = <<>>
        /\ lines = 0

Extend(symbol) ==
    /\ more < Inputs[kind].max_more
    /\ value' = Append(value, symbol)
    /\ more' = more + 1
    /\ UNCHANGED <<kind, codings, list, lines, length>>

(* The line is read and another one of the same field begins.               *)
NextLine ==
    /\ kind = "codings" /\ lines < MaxLines
    /\ codings' = TE!read(codings, value)
    /\ list' = list \o TE!ListOf(value)
    /\ lines' = lines + 1
    /\ value' \in Inputs[kind].starts
    /\ UNCHANGED <<kind, more, length>>

Next == \/ kind # "length" /\ \E symbol \in Inputs[kind].symbols : Extend(symbol)
        \/ NextLine

Spec == Init /\ [][Next]_vars

----------------------------------------------------------------------------
(* parse_number and parse_chunk_header read every chunk-size line as the    *)
(* grammar of RFC 9112 section 7.1 does, or refuse it, so that a size       *)
(* beyond usize never wraps; and they read back what DataPrefix::chunk_size *)
(* writes, for every length up to the largest usize.                        *)
ChunkLinesExact == /\ kind = "chunk_line" => C!SizeExact(value)
                   /\ kind = "length" => C!RoundTrip(length)

(* Codings::read and Codings::framing: the framing that six flags give is   *)
(* that of the whole list, however its elements are spread over lines and   *)
(* whatever their parameters quote.                                         *)
FramingExact == kind = "codings" => TE!FramingOfList(codings, list, value)

(* valid_request_target accepts a target if and only if its method allows   *)
(* its form, with a CONNECT port within 16 bits, and authority_port splits  *)
(* what RFC 3986 derives the only way it can be split.                      *)
TargetExact == kind = "target" => T!AuthorityExact(value) /\ T!FormExact(value)

(* parse_trailers: unfolding moves no boundary, what is consumed ends at    *)
(* the empty line of the input, not of the unfolded copy, and the fields    *)
(* are those that unfolding after the parse would give (copy_headers).      *)
TrailersExact == kind = "trailers" => O!TerminatorKept(value) /\ O!FieldsAgree(value)
=============================================================================
