------------------------------ MODULE ChunkLine ------------------------------
(***************************************************************************)
(* Chunk-size lines: parse_number and parse_chunk_header of                 *)
(* crates/h11r/src/wire/chunked.rs, and DataPrefix::chunk_size of lib.rs,   *)
(* which writes them.                                                       *)
(***************************************************************************)
EXTENDS Syntax

CONSTANT Bits   \* usize::BITS

MaxSize == 2 ^ Bits - 1

Overflow == -1

(* Mutant: the arithmetic wraps.                                            *)
WrappingStep(number, digit, radix) == (number * radix + digit) % (MaxSize + 1)

(* checked_mul and checked_add.                                             *)
CheckedStep(number, digit, radix) ==
    IF number = Overflow \/ number * radix + digit > MaxSize THEN Overflow
    ELSE number * radix + digit

(* parse_number on the values of the digits; an empty one is refused.       *)
parse_number(values, radix) ==
    LET number[i \in 0..Len(values)] ==
            IF i = 0 THEN 0 ELSE CheckedStep(number[i - 1], values[i], radix)
    IN  IF values = <<>> THEN Overflow ELSE number[Len(values)]

(* BWS after a name is allowed only before the next extension.              *)
MayEndName(v, after_name, at) == at = after_name \/ At(v, at) = ";"

(* The loop over the extensions, from at.                                   *)
parse_extensions(v, from) ==
    LET parse[at \in 1..(Len(v) + 2)] ==
            LET semicolon == skip_ows(v, at)
                name == skip_ows(v, semicolon + 1)
                after_name == token_end(v, name)
                equals == skip_ows(v, after_name)
                value == skip_ows(v, equals + 1)
                after_value == IF At(v, value) = "quote" THEN parse_quoted_string(v, value)
                               ELSE token_end(v, value)
            IN  \/ at > Len(v)
                \/ /\ At(v, semicolon) = ";"
                   /\ after_name > name
                   /\ IF At(v, equals) = "=" THEN after_value > value /\ parse[after_value]
                      ELSE MayEndName(v, after_name, equals) /\ parse[equals]
    IN  parse[from]

(* The size, or Overflow for a line that is refused.                        *)
parse_chunk_header(v) ==
    LET end == SkipAll(v, 1, DOMAIN Digit)
        size == parse_number([i \in 1..(end - 1) |-> Digit[v[i]]], 16)
    IN  IF size # Overflow /\ parse_extensions(v, end) THEN size ELSE Overflow

----------------------------------------------------------------------------
(* DataPrefix::chunk_size.                                                  *)
BitLength(n) == CHOOSE b \in 0..Bits : n < 2 ^ b /\ (b > 0 => n >= 2 ^ (b - 1))

DigitCount(n) == IF n = 0 THEN 1 ELSE (BitLength(n) + 3) \div 4

chunk_size(n) ==
    [at \in 1..DigitCount(n) |-> (n \div 16 ^ (DigitCount(n) - at)) % 16]

----------------------------------------------------------------------------
(* RFC 9112 section 7.1: chunk-size, then any number of extensions, each a  *)
(* name and perhaps a value.                                                *)
IsExtension(s) == After(s, ";", LAMBDA r : IsToken(r) \/ IsAssignment(r))

Value(s) ==
    LET value[i \in 0..Len(s)] == IF i = 0 THEN 0 ELSE 16 * value[i - 1] + Digit[s[i]]
    IN  value[Len(s)]

(* The lines a chunk may start with, and their sizes, by the grammar.       *)
Sizes(s) ==
    {Value(SubSeq(s, 1, i)) :
        i \in {i \in 1..Len(s) : /\ \A j \in 1..i : s[j] \in DOMAIN Digit
                                 /\ At(s, i + 1) \notin DOMAIN Digit
                                 /\ Repeats(SubSeq(s, i + 1, Len(s)), IsExtension)}}

(* A line is read as the grammar reads it, or refused: every line that      *)
(* derives and fits a usize has exactly its value, and a larger size is     *)
(* refused rather than wrapped.                                             *)
SizeExact(line) ==
    parse_chunk_header(line) =
        IF \E n \in Sizes(line) : n <= MaxSize THEN CHOOSE n \in Sizes(line) : TRUE ELSE Overflow

(* What this library writes it reads back: for every length up to the       *)
(* largest usize the digits of its chunk are as many as needed, no more     *)
(* than DataPrefix has room for, and their value is the length.             *)
RoundTrip(length) ==
    LET digits == chunk_size(length)
    IN  /\ parse_number(digits, 16) = length
        /\ digits[1] = 0 => length = 0
        /\ 4 * Len(digits) <= Bits
=============================================================================
