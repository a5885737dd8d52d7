--------------------------- MODULE TransferCodings ---------------------------
(***************************************************************************)
(* How the lines of Transfer-Encoding become a framing: Codings::read       *)
(* and Codings::framing of crates/h11r/src/wire/fields.rs.  The field comes *)
(* in several lines; the code keeps six flags of what it has read.          *)
(***************************************************************************)
EXTENDS Fields, Syntax, SequencesExt

NoCodings == [any |-> FALSE, empty |-> FALSE, malformed |-> FALSE, last_chunked |-> FALSE,
              chunked_before_last |-> FALSE, other_before_last |-> FALSE]

is_registered_coding(name) == name \in {<<"chunked">>, <<"gzip">>}

(* The end of a parameter's value; at itself, or 0, for a missing one.      *)
ValueEnd(v, at) ==
    IF At(v, at) = "quote" THEN parse_quoted_string(v, at) ELSE token_end(v, at)

(* The loop over the parameters of a coding: where it stops, 0 when invalid.*)
parameters_end(v, from) ==
    LET parse[at \in 1..(Len(v) + 2)] ==
            LET name == skip_ows(v, at + 1)
                equals == skip_ows(v, token_end(v, name))
                parameter == skip_ows(v, equals + 1)
                end == ValueEnd(v, parameter)
            IN  IF At(v, at) # ";" THEN at
                ELSE IF equals > name /\ At(v, equals) = "=" /\ end > parameter
                THEN parse[skip_ows(v, end)] ELSE 0
    IN  parse[from]

(* The turn of the loop of read for the coding at start: its class, and     *)
(* the end of the element.                                                  *)
read_coding(v, start) ==
    LET name_end == token_end(v, start)
        name == SubSeq(v, start, name_end - 1)
        semicolon == skip_ows(v, name_end)
        end == parameters_end(v, semicolon)
        valid == /\ name_end > start
                 /\ end > 0
                 /\ ~(is_registered_coding(name) /\ At(v, semicolon) = ";")
                 /\ At(v, end) \in {"end", ","}
    IN  [end |-> end,
         class |-> IF ~valid THEN "malformed" ELSE IF name = <<"chunked">> THEN "chunked" ELSE "other"]

(* The elements read meets in a line: it stops at a malformed one.          *)
read_elements(v) ==
    LET rest[at \in 1..(Len(v) + 2)] ==
            LET start == skip_ows(v, at)
                coding == read_coding(v, start)
            IN  CASE At(v, start) = "end" -> <<"empty">>
                  [] At(v, start) = "," -> <<"empty">> \o rest[start + 1]
                  [] coding.class = "malformed" \/ coding.end > Len(v) -> <<coding.class>>
                  [] OTHER -> <<coding.class>> \o rest[coding.end + 1]
    IN  rest[1]

(* Mutant: every line starts a list of its own.                             *)
ForgetsEarlierLast(c, class) ==
    IF class = "empty" THEN [c EXCEPT !.empty = TRUE]
    ELSE [c EXCEPT !.any = TRUE, !.malformed = @ \/ class = "malformed",
                   !.last_chunked = class = "chunked"]

(* The flags after one more element.                                        *)
read_element(c, class) ==
    IF class = "empty" THEN [c EXCEPT !.empty = TRUE]
    ELSE [c EXCEPT !.any = TRUE,
                   !.malformed = @ \/ class = "malformed",
                   !.last_chunked = class = "chunked",
                   !.chunked_before_last = @ \/ (c.any /\ c.last_chunked),
                   !.other_before_last = @ \/ (c.any /\ ~c.last_chunked)]

read(c, v) == FoldLeft(read_element, c, read_elements(v))

(* Codings::framing.                                                        *)
codings_framing(c, response) ==
    CASE c.malformed \/ ~c.any -> FramingError
      [] response /\ ~c.last_chunked -> CloseDelimited
      [] ~c.last_chunked \/ c.chunked_before_last -> FramingError
      [] c.other_before_last /\ ~response -> FramingError
      [] OTHER -> Chunked

----------------------------------------------------------------------------
(* The grammar of RFC 9110 section 10.1.4.                                  *)
IsParameter(s) == After(s, ";", IsAssignment)

(* An element is a name and its parameters.                                 *)
NamedBy(s, i) ==
    /\ IsToken(SubSeq(s, 1, i))
    /\ Repeats(SubSeq(s, i + 1, Len(s)), IsParameter)
    /\ is_registered_coding(SubSeq(s, 1, i)) => i = Len(s)

Derives(s) == s = <<>> \/ \E i \in DOMAIN s : NamedBy(s, i)

Class(s) ==
    CASE s = <<>> -> "empty"
      [] s = <<"chunked">> -> "chunked"
      [] OTHER -> "other"

(* Every way to cut a line at commas into elements of the grammar.          *)
Readings(v) ==
    {p \in {Pieces(v, cuts) : cuts \in SUBSET {i \in DOMAIN v : v[i] = ","}} :
        \A i \in DOMAIN p : Derives(p[i])}

(* The elements of a line, or one malformed one when there is no reading.   *)
ListOf(v) ==
    LET readings == Readings(v)
        pieces == CHOOSE p \in readings : TRUE
    IN  IF readings = {} THEN <<"malformed">> ELSE [i \in DOMAIN pieces |-> Class(pieces[i])]

----------------------------------------------------------------------------
IsCoding(class) == class # "empty"

(* The framing the six flags give is that of the whole list, however its    *)
(* elements are spread over lines and whatever their parameters quote: a    *)
(* field that does not derive, and one without a coding, are refused.       *)
FramingOfList(codings, list, value) ==
    LET all == list \o ListOf(value)
        named == SelectSeq(all, IsCoding)
        c == read(codings, value)
    IN  /\ \A response \in BOOLEAN :
              codings_framing(c, response) =
                  IF named = <<>> THEN FramingError ELSE CodingsFraming(named, response)
        /\ ~c.malformed => (c.empty <=> "empty" \in ToSet(all))
=============================================================================
