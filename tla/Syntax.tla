------------------------------- MODULE Syntax -------------------------------
(***************************************************************************)
(* The scanners under the parsers of chunk-size lines and of list fields    *)
(* (crates/h11r/src/wire/fields.rs).  A line is a sequence of symbols:      *)
(*   0 1 f     hexadecimal digits, which are token bytes too                *)
(*   chunked gzip name    tokens or parts of one; chunked and gzip are      *)
(*             registered codings when they stand alone                     *)
(*   close keep-alive connection host     names, tokens too                 *)
(*   ; = , ows quote backslash     the bytes themselves, ows a space or tab *)
(*   ctl       a byte that no field value may contain                       *)
(* Positions count from 1; a position beyond the line holds "end".          *)
(***************************************************************************)
EXTENDS Integers, Sequences

Digit == [s \in {"0", "1", "f"} |-> IF s = "0" THEN 0 ELSE IF s = "1" THEN 1 ELSE 15]

TokenBytes == DOMAIN Digit \cup {"chunked", "gzip", "name", "close", "keep-alive", "connection", "host"}

At(v, i) == IF i \in DOMAIN v THEN v[i] ELSE "end"

(* The first position from at on whose symbol is not in set.                *)
SkipAll(v, at, set) ==
    CHOOSE i \in at..(Len(v) + at) : /\ At(v, i) \notin set
                                     /\ \A j \in at..(i - 1) : At(v, j) \in set

skip_ows(v, at) == SkipAll(v, at, {"ows"})

token_end(v, start) == IF start > Len(v) THEN Len(v) + 1 ELSE SkipAll(v, start, TokenBytes)

(* The position after the quoted string that starts at at, or 0.            *)
parse_quoted_string(v, at) ==
    LET rest[i \in 1..(Len(v) + 2)] ==
            CASE At(v, i) = "quote" -> i + 1
              [] At(v, i) = "backslash" -> IF At(v, i + 1) \in {"end", "ctl"} THEN 0 ELSE rest[i + 2]
              [] At(v, i) \in {"end", "ctl"} -> 0
              [] OTHER -> rest[i + 1]
    IN  rest[at + 1]

----------------------------------------------------------------------------
(* elements(value, quoting): a pass over the bytes that *)
(* keeps whether it is in a quoted string and behind a backslash.           *)

SplitStep(q, symbol, quoting) ==
    [escaped |-> ~q.escaped /\ symbol = "backslash" /\ q.quoted,
     quoted |-> IF ~q.escaped /\ symbol = "quote" /\ quoting THEN ~q.quoted ELSE q.quoted,
     splits |-> ~q.escaped /\ symbol = "," /\ ~q.quoted]

(* The positions of s that are in set, in order, and what is there.         *)
InOrder(s, set) ==
    LET upto[i \in 0..Len(s)] ==
            IF i = 0 THEN <<>> ELSE IF i \in set THEN Append(upto[i - 1], i) ELSE upto[i - 1]
    IN  upto[Len(s)]

Selected(s, set) == LET kept == InOrder(s, set) IN [n \in DOMAIN kept |-> s[kept[n]]]

trim_ows(s) ==
    LET kept == InOrder(s, {i \in DOMAIN s : s[i] # "ows"})
    IN  IF kept = <<>> THEN <<>> ELSE SubSeq(s, kept[1], kept[Len(kept)])

(* The pieces of v between the positions of the set cuts, trimmed.          *)
Pieces(v, cuts) ==
    LET ends == Append(InOrder(v, cuts), Len(v) + 1)
    IN  [i \in DOMAIN ends |->
            trim_ows(SubSeq(v, IF i = 1 THEN 1 ELSE ends[i - 1] + 1, ends[i] - 1))]

elements(v, quoting) ==
    LET pass[i \in 0..Len(v)] ==
            IF i = 0 THEN [escaped |-> FALSE, quoted |-> FALSE, splits |-> FALSE]
            ELSE SplitStep(pass[i - 1], v[i], quoting)
    IN  Pieces(v, {i \in DOMAIN v : pass[i].splits})

----------------------------------------------------------------------------
(* The grammar of RFC 9110 section 5.6, to compare the scanners with.       *)
Symbols == TokenBytes \cup {";", "=", ",", "ows", "quote", "backslash", "ctl"}

IsOws(s) == \A i \in DOMAIN s : s[i] = "ows"

IsToken(s) == s # <<>> /\ \A i \in DOMAIN s : s[i] \in TokenBytes

(* A quoted string: quoted pairs, and between them neither quote, backslash *)
(* nor control.                                                             *)
IsQuoted(s) ==
    /\ Len(s) >= 2 /\ s[1] = "quote" /\ s[Len(s)] = "quote"
    /\ \E pairs \in SUBSET {i \in 2..(Len(s) - 2) : s[i] = "backslash" /\ s[i + 1] # "ctl"} :
          /\ \A i \in pairs : i + 1 \notin pairs
          /\ \A i \in 2..(Len(s) - 1) :
                \/ i \in pairs \/ i - 1 \in pairs
                \/ s[i] \notin {"quote", "backslash", "ctl"}

(* s cut in two where the first part satisfies P and the second Q.          *)
Cut(s, P(_), Q(_)) == \E i \in 0..Len(s) : P(SubSeq(s, 1, i)) /\ Q(SubSeq(s, i + 1, Len(s)))

(* OWS, then the symbol, then OWS, then what satisfies Q.                   *)
After(s, symbol, Q(_)) ==
    Cut(s, IsOws, LAMBDA r : r # <<>> /\ r[1] = symbol /\ Cut(Tail(r), IsOws, Q))

IsValue(s) == IsToken(s) \/ IsQuoted(s)

(* name BWS = BWS value.                                                    *)
IsAssignment(s) == Cut(s, IsToken, LAMBDA r : After(r, "=", IsValue))

(* s is a sequence of pieces, perhaps empty, that each satisfy P.           *)
Repeats(s, P(_)) ==
    LET derives[i \in 1..(Len(s) + 1)] ==
            \/ i > Len(s)
            \/ \E j \in i..Len(s) : P(SubSeq(s, i, j)) /\ derives[j + 1]
    IN  derives[1]
=============================================================================
