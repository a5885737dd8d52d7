-------------------------------- MODULE Wire --------------------------------
(***************************************************************************)
(* Received bytes as symbols, and the parsers that find the next section in *)
(* them (crates/h11r/src/wire/buffer.rs, chunked.rs, head.rs).  A symbol    *)
(* stands for the bytes that matter as one piece, counts as one byte in     *)
(* every length, and is read by whoever meets it: body data takes any       *)
(* symbol as payload.                                                       *)
(*   byte   a byte that may begin a start line or a field line              *)
(*   bad    a byte no line may contain                                      *)
(*   crlf   a line end                                                      *)
(*   cr     a CR that no LF follows, or that nothing follows yet            *)
(*   hex    the digits of a chunk size n                                    *)
(*   ext    a piece of a chunk extension                                    *)
(*   field  a field line                                                    *)
(*   head   the rest of the message head h, its empty line included         *)
(***************************************************************************)
EXTENDS Fields

LOCAL INSTANCE SequencesExt

Symbol(tok) == [tok |-> tok]

Hex(n) == [tok |-> "hex", n |-> n]

HeadOf(h) == [tok |-> "head", h |-> h]

Body(n) == [i \in 1..n |-> Symbol("byte")]

Skip(s, n) == SubSeq(s, n + 1, Len(s))

Prefix(s, n) == SubSeq(s, 1, IF n < Len(s) THEN n ELSE Len(s))

only_empty_lines(s) == \A i \in DOMAIN s : s[i].tok = "crlf"

(* SectionProgress::poll: the section's terminating empty line has arrived. *)
(* Before a head (skip) empty lines do not count until a line has begun.    *)
Terminated(s, skip) ==
    \E i \in DOMAIN s :
        \/ s[i].tok = "head"
        \/ /\ s[i].tok = "crlf"
           /\ IF i = 1 THEN ~skip
              ELSE /\ s[i - 1].tok \in {"crlf", "field"}
                   /\ skip => \E k \in 1..(i - 1) : s[k].tok # "crlf"

(* The outcome of a parser: Partial, Err, or Complete with the section's    *)
(* length, and for a head what it says.                                     *)
Parsed(status, end) == [status |-> status, end |-> end]

(* httparse waits for the LF of a CR at the start of a line when the CR is  *)
(* the last byte, and refuses any other CR that is not part of a line end.  *)
AwaitsLf(s, i) == s[i].tok = "cr" /\ i = Len(s)

(* parse_request_head and parse_response_head: httparse skips empty lines,  *)
(* then wants one head of the right kind.  A server parses requests and     *)
(* never leniently.                                                         *)
parse_head(s, kind, lenient) ==
    LET at == SelectInSeq(s, LAMBDA x : x.tok # "crlf")
        stop == SelectInSeq(s, LAMBDA x : x.tok \notin {"crlf", "byte", "hex"})
        lines == {i \in DOMAIN s : at # 0 /\ i > at /\ s[i].tok = "crlf"}
    IN  IF \E i \in lines : stop = 0 \/ i < stop THEN Parsed("Err", 0)
        ELSE IF stop = 0 \/ (stop = at /\ AwaitsLf(s, stop)) THEN Parsed("Partial", 0)
        ELSE IF /\ s[stop].tok = "head"
                /\ s[stop].h.kind = kind
                /\ \/ s[stop].h.syntax = "ok"
                   \/ s[stop].h.syntax = "dropped" /\ lenient /\ kind = "response"
             THEN Parsed("Complete", stop)
        ELSE Parsed("Err", 0)

(* parse_trailers: field lines up to the empty line.                        *)
parse_trailers(s) ==
    LET stop == SelectInSeq(s, LAMBDA x : x.tok \notin {"byte", "hex", "field"})
        fresh == stop = 1 \/ s[stop - 1].tok = "field"
    IN  IF stop = 0 \/ (fresh /\ AwaitsLf(s, stop)) THEN Parsed("Partial", 0)
        ELSE IF s[stop].tok = "crlf" /\ fresh THEN Parsed("Complete", stop)
        ELSE Parsed("Err", 0)

(* find_crlf: where the first complete line ends.                           *)
find_crlf(s) == SelectInSeq(s, LAMBDA x : x.tok \in {"crlf", "field", "head"})

(* Mutant: the last byte never counts.                                      *)
DropsLastByte(s) == IF s = <<>> THEN 0 ELSE Len(s) - 1

(* The length of an unfinished line: a final CR may begin its line end and  *)
(* does not count.                                                          *)
incomplete_line_len(s) ==
    Len(s) - (IF s # <<>> /\ s[Len(s)].tok = "cr" THEN 1 ELSE 0)

(* parse_chunk_header on the line s[1..end-1] before its line end: digits,  *)
(* then only extensions.                                                    *)
valid_chunk_header(s, end) ==
    /\ end > 1
    /\ s[end].tok = "crlf"
    /\ s[1].tok = "hex"
    /\ \A i \in 2..(end - 1) : s[i].tok = "ext"
=============================================================================
