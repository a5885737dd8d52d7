------------------------------- MODULE Lines -------------------------------
(***************************************************************************)
(* The lines of a field section: the incremental search for the empty line  *)
(* that ends it (SectionProgress of crates/h11r/src/wire/buffer.rs), and    *)
(* what httparse makes of the bytes.                                        *)
(*                                                                          *)
(* A byte is cr, lf, sp, x, which any line may contain, or bad, which none  *)
(* may.                                                                     *)
(***************************************************************************)
EXTENDS Integers, Sequences

Bytes == {"cr", "lf", "sp", "x", "bad"}

(* SectionProgress.                                                         *)
DefaultProgress == [at |-> 0, line_start |-> 0, started |-> FALSE, parsed |-> 0]

EmptyLine(line) == line \in {<<>>, <<"cr">>}

(* One turn of the loop of poll; found is its early return.                 *)
ScanByte(q, s, skip) ==
    LET at == q.p.at + 1
        line == SubSeq(s, q.p.line_start + 1, at - 1)
        newline == s[at] = "lf"
    IN  [p |-> [q.p EXCEPT !.at = at,
                           !.line_start = IF newline THEN at ELSE @,
                           !.started = @ \/ (newline /\ ~EmptyLine(line))],
         found |-> newline /\ EmptyLine(line) /\ (q.p.started \/ ~skip)]

poll(p, s, skip) ==
    LET scan[n \in 0..Len(s)] ==
            IF n = 0 THEN [p |-> p, found |-> FALSE]
            ELSE LET q == scan[n - 1]
                 IN  IF q.found \/ q.p.at >= Len(s) THEN q ELSE ScanByte(q, s, skip)
    IN  scan[Len(s)]

----------------------------------------------------------------------------
(* httparse, as far as it matters here: it skips empty lines before a head, *)
(* stops at the empty line that ends the section, and rejects a byte that   *)
(* no line may contain and a CR that no LF follows.                         *)
Faulty(s, i) == s[i] = "bad" \/ (i > 1 /\ s[i - 1] = "cr" /\ s[i] # "lf")

Line(s, i) ==
    LET starts == {j \in 1..i : j = 1 \/ s[j - 1] = "lf"}
    IN  SubSeq(s, CHOOSE j \in starts : \A k \in starts : k <= j, i - 1)

LineEnds(s) == {i \in DOMAIN s : s[i] = "lf"}

Ends(s, skip) ==
    {i \in LineEnds(s) : /\ EmptyLine(Line(s, i))
                         /\ skip => \E j \in LineEnds(s) : j < i /\ ~EmptyLine(Line(s, j))}

Faults(s) == {i \in DOMAIN s : Faulty(s, i)}

Parsed(status, end) == [status |-> status, end |-> end]

httparse(s, skip) ==
    LET stops == Ends(s, skip) \cup Faults(s)
        first == CHOOSE i \in stops : \A j \in stops : i <= j
    IN  IF stops = {} THEN Parsed("Partial", 0)
        ELSE IF first \in Faults(s) THEN Parsed("Err", 0) ELSE Parsed("Complete", first)
=============================================================================
