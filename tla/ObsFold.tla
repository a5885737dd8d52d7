------------------------------ MODULE ObsFold ------------------------------
(***************************************************************************)
(* Obsolete line folding: normalize_obs_fold and copy_headers of            *)
(* crates/h11r/src/wire/head.rs, and parse_trailers of wire/chunked.rs.  A  *)
(* line that starts with white space continues the one before.  Trailers    *)
(* are unfolded before they are parsed, a response's fields after.          *)
(***************************************************************************)
EXTENDS Lines, Syntax, FiniteSetsExt

Folds(s, i) == s[i] = "lf" /\ i < Len(s) /\ s[i + 1] = "sp"

(* The bytes that go: the CR of a fold's line end, and the white space      *)
(* after the LF, which itself becomes one space.                            *)
Dropped(s, i) ==
    \/ s[i] = "cr" /\ i < Len(s) /\ Folds(s, i + 1)
    \/ \E j \in 1..(i - 1) : Folds(s, j) /\ \A k \in (j + 1)..i : s[k] = "sp"

normalize_obs_fold(s) ==
    LET kept == InOrder(s, {i \in DOMAIN s : ~Dropped(s, i)})
    IN  [n \in DOMAIN kept |-> IF Folds(s, kept[n]) THEN "sp" ELSE s[kept[n]]]

(* Mutant: what follows the trailers is unfolded with them.                 *)
WholeInput(s) == s

(* The trailers, up to the empty line if it has come.                       *)
Trailers(s) ==
    LET q == poll(DefaultProgress, s, FALSE)
    IN  IF q.found THEN SubSeq(s, 1, q.p.at) ELSE s

(* The bytes consumed, and the status of the parse, with normalize_folding: *)
(* a client's.  A server's bytes go to httparse as they are, and it refuses *)
(* a folded line.                                                           *)
parse_trailers(s) ==
    LET q == poll(DefaultProgress, s, FALSE)
        r == httparse(normalize_obs_fold(Trailers(s)), FALSE)
    IN  Parsed(r.status, IF r.status = "Complete" /\ q.found THEN q.p.at ELSE r.end)

----------------------------------------------------------------------------
(* The fields of a finished section.                                        *)
First(set) == CHOOSE i \in set : \A j \in set : i <= j

Trim(s, blank) ==
    LET kept == {i \in DOMAIN s : s[i] \notin blank}
    IN  IF kept = {} THEN <<>> ELSE SubSeq(s, Min(kept), Max(kept))

(* The lines of s that the LFs in ends close.                               *)
LinesAt(s, ends) ==
    LET end == InOrder(s, ends)
    IN  [n \in DOMAIN end |-> SubSeq(s, IF n = 1 THEN 1 ELSE end[n - 1] + 1, end[n] - 1)]

Trimmed(lines, blank) == [i \in DOMAIN lines |-> Trim(lines[i], blank)]

(* Of trailers: httparse sees one line for each.                            *)
trailer_fields(s) ==
    LET unfolded == normalize_obs_fold(s)
    IN  Trimmed(LinesAt(unfolded, LineEnds(unfolded)), {"sp", "cr"})

(* Of a response head: httparse, which allows folding there, returns the    *)
(* folded value, trimmed, and copy_headers unfolds it.                      *)
folded_fields(s) ==
    Trimmed(LinesAt(s, {i \in LineEnds(s) : ~Folds(s, i)}), {"sp", "cr", "lf"})

copy_headers(s) ==
    LET folded == folded_fields(s)
    IN  [i \in DOMAIN folded |-> normalize_obs_fold(folded[i])]

----------------------------------------------------------------------------
(* Unfolding moves no boundary: trailers are complete exactly when their    *)
(* empty line has come and no byte before it is refused, whatever follows,  *)
(* and what is consumed ends at that line of the input, not of the          *)
(* unfolded copy.                                                           *)
TerminatorKept(data) ==
    LET ends == Ends(data, FALSE)
        r == parse_trailers(data)
        clean == \A i \in Faults(data) : ends # {} /\ i > First(ends)
    IN  IF ends # {} /\ clean THEN r = Parsed("Complete", First(ends))
        ELSE r.status = IF clean THEN "Partial" ELSE "Err"

(* The two orders agree: a section that both would accept has the same      *)
(* fields unfolded before the parse as after it.                            *)
FieldsAgree(data) ==
    LET r == parse_trailers(data)
        s == SubSeq(data, 1, r.end)
    IN  r.status = "Complete" /\ s[1] # "sp" => copy_headers(s) = trailer_fields(s)
=============================================================================
