------------------------------ MODULE Section ------------------------------
(***************************************************************************)
(* When the bytes of a field section or of a chunk-size line are parsed     *)
(* (SectionProgress of crates/h11r/src/wire/buffer.rs, with its use in      *)
(* connection/receive.rs, and find_crlf of wire/chunked.rs).  Bytes arrive  *)
(* one by one, the caller polls whenever it likes, and what earlier polls   *)
(* have scanned is not scanned again.                                       *)
(***************************************************************************)
EXTENDS Lines

CONSTANTS MaxHead,    \* Limits::max_head_bytes
          MaxInput    \* bound on the buffered bytes

ASSUME SectionAssumption == MaxHead \in Nat \ {0} /\ MaxInput \in Nat

VARIABLES data,       \* the buffered bytes
          eof,        \* has the transport ended
          kind,       \* what is being read: "head", "trailers" or "chunk"
          progress,   \* Cycle::progress
          scanned,    \* the position kept in Chunk::Size
          work,       \* bytes handed to httparse for this section
          verdict     \* of the last poll, None once bytes have come since

vars == <<data, eof, kind, progress, scanned, work, verdict>>

None == "None"

----------------------------------------------------------------------------
(* SectionProgress::due.                                                    *)

(* Mutant: every new byte has the section parsed again.                     *)
DueWhenGrown(p, s, skip) ==
    [yes |-> Len(s) > p.parsed \/ s = <<>>, p |-> [p EXCEPT !.parsed = Len(s)]]

(* due: the size check comes first, and then the scan is not made.          *)
due(p, s, skip) ==
    LET scanning == Len(s) < 2 * p.parsed
        q == poll(p, s, skip)
        yes == ~scanning \/ q.found
        after == IF scanning THEN q.p ELSE p
    IN  [yes |-> yes, p |-> IF yes THEN [after EXCEPT !.parsed = Len(s)] ELSE after]

----------------------------------------------------------------------------
(* Polls of a field section.                                                *)
need_data_or_eof == IF eof THEN "Err" ELSE "NeedData"

(* Mutant: the parser sees bytes beyond the limit.                          *)
WholeSection(s) == s

section(s) == SubSeq(s, 1, IF MaxHead < Len(s) THEN MaxHead ELSE Len(s))

start_line_unfinished(s) ==
    (\A i \in LineEnds(s) : EmptyLine(Line(s, i))) /\ s # <<>> /\ s[Len(s)] # "lf"

(* The error of a section that is too long: RFC 9112 has a status of its    *)
(* own for a start line that never ends.                                    *)
TooLong(s, k) ==
    IF k # "head" THEN "Err400" ELSE IF start_line_unfinished(section(s)) THEN "Err414" ELSE "Err431"

wait_for_section == IF Len(data) <= MaxHead THEN need_data_or_eof ELSE TooLong(data, kind)

(* section_due: nothing is remembered when the size check is not reached.   *)
section_due(skip) ==
    IF eof \/ Len(data) > MaxHead THEN [yes |-> TRUE, p |-> progress] ELSE due(progress, data, skip)

(* What follows a section, once any body data in between has been taken.    *)
Following == [head |-> {"head", "chunk"}, chunk |-> {"chunk", "trailers"}, trailers |-> {"head"}]

Finish(end) ==
    /\ data' = SubSeq(data, end + 1, Len(data))
    /\ kind' \in Following[kind]
    /\ progress' = DefaultProgress
    /\ scanned' = 0
    /\ work' = 0
    /\ verdict' = "Complete"
    /\ UNCHANGED eof

Polling == verdict \in {None, "NeedData", "Complete"}

PollSection ==
    LET skip == kind = "head"
        d == section_due(skip)
        r == httparse(section(data), skip)
    IN  /\ Polling /\ kind # "chunk"
        /\ \/ /\ d.yes /\ r.status = "Complete"
              /\ Finish(r.end)
           \/ /\ ~(d.yes /\ r.status = "Complete")
              /\ verdict' = IF d.yes /\ r.status = "Err" THEN "Err" ELSE wait_for_section
              /\ progress' = d.p
              /\ work' = IF d.yes THEN work + Len(section(data)) ELSE work
              /\ UNCHANGED <<data, eof, kind, scanned>>

----------------------------------------------------------------------------
(* Polls of a chunk-size line.                                              *)

(* find_crlf(data, start): the end of the first CRLF from there on, or 0.   *)
find_crlf(s, start) ==
    LET at == {i \in (start + 2)..Len(s) : s[i - 1] = "cr" /\ s[i] = "lf"}
    IN  IF at = {} THEN 0 ELSE CHOOSE i \in at : \A j \in at : i <= j

incomplete_line_len(s) == IF s # <<>> /\ s[Len(s)] = "cr" THEN Len(s) - 1 ELSE Len(s)

(* Mutant: a CR that ended the last search is not looked at again.          *)
ScannedAll(s) == Len(s)

ScannedUpTo(s) == IF s = <<>> THEN 0 ELSE Len(s) - 1

PollChunkLine ==
    LET end == find_crlf(data, scanned)
    IN  /\ Polling /\ kind = "chunk"
        /\ \/ /\ end = 0 /\ incomplete_line_len(data) <= MaxHead
              /\ verdict' = need_data_or_eof
              /\ scanned' = ScannedUpTo(data)
              /\ UNCHANGED <<data, eof, kind, progress, work>>
           \/ /\ IF end = 0 THEN incomplete_line_len(data) > MaxHead ELSE end - 2 > MaxHead
              /\ verdict' = "Err400"
              /\ UNCHANGED <<data, eof, kind, progress, scanned, work>>
           \/ /\ end # 0 /\ end - 2 <= MaxHead
              /\ Finish(end)

----------------------------------------------------------------------------
Init == /\ data = <<>>
        /\ eof = FALSE
        /\ kind = "head"
        /\ progress = DefaultProgress
        /\ scanned = 0
        /\ work = 0
        /\ verdict = None

Receive(byte) ==
    /\ ~eof /\ Len(data) < MaxInput
    /\ data' = Append(data, byte)
    /\ verdict' = IF Polling THEN None ELSE verdict
    /\ UNCHANGED <<eof, kind, progress, scanned, work>>

ReceiveEof ==
    /\ ~eof
    /\ eof' = TRUE
    /\ verdict' = IF Polling THEN None ELSE verdict
    /\ UNCHANGED <<data, kind, progress, scanned, work>>

(* A failed peer is not read any more.                                      *)
PollFailed == ~Polling /\ UNCHANGED vars

Next == \/ \E byte \in {"cr", "lf", "x", "bad"} : Receive(byte)
        \/ ReceiveEof
        \/ PollSection
        \/ PollChunkLine
        \/ PollFailed

Spec == Init /\ [][Next]_vars

----------------------------------------------------------------------------
(* What one poll of all the bytes at once, with nothing remembered, says.   *)
Judge(s, k) ==
    LET r == httparse(section(s), k = "head")
        end == find_crlf(s, 0)
    IN  IF k # "chunk"
        THEN IF r.status = "Partial" THEN IF Len(s) > MaxHead THEN TooLong(s, k) ELSE "Partial"
             ELSE r.status
        ELSE IF (IF end = 0 THEN incomplete_line_len(s) ELSE end - 2) > MaxHead THEN "Err400"
        ELSE IF end = 0 THEN "Partial" ELSE "Complete"

(* The scan that is taken up again, at a place remembered from bytes since  *)
(* consumed or not, is as good as a scan of all the bytes: a poll never     *)
(* leaves a finished section or line waiting, and never speaks too early;   *)
(* it concludes what all the bytes at once would say, and asks for more     *)
(* only if they do too, or while the fault in them is in the later half,    *)
(* which the schedule has not parsed yet.                                   *)
PollsAgree ==
    [][PollSection \/ PollChunkLine =>
          \/ verdict' = Judge(data, kind)
          \/ verdict' = need_data_or_eof /\ Judge(data, kind) = "Partial"
          \/ /\ verdict' = "NeedData" /\ Judge(data, kind) = "Err"
             /\ \A i \in Faults(data) : Len(data) < 2 * i]_vars

(* How the transport cuts the bytes up does not matter: once they are       *)
(* enough for a conclusion, no byte that follows changes it.                *)
ConclusionsStand ==
    [][Len(data') > Len(data) /\ Judge(data, kind) # "Partial" =>
          Judge(data', kind) = Judge(data, kind)]_vars

(* The documented cost: the parses of one section that do not complete it   *)
(* cover together at most three times its bytes, however often the caller   *)
(* polls.  The parse that completes it covers it once more.                 *)
LinearWork == work <= 3 * Len(data)
=============================================================================
