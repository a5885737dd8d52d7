---------------------------- MODULE InputProofs ----------------------------
(***************************************************************************)
(* What holds of the input of a connection.  Of the receive buffer, for     *)
(* every byte, every piece and every schedule of extend and take: its cost, *)
(* what it wastes, and that it is the queue of Fifo.  Of the section        *)
(* schedule, for every limit and every sequence of bytes and polls.  (1)    *)
(* poll: its loop, resumed at a place that is true of the bytes, finds the  *)
(* end of the section if and only if there is one.  (2) What one more byte  *)
(* leaves as it was.  (3) The invariant: while a section is undecided, the  *)
(* bytes that were scanned hold no end and those that were parsed no fault. *)
(* (4) The properties of Section.                                           *)
(***************************************************************************)
EXTENDS Buffer, Section, TLAPS, SequenceTheorems, WellFoundedInduction

----------------------------------------------------------------------------
(* The receive buffer.                                                      *)

(* What is left of a sequence after a prefix is dropped.                    *)
LEMMA RestOfSeq ==
    ASSUME NEW S, NEW s \in Seq(S), NEW k \in 0..Len(s)
    PROVE  LET rest == SubSeq(s, k + 1, Len(s))
           IN  /\ rest \in Seq(S)
               /\ Len(rest) = Len(s) - k
               /\ \A i \in 1..(Len(s) - k) : rest[i] = s[k + i]
  <1> DEFINE rest == SubSeq(s, k + 1, Len(s))
  <1>1. Len(s) \in Nat /\ k \in Int
    OBVIOUS
  <1>2. \A i \in (k + 1)..Len(s) : s[i] \in S
    OBVIOUS
  <1>3. /\ rest \in Seq(S) /\ Len(rest) = IF k + 1 <= Len(s) THEN Len(s) - (k + 1) + 1 ELSE 0
        /\ \A i \in 1..(Len(s) - (k + 1) + 1) : rest[i] = s[(k + 1) + i - 1]
    BY <1>1, <1>2, SubSeqProperties
  <1> HIDE DEF rest
  <1>4. Len(rest) = Len(s) - k
    BY <1>1, <1>3
  <1>5. ASSUME NEW i \in 1..(Len(s) - k) PROVE rest[i] = s[k + i]
    <2>1. i \in 1..(Len(s) - (k + 1) + 1) /\ (k + 1) + i - 1 = k + i
      BY <1>1
    <2>2. rest[i] = s[(k + 1) + i - 1]
      BY <2>1, <1>3
    <2> QED BY <2>1, <2>2
  <1> QED BY <1>3, <1>4, <1>5 DEF rest

(* What is left of a concatenation after some of its first part is dropped. *)
LEMMA DropOfConcat ==
    ASSUME NEW S, NEW s \in Seq(S), NEW t \in Seq(S), NEW k \in 0..Len(s)
    PROVE  SubSeq(s \o t, k + 1, Len(s \o t)) = SubSeq(s, k + 1, Len(s)) \o t
  <1> DEFINE st == s \o t
             left == SubSeq(st, k + 1, Len(st))
             kept == SubSeq(s, k + 1, Len(s))
             right == kept \o t
  <1>1. /\ st \in Seq(S) /\ Len(st) = Len(s) + Len(t)
        /\ \A i \in 1..Len(st) : st[i] = IF i <= Len(s) THEN s[i] ELSE t[i - Len(s)]
    BY ConcatProperties
  <1>2. Len(s) \in Nat /\ Len(t) \in Nat
    OBVIOUS
  <1> HIDE DEF st
  <1>3. /\ left \in Seq(S) /\ Len(left) = Len(s) + Len(t) - k
        /\ \A i \in 1..(Len(s) + Len(t) - k) : left[i] = st[k + i]
    <2>1. k \in 0..Len(st)
      BY <1>1, <1>2
    <2> QED BY <2>1, <1>1, RestOfSeq
  <1>4. /\ kept \in Seq(S) /\ Len(kept) = Len(s) - k
        /\ \A i \in 1..(Len(s) - k) : kept[i] = s[k + i]
    BY RestOfSeq
  <1> HIDE DEF left, kept
  <1>5. /\ right \in Seq(S) /\ Len(right) = Len(kept) + Len(t)
        /\ \A i \in 1..(Len(kept) + Len(t)) :
              right[i] = IF i <= Len(kept) THEN kept[i] ELSE t[i - Len(kept)]
    BY <1>4, ConcatProperties
  <1> HIDE DEF right
  <1>6. Len(left) = Len(right)
    BY <1>2, <1>3, <1>4, <1>5
  <1>7. ASSUME NEW i \in 1..Len(left) PROVE left[i] = right[i]
    <2>1. i \in 1..(Len(s) + Len(t) - k) /\ k + i \in 1..Len(st)
      BY <1>1, <1>2, <1>3, <1>7
    <2>2. left[i] = IF k + i <= Len(s) THEN s[k + i] ELSE t[k + i - Len(s)]
      BY <2>1, <1>1, <1>3
    <2>3. right[i] = IF i <= Len(s) - k THEN s[k + i] ELSE t[i - (Len(s) - k)]
      BY <2>1, <1>2, <1>4, <1>5
    <2> QED BY <2>1, <2>2, <2>3, <1>2
  <1>8. left = right
    BY <1>3, <1>5, <1>6, <1>7, SeqEqual
  <1> QED BY <1>8 DEF left, right, kept, st

(* A slice of what is left after a prefix is dropped.                       *)
LEMMA SliceOfRest ==
    ASSUME NEW S, NEW s \in Seq(S), NEW k \in 0..Len(s),
           NEW m \in Nat, NEW n \in 0..(Len(s) - k)
    PROVE  SubSeq(SubSeq(s, k + 1, Len(s)), m + 1, n) = SubSeq(s, k + m + 1, k + n)
  <1> DEFINE rest == SubSeq(s, k + 1, Len(s))
             inner == SubSeq(rest, m + 1, n)
             outer == SubSeq(s, k + m + 1, k + n)
  <1>1. Len(s) \in Nat /\ n \in Nat /\ k \in Nat
    OBVIOUS
  <1>2. /\ rest \in Seq(S) /\ Len(rest) = Len(s) - k
        /\ \A i \in 1..(Len(s) - k) : rest[i] = s[k + i]
    BY RestOfSeq
  <1> HIDE DEF rest
  <1>3. /\ inner \in Seq(S) /\ Len(inner) = IF m + 1 <= n THEN n - (m + 1) + 1 ELSE 0
        /\ \A i \in 1..(n - (m + 1) + 1) : inner[i] = rest[(m + 1) + i - 1]
    <2>1. \A i \in (m + 1)..n : rest[i] \in S
      BY <1>1, <1>2
    <2> QED BY <2>1, <1>1, SubSeqProperties
  <1>4. /\ outer \in Seq(S)
        /\ Len(outer) = IF k + m + 1 <= k + n THEN k + n - (k + m + 1) + 1 ELSE 0
        /\ \A i \in 1..(k + n - (k + m + 1) + 1) : outer[i] = s[(k + m + 1) + i - 1]
    <2>1. \A i \in (k + m + 1)..(k + n) : s[i] \in S
      BY <1>1
    <2> QED BY <2>1, <1>1, SubSeqProperties
  <1> HIDE DEF inner, outer
  <1>5. Len(inner) = Len(outer)
    BY <1>1, <1>3, <1>4
  <1>6. ASSUME NEW i \in 1..Len(inner) PROVE inner[i] = outer[i]
    <2>1. i \in 1..(n - m) /\ m + i \in 1..(Len(s) - k)
      BY <1>1, <1>3, <1>6
    <2>2. inner[i] = rest[m + i] /\ outer[i] = s[k + m + i]
      BY <2>1, <1>1, <1>3, <1>4
    <2>3. rest[m + i] = s[k + (m + i)]
      BY <2>1, <1>2
    <2> QED BY <2>1, <2>2, <2>3, <1>1
  <1>7. inner = outer
    BY <1>3, <1>4, <1>5, <1>6, SeqEqual
  <1> QED BY <1>7 DEF inner, outer, rest

(* Piece by piece, what the buffer holds and what it has cost.  Every byte  *)
(* appended is still stored, or was discarded by a compaction that moved no *)
(* more than it discarded; this is what makes AmortizedLinear inductive.    *)
BufferInv ==
    /\ bytes \in Seq(Byte)
    /\ start \in 0..Len(bytes)
    /\ total \in Nat
    /\ moved \in Nat
    /\ moved + Len(bytes) <= total

(* Taking moves nothing and keeps what is stored.                           *)
LEMMA TakeKeepsInv ==
    ASSUME BufferInv, NEW count \in 0..live, take(count)
    PROVE  BufferInv'
  BY DEF BufferInv, take, live

(* The bytes still needed are a sequence of their own.                      *)
LEMMA SliceTyped ==
    ASSUME BufferInv
    PROVE  as_slice \in Seq(Byte) /\ Len(as_slice) = live /\ live \in Nat
  <1>1. start + 1 \in 1..(Len(bytes) + 1)
    BY DEF BufferInv
  <1>2. \A i \in (start + 1)..Len(bytes) : bytes[i] \in Byte
    BY DEF BufferInv
  <1>3. /\ as_slice \in Seq(Byte)
        /\ Len(as_slice) = IF start + 1 <= Len(bytes) THEN Len(bytes) - (start + 1) + 1 ELSE 0
    BY <1>1, <1>2, SubSeqProperties DEF as_slice, BufferInv
  <1> QED BY <1>3 DEF BufferInv, live

(* Extending appends the piece to what is kept, whether or not the consumed *)
(* bytes are discarded first.                                               *)
LEMMA ExtendKeepsInv ==
    ASSUME BufferInv, NEW piece \in Pieces, extend(piece)
    PROVE  BufferInv'
  <1>1. piece \in Seq(Byte) /\ Len(piece) \in Nat
    BY BufferAssumption
  <1>2. bytes \in Seq(Byte) /\ as_slice \in Seq(Byte) /\ Len(as_slice) = live /\ live \in Nat
    BY SliceTyped DEF BufferInv
  <1>3. /\ as_slice \o piece \in Seq(Byte)
        /\ Len(as_slice \o piece) = live + Len(piece)
    BY <1>1, <1>2, ConcatProperties
  <1>4. /\ bytes \o piece \in Seq(Byte)
        /\ Len(bytes \o piece) = Len(bytes) + Len(piece)
    BY <1>1, <1>2, ConcatProperties
  <1>5. CASE Compacts
    <2>1. bytes' = as_slice \o piece /\ start' = 0 /\ moved' = moved + live /\ total' = total + Len(piece)
      BY <1>5 DEF extend, NewStart
    <2>2. bytes' \in Seq(Byte) /\ Len(bytes') = live + Len(piece)
      BY <2>1, <1>3
    <2>3. start >= live
      BY <1>5 DEF Compacts
    <2> QED BY <2>1, <2>2, <2>3, <1>1, <1>2 DEF BufferInv, live
  <1>6. CASE ~Compacts
    <2>1. bytes' = bytes \o piece /\ start' = start /\ moved' = moved /\ total' = total + Len(piece)
      BY <1>6 DEF extend, NewStart
    <2>2. bytes' \in Seq(Byte) /\ Len(bytes') = Len(bytes) + Len(piece)
      BY <2>1, <1>4
    <2> QED BY <2>1, <2>2, <1>1, <1>2 DEF BufferInv
  <1> QED BY <1>5, <1>6

(* The invariant holds of every reachable buffer.                           *)
LEMMA BufferInvHolds == BufferSpec => []BufferInv
  <1>1. BufferInit => BufferInv
    BY DEF BufferInit, BufferInv
  <1>2. BufferInv /\ [BufferNext]_buffer => BufferInv'
    <2> SUFFICES ASSUME BufferInv, [BufferNext]_buffer PROVE BufferInv'
      OBVIOUS
    <2>1. CASE BufferNext
      BY <2>1, TakeKeepsInv, ExtendKeepsInv DEF BufferNext
    <2>2. CASE UNCHANGED buffer
      BY <2>2 DEF buffer, BufferInv
    <2> QED BY <2>1, <2>2
  <1> QED BY <1>1, <1>2, PTL DEF BufferSpec

(* However a peer cuts its bytes up and however little of them each poll    *)
(* consumes, all compactions together move no more bytes than have been     *)
(* consumed: receiving is amortized linear, for every schedule.             *)
THEOREM ReceivingIsLinear == BufferSpec => []AmortizedLinear
  <1>1. BufferInv => AmortizedLinear
    BY DEF BufferInv, AmortizedLinear, live
  <1> QED BY <1>1, BufferInvHolds, PTL

(* A buffer that grows never keeps more consumed bytes than live ones.      *)
THEOREM WasteStaysBounded == BufferSpec => WasteBounded
  <1> DEFINE Bound == Len(bytes') > Len(bytes) => start' <= live'
  <1>1. BufferInv /\ [BufferNext]_buffer => [Bound]_buffer
    <2> SUFFICES ASSUME BufferInv, BufferNext PROVE Bound
      BY DEF buffer
    <2>1. ASSUME NEW count \in 0..live, take(count) PROVE Bound
      BY <2>1 DEF take, BufferInv
    <2>2. ASSUME NEW piece \in Pieces, extend(piece) PROVE Bound
      <3>1. piece \in Seq(Byte) /\ Len(piece) \in Nat
        BY BufferAssumption
      <3>2. bytes \in Seq(Byte) /\ as_slice \in Seq(Byte) /\ live \in Nat /\ start \in Nat
        BY SliceTyped DEF BufferInv
      <3>3. BufferInv'
        BY <2>2, ExtendKeepsInv
      <3>4. CASE Compacts
        BY <3>3, <3>4, <2>2 DEF extend, NewStart, BufferInv, live
      <3>5. CASE ~Compacts
        <4>1. Len(bytes \o piece) = Len(bytes) + Len(piece)
          BY <3>1, <3>2, ConcatProperties
        <4>2. bytes' = bytes \o piece /\ start' = start
          BY <2>2, <3>5 DEF extend, NewStart
        <4>3. Len(bytes') = Len(bytes) + Len(piece)
          BY <4>1, <4>2
        <4>4. start <= live
          BY <3>5, <3>2 DEF Compacts
        <4> QED BY <4>2, <4>3, <4>4, <3>1, <3>2 DEF live, BufferInv
      <3> QED BY <3>4, <3>5
    <2> QED BY <2>1, <2>2 DEF BufferNext
  <1> QED BY <1>1, BufferInvHolds, PTL DEF BufferSpec, WasteBounded

(* The initial buffer is an empty queue.                                    *)
LEMMA BufferInitRefines == BufferInit => F!Init
  <1> SUFFICES ASSUME BufferInit PROVE as_slice = <<>> /\ taken = <<>>
    BY DEF F!Init
  <1>1. bytes = <<>> /\ start = 0 /\ taken = <<>>
    BY DEF BufferInit
  <1> QED BY <1>1, SubSeqEmpty DEF as_slice

(* Extending puts the piece at the end of the queue.                        *)
LEMMA ExtendRefines ==
    ASSUME BufferInv, NEW piece \in Pieces, extend(piece)
    PROVE  F!Put(piece)
  <1>1. piece \in Seq(Byte) /\ Len(piece) \in Nat
    BY BufferAssumption
  <1>2. /\ bytes \in Seq(Byte) /\ as_slice \in Seq(Byte) /\ Len(as_slice) = live
        /\ start \in 0..Len(bytes)
    BY SliceTyped DEF BufferInv
  <1>3. taken' = <<>>
    BY DEF extend
  <1>4. CASE Compacts
    <2>1. bytes' = as_slice \o piece /\ start' = 0
      BY <1>4 DEF extend, NewStart
    <2>2. as_slice \o piece \in Seq(Byte)
      BY <1>1, <1>2, ConcatProperties
    <2>3. as_slice' = SubSeq(bytes', 1, Len(bytes'))
      BY <2>1 DEF as_slice
    <2>4. as_slice' = bytes'
      BY <2>1, <2>2, <2>3, SubSeqFull
    <2> QED BY <2>1, <2>4, <1>3 DEF F!Put
  <1>5. CASE ~Compacts
    <2>1. bytes' = bytes \o piece /\ start' = start
      BY <1>5 DEF extend, NewStart
    <2>3. as_slice' = SubSeq(bytes \o piece, start + 1, Len(bytes \o piece))
      BY <2>1 DEF as_slice
    <2>4. SubSeq(bytes \o piece, start + 1, Len(bytes \o piece)) = as_slice \o piece
      BY <1>1, <1>2, DropOfConcat DEF as_slice
    <2> QED BY <2>3, <2>4, <1>3 DEF F!Put
  <1> QED BY <1>4, <1>5

(* Taking takes the oldest bytes of the queue.                              *)
LEMMA TakeRefines ==
    ASSUME BufferInv, NEW count \in 0..live, take(count)
    PROVE  F!Get(count) /\ count \in 0..Len(as_slice)
  <1>1. /\ bytes \in Seq(Byte) /\ start \in 0..Len(bytes) /\ Len(as_slice) = live
        /\ live = Len(bytes) - start /\ Len(bytes) \in Nat /\ count \in Nat
    BY SliceTyped DEF BufferInv, live
  <1>2. /\ bytes' = bytes /\ start' = start + count
        /\ taken' = SubSeq(bytes, start + 1, start + count)
    BY DEF take
  <1>3. SubSeq(as_slice, count + 1, Len(as_slice)) = SubSeq(bytes, start + count + 1, start + live)
    BY <1>1, SliceOfRest DEF as_slice
  <1>4. as_slice' = SubSeq(bytes, start + count + 1, Len(bytes))
    BY <1>2 DEF as_slice
  <1>5. SubSeq(as_slice, 0 + 1, count) = SubSeq(bytes, start + 0 + 1, start + count)
    BY <1>1, SliceOfRest DEF as_slice
  <1>6. start + live = Len(bytes) /\ 0 + 1 = 1 /\ start + 0 + 1 = start + 1
    BY <1>1
  <1>7. as_slice' = SubSeq(as_slice, count + 1, Len(as_slice)) /\ taken' = SubSeq(as_slice, 1, count)
    BY <1>2, <1>3, <1>4, <1>5, <1>6, Zenon
  <1>8. count \in 0..Len(as_slice) /\ count <= Len(as_slice)
    BY <1>1
  <1> QED BY <1>7, <1>8, Zenon DEF F!Get

(* The buffer implements a queue: compaction, at whatever moment, neither   *)
(* loses, repeats nor reorders a byte.                                      *)
THEOREM BufferIsFifo == BufferSpec => IsFifo
  <1>1. BufferInv /\ [BufferNext]_buffer => [F!Next]_(F!vars)
    <2> SUFFICES ASSUME BufferInv, [BufferNext]_buffer PROVE F!Next \/ UNCHANGED F!vars
      OBVIOUS
    <2>1. ASSUME NEW piece \in Pieces, extend(piece) PROVE F!Next
      BY <2>1, ExtendRefines DEF F!Next
    <2>2. ASSUME NEW count \in 0..live, take(count) PROVE F!Next
      BY <2>2, TakeRefines DEF F!Next
    <2>3. CASE UNCHANGED buffer
      BY <2>3 DEF buffer, F!vars, as_slice
    <2> QED BY <2>1, <2>2, <2>3 DEF BufferNext
  <1> QED BY <1>1, BufferInvHolds, BufferInitRefines, PTL DEF BufferSpec, IsFifo, F!Spec

----------------------------------------------------------------------------
(* The section schedule.                                                    *)

(* One turn of the loop of poll, or none when the loop has ended.           *)
ScanStep(q, s, skip) ==
    IF q.found \/ q.p.at >= Len(s) THEN q ELSE ScanByte(q, s, skip)

(* The scans of poll, as a function from the number of turns.               *)
Scans(f, p, s, skip) ==
    f = [n \in 0..Len(s) |->
            IF n = 0 THEN [p |-> p, found |-> FALSE] ELSE ScanStep(f[n - 1], s, skip)]

(* poll returns the last of them.                                           *)
LEMMA PollIsScan ==
    ASSUME NEW p, NEW s, NEW skip
    PROVE  poll(p, s, skip) = (CHOOSE f : Scans(f, p, s, skip))[Len(s)]
  BY Zenon DEF poll, Scans, ScanStep

(* The order of the numbers, as a relation.                                 *)
Less == {q \in Nat \X Nat : q[1] < q[2]}

(* No sequence of numbers decreases for ever.                               *)
LEMMA LessIsWellFounded == IsWellFoundedOn(Less, Nat)
  BY NatLessThanWellFounded, Zenon DEF OpToRel, Less

(* A set of numbers that is not empty has a least element.                  *)
LEMMA LeastExists ==
    ASSUME NEW T, T \subseteq Nat, T # {}
    PROVE  \E x \in T : \A y \in T : x <= y
  <1>1. PICK x \in T : \A y \in T : ~(<<y, x>> \in Less)
    BY LessIsWellFounded, WFMin, Zenon
  <1>2. ASSUME NEW y \in T PROVE x <= y
    <2>1. x \in Nat /\ y \in Nat
      OBVIOUS
    <2>2. y < x => <<y, x>> \in Less
      BY <2>1 DEF Less
    <2> QED BY <1>1, <2>1, <2>2
  <1> QED BY <1>2

(* The scans exist, whatever the bytes.                                     *)
LEMMA ScansExist ==
    ASSUME NEW p, NEW s, NEW skip, Len(s) \in Nat
    PROVE  \E f : Scans(f, p, s, skip)
  <1> DEFINE Start == [p |-> p, found |-> FALSE]
             Upto(m, f) == f = [n \in 0..m |->
                                  IF n = 0 THEN Start ELSE ScanStep(f[n - 1], s, skip)]
             Without == {m \in Nat : ~ \E f : Upto(m, f)}
  <1>1. SUFFICES ASSUME Without # {} PROVE FALSE
    <2>1. Without = {} => \E f : Upto(Len(s), f)
      OBVIOUS
    <2> QED BY <2>1 DEF Scans
  <1>2. PICK m \in Without : \A k \in Without : m <= k
    BY <1>1, LeastExists
  <1>3. m # 0
    <2> DEFINE z == [n \in 0..0 |-> Start]
    <2>1. z = [n \in 0..0 |-> IF n = 0 THEN Start ELSE ScanStep(z[n - 1], s, skip)]
      OBVIOUS
    <2> QED BY <2>1
  <1>4. m \in Nat /\ m - 1 \in Nat /\ m - 1 \notin Without
    BY <1>2, <1>3
  <1>5. PICK f : Upto(m - 1, f)
    BY <1>4
  <1> DEFINE g == [n \in 0..m |-> IF n < m THEN f[n] ELSE ScanStep(f[m - 1], s, skip)]
  <1>6. ASSUME NEW n \in 0..m
        PROVE  g[n] = IF n = 0 THEN Start ELSE ScanStep(g[n - 1], s, skip)
    <2>1. CASE n = 0
      BY <2>1, <1>3, <1>4, <1>5
    <2>2. CASE n # 0 /\ n < m
      <3>1. n \in 0..(m - 1) /\ n - 1 \in 0..m /\ n - 1 < m
        BY <2>2, <1>4
      <3>2. g[n] = f[n] /\ g[n - 1] = f[n - 1]
        BY <2>2, <3>1
      <3>3. f[n] = ScanStep(f[n - 1], s, skip)
        BY <1>5, <3>1, <2>2
      <3> QED BY <3>2, <3>3, <2>2
    <2>3. CASE n = m
      <3>1. m - 1 \in 0..m /\ m - 1 < m
        BY <1>4
      <3>2. g[m - 1] = f[m - 1] /\ g[m] = ScanStep(f[m - 1], s, skip)
        BY <3>1, <1>4
      <3> QED BY <3>2, <2>3, <1>3
    <2> QED BY <2>1, <2>2, <2>3, <1>4
  <1>7. Upto(m, g)
    BY <1>6
  <1> QED BY <1>2, <1>7

----------------------------------------------------------------------------
(* A place in a section: what SectionProgress remembers of the bytes before *)
(* it is true of them.                                                      *)
Progress == [at : Nat, line_start : Nat, started : BOOLEAN, parsed : Nat]

(* A line that is not empty has ended by position n.                        *)
NonEmptyLineBy(s, n) == \E j \in LineEnds(s) : j <= n /\ ~EmptyLine(Line(s, j))

(* The place p of the bytes s.                                              *)
Place(p, s) ==
    /\ p \in Progress
    /\ p.at <= Len(s)
    /\ p.line_start <= p.at
    /\ p.line_start # 0 => s[p.line_start] = "lf"
    /\ \A i \in (p.line_start + 1)..p.at : s[i] # "lf"
    /\ p.started <=> NonEmptyLineBy(s, p.at)

(* The section does not end by position n.                                  *)
NoEndBy(s, skip, n) == \A i \in Ends(s, skip) : i > n

(* What a scan that began at p knows after n turns.                         *)
ScanKnows(q, p, s, skip, n) ==
    /\ Place(q.p, s)
    /\ q.p.parsed = p.parsed
    /\ q.found \in BOOLEAN
    /\ q.found => q.p.at \in Ends(s, skip)
    /\ ~q.found => NoEndBy(s, skip, q.p.at)
    /\ q.found \/ q.p.at >= n

(* The line that ends at i starts after the last line end before it.        *)
LEMMA LineFrom ==
    ASSUME NEW s, NEW i \in Nat \ {0}, NEW k \in 0..(i - 1),
           k # 0 => s[k] = "lf", \A j \in (k + 1)..(i - 1) : s[j] # "lf"
    PROVE  Line(s, i) = SubSeq(s, k + 1, i - 1)
  <1> DEFINE starts == {j \in 1..i : j = 1 \/ s[j - 1] = "lf"}
             first == CHOOSE j \in starts : \A m \in starts : m <= j
  <1>1. k + 1 \in starts
    <2>1. k + 1 \in 1..i /\ (k + 1) - 1 = k /\ (k = 0 => k + 1 = 1)
      OBVIOUS
    <2> QED BY <2>1
  <1>2. ASSUME NEW j \in starts PROVE j <= k + 1
    <2>1. SUFFICES ASSUME j > k + 1 PROVE FALSE
      OBVIOUS
    <2>2. j - 1 \in (k + 1)..(i - 1) /\ s[j - 1] = "lf"
      BY <2>1
    <2> QED BY <2>2
  <1>3. first \in starts /\ \A m \in starts : m <= first
    <2> HIDE DEF starts
    <2> QED BY <1>1, <1>2
  <1>4. first = k + 1
    <2>1. first \in Nat /\ k + 1 \in Nat
      BY <1>3
    <2> HIDE DEF first, starts
    <2> QED BY <2>1, <1>1, <1>2, <1>3
  <1>5. Line(s, i) = SubSeq(s, first, i - 1)
    BY DEF Line
  <1> HIDE DEF first
  <1> QED BY <1>4, <1>5

(* A turn of the loop keeps what the scan knows.                            *)
LEMMA ScanByteKnows ==
    ASSUME NEW X, NEW s \in Seq(X), NEW skip \in BOOLEAN, NEW p, NEW n \in Nat, NEW q,
           ScanKnows(q, p, s, skip, n), ~q.found, q.p.at < Len(s)
    PROVE  ScanKnows(ScanByte(q, s, skip), p, s, skip, n + 1)
  <1> DEFINE i == q.p.at + 1
             line == SubSeq(s, q.p.line_start + 1, i - 1)
             newline == s[i] = "lf"
             r == ScanByte(q, s, skip)
  <1>1. /\ q.p \in Progress /\ q.p.at \in Nat /\ q.p.line_start \in Nat /\ q.p.started \in BOOLEAN
        /\ q.p.parsed = p.parsed /\ Len(s) \in Nat
        /\ q.p.line_start <= q.p.at /\ n <= q.p.at
    BY DEF ScanKnows, Place, Progress
  <1>2. /\ r.p = [q.p EXCEPT !.at = i, !.line_start = IF newline THEN i ELSE @,
                             !.started = @ \/ (newline /\ ~EmptyLine(line))]
        /\ r.found = (newline /\ EmptyLine(line) /\ (q.p.started \/ ~skip))
    BY DEF ScanByte
  <1>3. /\ r.p \in Progress /\ r.p.at = i /\ r.p.line_start = IF newline THEN i ELSE q.p.line_start
        /\ r.p.started = (q.p.started \/ (newline /\ ~EmptyLine(line)))
        /\ r.p.parsed = q.p.parsed
    <2> DEFINE started == q.p.started \/ (newline /\ ~EmptyLine(line))
               line_start == IF newline THEN i ELSE q.p.line_start
    <2>1. started \in BOOLEAN /\ line_start \in Nat /\ i \in Nat
      BY <1>1
    <2>2. r.p = [q.p EXCEPT !.at = i, !.line_start = line_start, !.started = started]
      BY <1>1, <1>2 DEF Progress
    <2> HIDE DEF started, line_start, i, r
    <2>3. /\ r.p \in Progress /\ r.p.at = i /\ r.p.line_start = line_start
          /\ r.p.started = started /\ r.p.parsed = q.p.parsed
      BY <1>1, <2>1, <2>2 DEF Progress
    <2> QED BY <2>3, Zenon DEF started, line_start
  <1>4. Line(s, i) = line
    <2>1. i \in Nat \ {0} /\ q.p.line_start \in 0..(i - 1)
      BY <1>1
    <2>2. /\ q.p.line_start # 0 => s[q.p.line_start] = "lf"
          /\ \A j \in (q.p.line_start + 1)..(i - 1) : s[j] # "lf"
      BY <1>1 DEF ScanKnows, Place
    <2> QED BY <2>1, <2>2, LineFrom
  <1>5. i \in 1..Len(s) /\ DOMAIN s = 1..Len(s) /\ (i \in LineEnds(s) <=> newline)
    BY <1>1 DEF LineEnds
  <1>6. \A j \in LineEnds(s) : j \in Nat /\ (j <= i <=> (j <= q.p.at \/ j = i))
    BY <1>1, <1>5 DEF LineEnds
  <1>7. q.p.started <=> NonEmptyLineBy(s, q.p.at)
    BY DEF ScanKnows, Place
  <1> HIDE DEF r, newline, line
  <1>8. r.p.started <=> NonEmptyLineBy(s, i)
    <2> HIDE DEF i
    <2> QED BY <1>3, <1>4, <1>5, <1>6, <1>7 DEF NonEmptyLineBy
  <1>9. r.found <=> i \in Ends(s, skip)
    <2>1. \A j \in LineEnds(s) : j < i <=> j <= q.p.at
      BY <1>1, <1>6
    <2> HIDE DEF i
    <2>2. i \in Ends(s, skip) <=>
            i \in LineEnds(s) /\ EmptyLine(Line(s, i)) /\ (skip => NonEmptyLineBy(s, q.p.at))
      BY <2>1 DEF Ends, NonEmptyLineBy
    <2> QED BY <2>2, <1>2, <1>4, <1>5, <1>7
  <1>10. Place(r.p, s)
    <2>1. r.p.line_start <= i /\ i <= Len(s) /\ (r.p.line_start # 0 => s[r.p.line_start] = "lf")
      BY <1>1, <1>3, <1>5 DEF ScanKnows, Place, newline
    <2>2. \A j \in (r.p.line_start + 1)..i : s[j] # "lf"
      <3>1. CASE newline
        BY <3>1, <1>1, <1>3
      <3>2. CASE ~newline
        <4> SUFFICES ASSUME NEW j \in (q.p.line_start + 1)..i PROVE s[j] # "lf"
          BY <3>2, <1>3
        <4>1. j = i \/ j \in (q.p.line_start + 1)..q.p.at
          BY <1>1
        <4> QED BY <4>1, <3>2 DEF ScanKnows, Place, newline
      <3> QED BY <3>1, <3>2
    <2> HIDE DEF i
    <2> QED BY <2>1, <2>2, <1>3, <1>8 DEF Place
  <1>11. ~r.found => NoEndBy(s, skip, i)
    <2> SUFFICES ASSUME ~r.found, NEW j \in Ends(s, skip) PROVE j > i
      BY DEF NoEndBy
    <2>1. j # i
      BY <1>9
    <2>2. j > q.p.at /\ j \in Nat
      BY <1>6 DEF ScanKnows, NoEndBy, Ends
    <2> QED BY <2>1, <2>2, <1>1
  <1>12. r.p.at >= n + 1
    BY <1>1, <1>3
  <1>13. r.found \in BOOLEAN
    BY <1>2, Zenon
  <1> HIDE DEF i
  <1> QED BY <1>1, <1>3, <1>9, <1>10, <1>11, <1>12, <1>13 DEF ScanKnows, r

(* poll from a place of the bytes: it finds the end of the section if and   *)
(* only if there is one, however much of the section earlier polls scanned. *)
LEMMA PollFindsEnd ==
    ASSUME NEW X, NEW s \in Seq(X), NEW skip \in BOOLEAN, NEW p,
           Place(p, s), NoEndBy(s, skip, p.at), NEW q, q = poll(p, s, skip)
    PROVE  /\ Place(q.p, s)
           /\ q.p.parsed = p.parsed
           /\ q.found \in BOOLEAN
           /\ q.found => Ends(s, skip) # {}
           /\ ~q.found => Ends(s, skip) = {}
  <1> DEFINE f == CHOOSE g : Scans(g, p, s, skip)
             Wrong == {n \in 0..Len(s) : ~ScanKnows(f[n], p, s, skip, n)}
  <1>1. Len(s) \in Nat
    OBVIOUS
  <1>2. Scans(f, p, s, skip)
    BY <1>1, ScansExist
  <1>3. q = f[Len(s)]
    BY PollIsScan
  <1> HIDE DEF f
  <1>4. f[0] = [p |-> p, found |-> FALSE]
    BY <1>1, <1>2 DEF Scans
  <1>5. ASSUME NEW n \in 1..Len(s) PROVE f[n] = ScanStep(f[n - 1], s, skip)
    <2>1. n \in 0..Len(s) /\ n # 0
      BY <1>1
    <2>2. f[n] = IF n = 0 THEN [p |-> p, found |-> FALSE] ELSE ScanStep(f[n - 1], s, skip)
      BY <1>2, <2>1, Zenon DEF Scans
    <2> QED BY <2>1, <2>2
  <1>6. Wrong = {}
    <2>1. SUFFICES ASSUME Wrong # {} PROVE FALSE
      OBVIOUS
    <2>2. Wrong \subseteq Nat
      OBVIOUS
    <2>3. PICK n \in Wrong : \A k \in Wrong : n <= k
      BY <2>1, <2>2, LeastExists
    <2>4. n # 0
      <3>1. ScanKnows(f[0], p, s, skip, 0)
        BY <1>4 DEF ScanKnows, Place, Progress
      <3> QED BY <3>1
    <2>5. n \in 1..Len(s) /\ n - 1 \in 0..Len(s) /\ n - 1 \notin Wrong /\ n - 1 \in Nat /\ (n - 1) + 1 = n
      BY <2>3, <2>4, <1>1
    <2>6. ScanKnows(f[n - 1], p, s, skip, n - 1)
      BY <2>5
    <2>7. f[n] = ScanStep(f[n - 1], s, skip)
      BY <2>5, <1>5
    <2>8. CASE f[n - 1].found \/ f[n - 1].p.at >= Len(s)
      <3>1. f[n] = f[n - 1]
        BY <2>7, <2>8 DEF ScanStep
      <3>2. f[n - 1].found \/ f[n - 1].p.at >= n
        <4>1. f[n - 1].p.at \in Nat
          BY <2>6 DEF ScanKnows, Place, Progress
        <4> QED BY <4>1, <2>8, <2>5, <1>1
      <3>3. ScanKnows(f[n], p, s, skip, n)
        BY <2>6, <3>1, <3>2 DEF ScanKnows
      <3> QED BY <3>3, <2>3
    <2>9. CASE ~(f[n - 1].found \/ f[n - 1].p.at >= Len(s))
      <3>1. f[n] = ScanByte(f[n - 1], s, skip)
        BY <2>7, <2>9 DEF ScanStep
      <3>2. f[n - 1].p.at < Len(s)
        <4>1. f[n - 1].p.at \in Nat
          BY <2>6 DEF ScanKnows, Place, Progress
        <4> QED BY <4>1, <2>9, <1>1
      <3>3. ScanKnows(f[n], p, s, skip, (n - 1) + 1)
        BY <2>5, <2>6, <2>9, <3>1, <3>2, ScanByteKnows
      <3> QED BY <3>3, <2>3, <2>5
    <2> QED BY <2>8, <2>9
  <1>7. ScanKnows(q, p, s, skip, Len(s))
    <2>1. Len(s) \in 0..Len(s)
      BY <1>1
    <2> QED BY <1>3, <1>6, <2>1
  <1>8. ~q.found => Ends(s, skip) = {}
    <2> SUFFICES ASSUME ~q.found, NEW i \in Ends(s, skip) PROVE FALSE
      OBVIOUS
    <2>1. i \in 1..Len(s)
      BY DEF Ends, LineEnds
    <2>2. q.p.at >= Len(s) /\ i > q.p.at /\ q.p.at \in Nat
      BY <1>7 DEF ScanKnows, NoEndBy, Place, Progress
    <2> QED BY <2>1, <2>2, <1>1
  <1> QED BY <1>7, <1>8 DEF ScanKnows

----------------------------------------------------------------------------
(* What one more byte leaves as it was.                                     *)

(* A line that has ended does not change.                                   *)
LEMMA LineStays ==
    ASSUME NEW X, NEW s \in Seq(X), NEW b \in X, NEW i \in 1..Len(s)
    PROVE  Line(Append(s, b), i) = Line(s, i)
  <1> DEFINE t == Append(s, b)
             starts == {j \in 1..i : j = 1 \/ s[j - 1] = "lf"}
             others == {j \in 1..i : j = 1 \/ t[j - 1] = "lf"}
             first == CHOOSE j \in starts : \A m \in starts : m <= j
             gaps == {g \in 0..i : i - g \in starts}
  <1>1. /\ t \in Seq(X) /\ Len(t) = Len(s) + 1 /\ \A j \in 1..Len(s) : t[j] = s[j]
        /\ Len(s) \in Nat
    BY AppendProperties
  <1> HIDE DEF t
  <1>2. others = starts
    <2> SUFFICES ASSUME NEW j \in 1..i, j # 1 PROVE t[j - 1] = s[j - 1]
      OBVIOUS
    <2>1. j - 1 \in 1..Len(s)
      BY <1>1
    <2> QED BY <2>1, <1>1
  <1>3. \E j \in starts : \A m \in starts : m <= j
    <2>1. i - 1 \in gaps /\ gaps \subseteq Nat
      <3>1. i - 1 \in 0..i /\ i - (i - 1) = 1 /\ 1 \in starts
        BY <1>1
      <3> QED BY <3>1
    <2>2. PICK g \in gaps : \A h \in gaps : g <= h
      BY <2>1, LeastExists
    <2>3. ASSUME NEW m \in starts PROVE m <= i - g
      <3>1. i - m \in gaps
        <4>1. m \in 1..i /\ i - m \in 0..i /\ i - (i - m) = m
          BY <1>1
        <4> QED BY <4>1
      <3>2. g <= i - m /\ g \in Nat /\ m \in Nat /\ i \in Nat
        BY <3>1, <2>1, <2>2
      <3> QED BY <3>2
    <2>4. i - g \in starts
      BY <2>2
    <2> QED BY <2>3, <2>4
  <1>4. first \in 1..i
    BY <1>3
  <1>5. Line(s, i) = SubSeq(s, first, i - 1)
    BY DEF Line
  <1>6. Line(t, i) = SubSeq(t, first, i - 1)
    <2>1. Line(t, i) = SubSeq(t, CHOOSE j \in others : \A k \in others : k <= j, i - 1)
      BY DEF Line
    <2> HIDE DEF others, starts
    <2> QED BY <2>1, <1>2
  <1> HIDE DEF first, starts, others, gaps
  <1>7. SubSeq(t, first, i - 1) = SubSeq(s, first, i - 1)
    <2> DEFINE l == SubSeq(t, first, i - 1)
               r == SubSeq(s, first, i - 1)
    <2>1. /\ first \in Int /\ i - 1 \in Int /\ first >= 1
          /\ \A j \in first..(i - 1) : t[j] \in X /\ s[j] \in X /\ t[j] = s[j]
      BY <1>1, <1>4
    <2>2. /\ l \in Seq(X) /\ Len(l) = IF first <= i - 1 THEN (i - 1) - first + 1 ELSE 0
          /\ \A j \in 1..((i - 1) - first + 1) : l[j] = t[first + j - 1]
      BY <2>1, SubSeqProperties
    <2>3. /\ r \in Seq(X) /\ Len(r) = IF first <= i - 1 THEN (i - 1) - first + 1 ELSE 0
          /\ \A j \in 1..((i - 1) - first + 1) : r[j] = s[first + j - 1]
      BY <2>1, SubSeqProperties
    <2> HIDE DEF l, r
    <2>4. ASSUME NEW j \in 1..Len(l) PROVE l[j] = r[j]
      <3>1. j \in 1..((i - 1) - first + 1) /\ first + j - 1 \in first..(i - 1)
        BY <2>1, <2>2
      <3> QED BY <3>1, <2>1, <2>2, <2>3
    <2>5. l = r
      BY <2>2, <2>3, <2>4, SeqEqual
    <2> QED BY <2>5 DEF l, r
  <1> QED BY <1>5, <1>6, <1>7 DEF t

(* Nor does what ends, or is at fault, among the bytes that were there.     *)
LEMMA StopsStay ==
    ASSUME NEW X, NEW s \in Seq(X), NEW b \in X, NEW skip \in BOOLEAN, NEW i \in 1..Len(s)
    PROVE  /\ i \in LineEnds(Append(s, b)) <=> i \in LineEnds(s)
           /\ i \in Ends(Append(s, b), skip) <=> i \in Ends(s, skip)
           /\ i \in Faults(Append(s, b)) <=> i \in Faults(s)
           /\ NonEmptyLineBy(Append(s, b), i) <=> NonEmptyLineBy(s, i)
  <1> DEFINE t == Append(s, b)
  <1>1. /\ t \in Seq(X) /\ Len(t) = Len(s) + 1 /\ \A j \in 1..Len(s) : t[j] = s[j]
        /\ Len(s) \in Nat /\ DOMAIN s = 1..Len(s) /\ DOMAIN t = 1..(Len(s) + 1)
    <2>1. t \in Seq(X) /\ Len(t) = Len(s) + 1 /\ \A j \in 1..Len(s) : t[j] = s[j]
      BY AppendProperties
    <2> HIDE DEF t
    <2> QED BY <2>1
  <1>2. \A j \in 1..Len(s) : Line(t, j) = Line(s, j)
    BY LineStays
  <1> HIDE DEF t
  <1>3. \A j \in 1..Len(s) : j \in DOMAIN t /\ (j \in LineEnds(t) <=> j \in LineEnds(s))
    BY <1>1 DEF LineEnds
  <1>4. \A j \in LineEnds(t) : j <= i => j \in 1..Len(s)
    BY <1>1 DEF LineEnds
  <1>5. \A j \in LineEnds(s) : j \in 1..Len(s)
    BY <1>1 DEF LineEnds
  <1>6. (\E j \in LineEnds(t) : j < i /\ ~EmptyLine(Line(t, j)))
           <=> (\E j \in LineEnds(s) : j < i /\ ~EmptyLine(Line(s, j)))
    <2>1. \A j \in LineEnds(t) : j < i => j <= i
      BY <1>1 DEF LineEnds
    <2> QED BY <2>1, <1>2, <1>3, <1>4, <1>5
  <1>7. NonEmptyLineBy(t, i) <=> NonEmptyLineBy(s, i)
    BY <1>2, <1>3, <1>4, <1>5 DEF NonEmptyLineBy
  <1>8. i \in Ends(t, skip) <=> i \in Ends(s, skip)
    BY <1>2, <1>3, <1>6 DEF Ends
  <1>9. i \in Faults(t) <=> i \in Faults(s)
    <2>1. t[i] = s[i] /\ (i > 1 => t[i - 1] = s[i - 1]) /\ i \in DOMAIN s /\ i \in DOMAIN t
      BY <1>1
    <2> QED BY <2>1 DEF Faults, Faulty
  <1> QED BY <1>3, <1>7, <1>8, <1>9 DEF t

(* A place stays one when a byte is appended, and nothing ends before it.   *)
LEMMA PlaceStays ==
    ASSUME NEW X, NEW s \in Seq(X), NEW b \in X, NEW skip \in BOOLEAN, NEW p, Place(p, s)
    PROVE  /\ Place(p, Append(s, b))
           /\ NoEndBy(s, skip, p.at) => NoEndBy(Append(s, b), skip, p.at)
  <1> DEFINE t == Append(s, b)
  <1>1. /\ t \in Seq(X) /\ Len(t) = Len(s) + 1 /\ \A j \in 1..Len(s) : t[j] = s[j]
    BY AppendProperties
  <1>2. \A j \in 1..Len(s) : /\ j \in Ends(t, skip) <=> j \in Ends(s, skip)
                             /\ NonEmptyLineBy(t, j) <=> NonEmptyLineBy(s, j)
    BY StopsStay
  <1> HIDE DEF t
  <1>3. /\ p.at \in Nat /\ p.line_start \in Nat /\ Len(s) \in Nat /\ p.at <= Len(s)
        /\ p.line_start <= p.at
    BY DEF Place, Progress
  <1>4. NonEmptyLineBy(t, p.at) <=> NonEmptyLineBy(s, p.at)
    <2>1. CASE p.at = 0
      <3>1. ~NonEmptyLineBy(t, 0) /\ ~NonEmptyLineBy(s, 0)
        BY <1>1, <1>3 DEF NonEmptyLineBy, LineEnds
      <3> QED BY <3>1, <2>1
    <2>2. CASE p.at \in 1..Len(s)
      BY <2>2, <1>2
    <2> QED BY <2>1, <2>2, <1>3
  <1>5. Place(p, t)
    BY <1>1, <1>3, <1>4 DEF Place
  <1>6. NoEndBy(s, skip, p.at) => NoEndBy(t, skip, p.at)
    <2> SUFFICES ASSUME NoEndBy(s, skip, p.at), NEW i \in Ends(t, skip) PROVE i > p.at
      BY DEF NoEndBy
    <2>1. i \in 1..(Len(s) + 1)
      BY <1>1, <1>3 DEF Ends, LineEnds
    <2>2. CASE i \in 1..Len(s)
      BY <2>2, <1>2 DEF NoEndBy
    <2>3. CASE i = Len(s) + 1
      BY <2>3, <1>3
    <2> QED BY <2>1, <2>2, <2>3, <1>3
  <1> QED BY <1>5, <1>6 DEF t

----------------------------------------------------------------------------
(* What httparse says is decided by the first end or fault.                 *)
LEMMA HttparseVerdict ==
    ASSUME NEW X, NEW s \in Seq(X), NEW skip \in BOOLEAN, NEW r, r = httparse(s, skip)
    PROVE  /\ r.status \in {"Partial", "Err", "Complete"}
           /\ r.status = "Partial" <=> Ends(s, skip) = {} /\ Faults(s) = {}
           /\ r.status = "Complete" => r.end \in Ends(s, skip) /\ r.end \in 1..Len(s)
  <1> DEFINE stops == Ends(s, skip) \cup Faults(s)
             first == CHOOSE i \in stops : \A j \in stops : i <= j
  <1>1. Ends(s, skip) \subseteq 1..Len(s) /\ stops \subseteq Nat
    BY DEF Ends, LineEnds, Faults
  <1>2. stops # {} => first \in stops
    BY <1>1, LeastExists
  <1>3. r = IF stops = {} THEN Parsed("Partial", 0)
            ELSE IF first \in Faults(s) THEN Parsed("Err", 0) ELSE Parsed("Complete", first)
    BY Zenon DEF httparse
  <1> HIDE DEF first
  <1> QED BY <1>1, <1>2, <1>3 DEF Parsed

(* Once there is an end or a fault, no byte that follows matters.           *)
LEMMA HttparseStays ==
    ASSUME NEW X, NEW s \in Seq(X), NEW b \in X, NEW skip \in BOOLEAN,
           httparse(s, skip).status # "Partial"
    PROVE  httparse(Append(s, b), skip) = httparse(s, skip)
  <1> DEFINE t == Append(s, b)
             stops == Ends(s, skip) \cup Faults(s)
             later == Ends(t, skip) \cup Faults(t)
             first == CHOOSE i \in stops : \A j \in stops : i <= j
             same == CHOOSE i \in later : \A j \in later : i <= j
  <1>1. stops # {}
    BY HttparseVerdict
  <1>2. Len(t) = Len(s) + 1 /\ Len(s) \in Nat /\ t \in Seq(X)
    BY AppendProperties
  <1>3. stops \subseteq 1..Len(s) /\ later \subseteq 1..(Len(s) + 1)
    <2> HIDE DEF t
    <2> QED BY <1>2 DEF Ends, LineEnds, Faults
  <1>4. \A i \in 1..Len(s) : /\ i \in Ends(t, skip) <=> i \in Ends(s, skip)
                             /\ i \in Faults(t) <=> i \in Faults(s)
    BY StopsStay
  <1>5. first \in stops /\ \A j \in stops : first <= j
    <2>1. stops \subseteq Nat
      BY <1>3
    <2>2. \E i \in stops : \A j \in stops : i <= j
      BY <1>1, <2>1, LeastExists
    <2> QED BY <2>2
  <1>6. first \in later /\ \A j \in later : first <= j
    <2>1. first \in 1..Len(s)
      BY <1>3, <1>5
    <2> HIDE DEF first, t
    <2>2. \A j \in later : j \in stops \/ j = Len(s) + 1
      BY <1>2, <1>3, <1>4
    <2>3. first \in later
      BY <2>1, <1>4, <1>5
    <2>4. \A j \in later : first <= j
      BY <2>1, <2>2, <1>2, <1>3, <1>5
    <2> QED BY <2>3, <2>4
  <1>7. same \in later /\ \A j \in later : same <= j
    BY <1>6
  <1>8. same = first
    <2>1. same <= first /\ first <= same /\ same \in Nat /\ first \in Nat
      BY <1>3, <1>6, <1>7
    <2> HIDE DEF same, first
    <2> QED BY <2>1
  <1>9. first \in Faults(t) <=> first \in Faults(s)
    BY <1>3, <1>4, <1>5
  <1>10. httparse(s, skip) = IF first \in Faults(s) THEN Parsed("Err", 0) ELSE Parsed("Complete", first)
    BY <1>1, Zenon DEF httparse
  <1>11. httparse(t, skip) = IF same \in Faults(t) THEN Parsed("Err", 0) ELSE Parsed("Complete", same)
    <2>1. later # {}
      BY <1>6
    <2> QED BY <2>1, Zenon DEF httparse
  <1> HIDE DEF same, first, t
  <1>12. httparse(t, skip) = httparse(s, skip)
    BY <1>8, <1>9, <1>10, <1>11
  <1> QED BY <1>12 DEF t

(* The bytes that are parsed: all of them up to the limit.                  *)
LEMMA SectionIs ==
    ASSUME NEW s \in Seq(Bytes)
    PROVE  /\ section(s) \in Seq(Bytes)
           /\ Len(section(s)) \in Nat /\ Len(section(s)) <= Len(s)
           /\ Len(s) <= MaxHead => section(s) = s
  <1>1. Len(s) \in Nat /\ MaxHead \in Nat
    BY SectionAssumption
  <1> DEFINE n == IF MaxHead < Len(s) THEN MaxHead ELSE Len(s)
  <1>2. n \in 0..Len(s) /\ \A i \in 1..n : s[i] \in Bytes
    BY <1>1
  <1>3. section(s) = SubSeq(s, 1, n)
    BY DEF section
  <1>4. Len(s) <= MaxHead => n = Len(s)
    BY <1>1
  <1> HIDE DEF n
  <1>5. SubSeq(s, 1, n) \in Seq(Bytes) /\ Len(SubSeq(s, 1, n)) = IF 1 <= n THEN n - 1 + 1 ELSE 0
    BY <1>1, <1>2, SubSeqProperties
  <1>6. Len(SubSeq(s, 1, n)) \in Nat /\ Len(SubSeq(s, 1, n)) <= Len(s)
    BY <1>1, <1>2, <1>5
  <1> QED BY <1>3, <1>4, <1>5, <1>6, SubSeqFull

(* Beyond the limit no byte is parsed.                                      *)
LEMMA SectionStays ==
    ASSUME NEW s \in Seq(Bytes), NEW b \in Bytes, Len(s) >= MaxHead
    PROVE  section(Append(s, b)) = section(s)
  <1> DEFINE t == Append(s, b)
             l == SubSeq(t, 1, MaxHead)
             r == SubSeq(s, 1, MaxHead)
  <1>1. /\ t \in Seq(Bytes) /\ Len(t) = Len(s) + 1 /\ \A j \in 1..Len(s) : t[j] = s[j]
        /\ Len(s) \in Nat /\ MaxHead \in Nat
    BY AppendProperties, SectionAssumption
  <1>2. section(t) = l
    <2> HIDE DEF t
    <2> QED BY <1>1 DEF section
  <1>3. section(s) = r
    BY <1>1 DEF section
  <1> HIDE DEF t
  <1>4. \A i \in 1..MaxHead : t[i] \in Bytes /\ s[i] \in Bytes /\ t[i] = s[i]
    BY <1>1
  <1>5. /\ l \in Seq(Bytes) /\ Len(l) = IF 1 <= MaxHead THEN MaxHead - 1 + 1 ELSE 0
        /\ \A i \in 1..(MaxHead - 1 + 1) : l[i] = t[1 + i - 1]
    BY <1>1, <1>4, SubSeqProperties
  <1>6. /\ r \in Seq(Bytes) /\ Len(r) = IF 1 <= MaxHead THEN MaxHead - 1 + 1 ELSE 0
        /\ \A i \in 1..(MaxHead - 1 + 1) : r[i] = s[1 + i - 1]
    BY <1>1, <1>4, SubSeqProperties
  <1> HIDE DEF l, r
  <1>7. ASSUME NEW i \in 1..Len(l) PROVE l[i] = r[i]
    <2>1. i \in 1..(MaxHead - 1 + 1) /\ 1 + i - 1 = i /\ i \in 1..MaxHead
      BY <1>1, <1>5
    <2> QED BY <2>1, <1>4, <1>5, <1>6
  <1>8. l = r
    BY <1>5, <1>6, <1>7, SeqEqual
  <1> QED BY <1>2, <1>3, <1>8 DEF t

(* A line ends at i.                                                        *)
CrlfAt(s, i) == s[i - 1] = "cr" /\ s[i] = "lf"

(* find_crlf returns the end of the first line end, or 0.                   *)
LEMMA FindsCrlf ==
    ASSUME NEW s, Len(s) \in Nat, NEW from \in Nat, NEW e, e = find_crlf(s, from)
    PROVE  /\ e = 0 => \A i \in (from + 2)..Len(s) : ~CrlfAt(s, i)
           /\ e # 0 => /\ e \in (from + 2)..Len(s) /\ CrlfAt(s, e)
                       /\ \A i \in (from + 2)..Len(s) : CrlfAt(s, i) => e <= i
  <1> DEFINE at == {i \in (from + 2)..Len(s) : s[i - 1] = "cr" /\ s[i] = "lf"}
  <1>1. e = IF at = {} THEN 0 ELSE CHOOSE i \in at : \A j \in at : i <= j
    BY DEF find_crlf
  <1>2. at \subseteq Nat
    OBVIOUS
  <1>3. at # {} => e \in at /\ \A j \in at : e <= j
    <2>1. at # {} => \E i \in at : \A j \in at : i <= j
      BY <1>2, LeastExists
    <2> HIDE DEF at
    <2> QED BY <2>1, <1>1
  <1>4. \A i \in at : i # 0
    OBVIOUS
  <1>5. \A i \in (from + 2)..Len(s) : CrlfAt(s, i) <=> i \in at
    BY DEF CrlfAt
  <1>6. at \subseteq (from + 2)..Len(s)
    OBVIOUS
  <1> HIDE DEF at
  <1> QED BY <1>1, <1>3, <1>4, <1>5, <1>6

(* Where a search starts does not matter when there is no end before.       *)
LEMMA CrlfFromAnywhere ==
    ASSUME NEW s, Len(s) \in Nat, NEW from \in Nat,
           \A i \in 2..(from + 1) : i <= Len(s) => ~CrlfAt(s, i)
    PROVE  find_crlf(s, from) = find_crlf(s, 0)
  <1> DEFINE l == find_crlf(s, from)
             r == find_crlf(s, 0)
  <1>1. /\ l = 0 => \A i \in (from + 2)..Len(s) : ~CrlfAt(s, i)
        /\ l # 0 => /\ l \in (from + 2)..Len(s) /\ CrlfAt(s, l)
                    /\ \A i \in (from + 2)..Len(s) : CrlfAt(s, i) => l <= i
    BY FindsCrlf
  <1>2. /\ r = 0 => \A i \in 2..Len(s) : ~CrlfAt(s, i)
        /\ r # 0 => /\ r \in 2..Len(s) /\ CrlfAt(s, r)
                    /\ \A i \in 2..Len(s) : CrlfAt(s, i) => r <= i
    <2>1. 0 \in Nat /\ 0 + 2 = 2
      OBVIOUS
    <2>2. /\ r = 0 => \A i \in (0 + 2)..Len(s) : ~CrlfAt(s, i)
          /\ r # 0 => /\ r \in (0 + 2)..Len(s) /\ CrlfAt(s, r)
                      /\ \A i \in (0 + 2)..Len(s) : CrlfAt(s, i) => r <= i
      BY <2>1, FindsCrlf, Zenon
    <2> HIDE DEF r
    <2> QED BY <2>1, <2>2
  <1>3. ASSUME NEW i \in 2..Len(s), CrlfAt(s, i) PROVE i \in (from + 2)..Len(s)
    <2>1. i \notin 2..(from + 1)
      BY <1>3
    <2> QED BY <2>1
  <1>4. ASSUME NEW i \in (from + 2)..Len(s) PROVE i \in 2..Len(s)
    OBVIOUS
  <1> HIDE DEF l, r
  <1>5. l = r
    <2>1. CASE l = 0 \/ r = 0
      BY <2>1, <1>1, <1>2, <1>3, <1>4
    <2>2. CASE l # 0 /\ r # 0
      <3>1. l <= r /\ r <= l /\ l \in Nat /\ r \in Nat
        BY <2>2, <1>1, <1>2, <1>3, <1>4
      <3> QED BY <3>1
    <2> QED BY <2>1, <2>2
  <1> QED BY <1>5 DEF l, r

----------------------------------------------------------------------------
(* The state as its polls leave it.                                         *)
Verdicts == {None, "NeedData", "Complete", "Err", "Err400", "Err414", "Err431"}

(* The type of the state, with the place of the scan.                       *)
Typed ==
    /\ data \in Seq(Bytes)
    /\ eof \in BOOLEAN
    /\ kind \in DOMAIN Following
    /\ verdict \in Verdicts
    /\ work \in Nat
    /\ Place(progress, data)
    /\ progress.parsed <= Len(data)
    /\ scanned \in Nat
    /\ scanned = 0 \/ scanned < Len(data)

(* While the section is undecided, what earlier polls have seen holds no    *)
(* end of it, what earlier parses have seen holds no fault, and the parses  *)
(* so far are paid for by the last one: sizes have at least doubled.        *)
Undecided ==
    /\ NoEndBy(data, kind = "head", progress.at)
    /\ \A i \in Faults(data) : i > progress.parsed
    /\ \A i \in 2..(scanned + 1) : ~CrlfAt(data, i)
    /\ work <= 2 * progress.parsed

(* The inductive invariant.                                                 *)
Inv ==
    /\ Typed
    /\ work <= 3 * Len(data)
    /\ Polling => Undecided

(* A section that has not begun.                                            *)
LEMMA FreshPlace ==
    ASSUME NEW s \in Seq(Bytes), NEW skip \in BOOLEAN
    PROVE  /\ Place(DefaultProgress, s)
           /\ DefaultProgress.at = 0 /\ DefaultProgress.parsed = 0
           /\ NoEndBy(s, skip, 0)
           /\ \A i \in Faults(s) : i > 0
  <1>1. DefaultProgress \in Progress /\ DefaultProgress.at = 0 /\ DefaultProgress.parsed = 0
        /\ DefaultProgress.line_start = 0 /\ DefaultProgress.started = FALSE
    BY DEF DefaultProgress, Progress
  <1>2. Len(s) \in Nat /\ LineEnds(s) \subseteq 1..Len(s) /\ Faults(s) \subseteq 1..Len(s)
    BY DEF LineEnds, Faults
  <1>3. ~NonEmptyLineBy(s, 0)
    BY <1>2 DEF NonEmptyLineBy
  <1>4. NoEndBy(s, skip, 0)
    BY <1>2 DEF NoEndBy, Ends
  <1>5. Place(DefaultProgress, s)
    <2>1. \A i \in (0 + 1)..0 : s[i] # "lf"
      OBVIOUS
    <2> QED BY <2>1, <1>1, <1>2, <1>3 DEF Place
  <1>6. \A i \in Faults(s) : i > 0
    BY <1>2
  <1> QED BY <1>1, <1>4, <1>5, <1>6

(* The transport appends a byte: what is known of the others stays known.   *)
LEMMA ReceiveKeepsInv ==
    ASSUME Inv, NEW byte \in Bytes, Receive(byte)
    PROVE  Inv'
  <1> DEFINE skip == kind = "head"
  <1>1. /\ data' = Append(data, byte) /\ eof' = eof /\ kind' = kind /\ progress' = progress
        /\ scanned' = scanned /\ work' = work
        /\ verdict' = IF Polling THEN None ELSE verdict
    BY DEF Receive
  <1>2. /\ data' \in Seq(Bytes) /\ Len(data') = Len(data) + 1 /\ Len(data) \in Nat
        /\ \A i \in 1..Len(data) : data'[i] = data[i]
    BY <1>1, AppendProperties DEF Inv, Typed
  <1>3. /\ Place(progress, data')
        /\ NoEndBy(data, skip, progress.at) => NoEndBy(data', skip, progress.at)
    <2>1. skip \in BOOLEAN /\ data \in Seq(Bytes) /\ Place(progress, data)
      BY DEF Inv, Typed
    <2> QED BY <2>1, <1>1, PlaceStays
  <1>4. progress.parsed \in Nat /\ scanned \in Nat /\ (scanned = 0 \/ scanned < Len(data))
        /\ progress.parsed <= Len(data) /\ work \in Nat /\ work <= 3 * Len(data)
    BY DEF Inv, Typed, Place, Progress
  <1>5. Polling' <=> Polling
    BY <1>1 DEF Polling, None
  <1>6. Typed'
    <2>1. verdict' \in Verdicts
      BY <1>1 DEF Inv, Typed, Verdicts
    <2>2. Place(progress, data)'
      BY <1>1, <1>3, Zenon DEF Place, NonEmptyLineBy, LineEnds, Line, EmptyLine, Progress
    <2> QED BY <1>1, <1>2, <1>4, <2>1, <2>2 DEF Inv, Typed, Following
  <1>7. ASSUME Polling PROVE Undecided'
    <2>1. NoEndBy(data', skip, progress.at)
      BY <1>3, <1>7 DEF Inv, Undecided
    <2>2. ASSUME NEW i \in Faults(data') PROVE i > progress.parsed
      <3>1. i \in 1..(Len(data) + 1)
        BY <1>2 DEF Faults
      <3>2. CASE i \in 1..Len(data)
        <4>1. i \in Faults(data)
          <5>1. data \in Seq(Bytes) /\ TRUE \in BOOLEAN
            BY DEF Inv, Typed
          <5> QED BY <5>1, <1>1, <3>2, <2>2, StopsStay
        <4> QED BY <4>1, <1>7 DEF Inv, Undecided
      <3>3. CASE i = Len(data) + 1
        BY <3>3, <1>2, <1>4
      <3> QED BY <3>1, <3>2, <3>3, <1>2
    <2>3. ASSUME NEW i \in 2..(scanned + 1) PROVE ~CrlfAt(data', i)
      <3>1. i \in 1..Len(data) /\ i - 1 \in 1..Len(data)
        BY <1>2, <1>4
      <3>2. ~CrlfAt(data, i)
        BY <1>7 DEF Inv, Undecided
      <3> QED BY <3>1, <3>2, <1>2 DEF CrlfAt
    <2>4. work <= 2 * progress.parsed
      BY <1>7 DEF Inv, Undecided
    <2>5. /\ NoEndBy(data, kind = "head", progress.at)' = NoEndBy(data', skip, progress.at)
          /\ Faults(data)' = Faults(data')
          /\ \A i \in 2..(scanned + 1) : CrlfAt(data, i)' = CrlfAt(data', i)
      BY <1>1, Zenon DEF NoEndBy, Ends, LineEnds, Line, EmptyLine, Faults, Faulty, CrlfAt
    <2> HIDE DEF skip
    <2> QED BY <2>1, <2>2, <2>3, <2>4, <2>5, <1>1 DEF Undecided
  <1> QED BY <1>1, <1>2, <1>4, <1>5, <1>6, <1>7 DEF Inv

----------------------------------------------------------------------------
(* The fields of what due returns.                                          *)
LEMMA DueFields ==
    ASSUME NEW yes \in BOOLEAN, NEW p, NEW d, d = [yes |-> yes, p |-> p]
    PROVE  d.yes \in BOOLEAN /\ (d.yes <=> yes) /\ d.p = p
  OBVIOUS

(* due: a poll that does not parse has looked at every byte and seen no end *)
(* of the section; one that does has twice the bytes of the last parse, or  *)
(* an end to find.                                                          *)
LEMMA ParseDue ==
    ASSUME NEW X, NEW s \in Seq(X), NEW skip \in BOOLEAN, NEW p,
           Place(p, s), NoEndBy(s, skip, p.at), NEW d, d = due(p, s, skip)
    PROVE  /\ d.yes \in BOOLEAN
           /\ Place(d.p, s)
           /\ ~d.yes => Ends(s, skip) = {} /\ Len(s) < 2 * p.parsed /\ d.p.parsed = p.parsed
           /\ d.yes => d.p.parsed = Len(s) /\ (Len(s) >= 2 * p.parsed \/ Ends(s, skip) # {})
  <1> DEFINE q == poll(p, s, skip)
             scanning == Len(s) < 2 * p.parsed
             yes == ~scanning \/ q.found
             after == IF scanning THEN q.p ELSE p
  <1>1. Len(s) \in Nat /\ p.parsed \in Nat
    BY DEF Place, Progress
  <1>2. /\ Place(q.p, s) /\ q.p.parsed = p.parsed /\ q.found \in BOOLEAN
        /\ q.found => Ends(s, skip) # {}
        /\ ~q.found => Ends(s, skip) = {}
    BY PollFindsEnd
  <1>3. d = [yes |-> yes, p |-> IF yes THEN [after EXCEPT !.parsed = Len(s)] ELSE after]
    BY DEF due
  <1> HIDE DEF q
  <1>4. Place(after, s) /\ after.parsed = p.parsed
    BY <1>2
  <1> HIDE DEF after
  <1>5. /\ d.yes \in BOOLEAN /\ (d.yes <=> yes)
        /\ d.p = IF yes THEN [after EXCEPT !.parsed = Len(s)] ELSE after
    <2>1. yes \in BOOLEAN
      BY <1>2
    <2> HIDE DEF yes
    <2> QED BY <1>3, <2>1, DueFields, Zenon
  <1>7. /\ Place([after EXCEPT !.parsed = Len(s)], s)
        /\ [after EXCEPT !.parsed = Len(s)].parsed = Len(s)
    <2> DEFINE b == [after EXCEPT !.parsed = Len(s)]
    <2>1. after \in Progress
      BY <1>4 DEF Place
    <2>2. b \in Progress /\ b.at = after.at /\ b.line_start = after.line_start
          /\ b.started = after.started /\ b.parsed = Len(s)
      BY <2>1, <1>1 DEF Progress
    <2> HIDE DEF b
    <2>3. Place(b, s)
      BY <2>2, <1>4 DEF Place
    <2> QED BY <2>2, <2>3 DEF b
  <1>8. CASE yes
    <2>1. Len(s) >= 2 * p.parsed \/ Ends(s, skip) # {}
      BY <1>8, <1>1, <1>2
    <2>2. d.p = [after EXCEPT !.parsed = Len(s)]
      BY <1>5, <1>8
    <2> QED BY <2>1, <2>2, <1>5, <1>7, <1>8
  <1>9. CASE ~yes
    <2>1. d.p = after
      BY <1>5, <1>9
    <2>2. scanning /\ ~q.found
      BY <1>9
    <2> QED BY <2>1, <2>2, <1>2, <1>4, <1>5, <1>9
  <1> QED BY <1>8, <1>9

(* A finished section leaves the bytes after it and nothing else.           *)
LEMMA FinishKeepsInv ==
    ASSUME Inv, NEW end \in 1..Len(data), Finish(end)
    PROVE  Inv' /\ Len(data') <= Len(data)
  <1>1. /\ data' = SubSeq(data, end + 1, Len(data)) /\ kind' \in Following[kind]
        /\ progress' = DefaultProgress /\ scanned' = 0 /\ work' = 0
        /\ verdict' = "Complete" /\ eof' = eof
    BY DEF Finish
  <1>2. data \in Seq(Bytes) /\ Len(data) \in Nat /\ end \in Nat
    BY DEF Inv, Typed
  <1>3. data' \in Seq(Bytes) /\ Len(data') = IF end + 1 <= Len(data) THEN Len(data) - (end + 1) + 1 ELSE 0
    <2>1. \A i \in (end + 1)..Len(data) : data[i] \in Bytes
      BY <1>2
    <2> QED BY <1>1, <1>2, <2>1, SubSeqProperties
  <1>4. Len(data') \in Nat /\ Len(data') <= Len(data)
    BY <1>2, <1>3
  <1> DEFINE skip == kind' = "head"
  <1>5. /\ Place(DefaultProgress, data') /\ DefaultProgress.at = 0 /\ DefaultProgress.parsed = 0
        /\ NoEndBy(data', skip, 0) /\ \A i \in Faults(data') : i > 0
    <2>1. skip \in BOOLEAN
      OBVIOUS
    <2> QED BY <2>1, <1>3, FreshPlace
  <1>6. kind' \in DOMAIN Following
    BY <1>1 DEF Inv, Typed, Following
  <1>7. Typed'
    <2>1. Place(progress, data)'
      BY <1>1, <1>5, Zenon DEF Place, NonEmptyLineBy, LineEnds, Line, EmptyLine, Progress
    <2>2. progress'.parsed = 0 /\ (DOMAIN Following)' = DOMAIN Following
      BY <1>1, <1>5 DEF Following
    <2>3. verdict' \in Verdicts /\ eof' \in BOOLEAN
      BY <1>1 DEF Verdicts, Inv, Typed
    <2> QED BY <1>1, <1>3, <1>4, <1>6, <2>1, <2>2, <2>3 DEF Typed
  <1>8. Undecided'
    <2>1. /\ NoEndBy(data, kind = "head", progress.at)' = NoEndBy(data', skip, progress'.at)
          /\ Faults(data)' = Faults(data') /\ progress'.at = 0
      <3>1. progress'.at = 0
        BY <1>1, <1>5
      <3> QED BY <3>1, Zenon DEF NoEndBy, Ends, LineEnds, Line, EmptyLine, Faults, Faulty
    <2>2. progress'.parsed = 0 /\ work' <= 2 * 0
      BY <1>1, <1>5
    <2>3. \A i \in 2..(0 + 1) : ~CrlfAt(data', i)
      OBVIOUS
    <2>4. \A i \in 2..(scanned' + 1) : ~CrlfAt(data, i)'
      BY <1>1, <2>3
    <2> HIDE DEF skip
    <2> QED BY <2>1, <2>2, <2>4, <1>5 DEF Undecided
  <1>9. work' <= 3 * Len(data')
    BY <1>1, <1>4
  <1> QED BY <1>4, <1>7, <1>8, <1>9 DEF Inv

(* A poll of a section: what it says, and what it remembers.                *)
LEMMA PollSectionGood ==
    ASSUME Inv, PollSection
    PROVE  /\ Inv'
           /\ Len(data') <= Len(data)
           /\ \/ verdict' = Judge(data, kind)
              \/ verdict' = need_data_or_eof /\ Judge(data, kind) = "Partial"
              \/ /\ verdict' = "NeedData" /\ Judge(data, kind) = "Err"
                 /\ \A i \in Faults(data) : Len(data) < 2 * i
  <1> DEFINE skip == kind = "head"
             d == section_due(skip)
             r == httparse(section(data), skip)
  <1>1. Polling /\ kind # "chunk" /\ skip \in BOOLEAN
    BY DEF PollSection
  <1>2. /\ data \in Seq(Bytes) /\ Len(data) \in Nat /\ MaxHead \in Nat /\ work \in Nat
        /\ progress.parsed \in Nat /\ progress.parsed <= Len(data) /\ eof \in BOOLEAN
        /\ work <= 2 * progress.parsed
    BY <1>1, SectionAssumption DEF Inv, Typed, Place, Progress, Undecided
  <1>3. /\ section(data) \in Seq(Bytes)
        /\ Len(section(data)) \in Nat /\ Len(section(data)) <= Len(data)
        /\ Len(data) <= MaxHead => section(data) = data
    BY <1>2, SectionIs
  <1>4. /\ r.status \in {"Partial", "Err", "Complete"}
        /\ r.status = "Partial" <=> Ends(section(data), skip) = {} /\ Faults(section(data)) = {}
        /\ r.status = "Complete" => r.end \in Ends(section(data), skip) /\ r.end \in 1..Len(section(data))
    BY <1>1, <1>3, HttparseVerdict
  <1>5. /\ d.yes \in BOOLEAN
        /\ Place(d.p, data)
        /\ ~d.yes => /\ ~eof /\ Len(data) <= MaxHead
                     /\ Ends(data, skip) = {}
                     /\ Len(data) < 2 * progress.parsed
                     /\ d.p.parsed = progress.parsed
        /\ d.yes => \/ (eof \/ Len(data) > MaxHead) /\ d.p = progress
                    \/ /\ ~eof /\ Len(data) <= MaxHead
                       /\ d.p.parsed = Len(data)
                       /\ Len(data) >= 2 * progress.parsed \/ Ends(data, skip) # {}
    <2>1. CASE eof \/ Len(data) > MaxHead
      <3>1. d = [yes |-> TRUE, p |-> progress]
        BY <2>1 DEF section_due
      <3> HIDE DEF d
      <3>2. d.yes \in BOOLEAN /\ d.yes /\ d.p = progress /\ Place(progress, data)
        BY <3>1 DEF Inv, Typed
      <3> QED BY <3>2, <2>1, Zenon
    <2>2. CASE ~eof /\ Len(data) <= MaxHead
      <3>1. d = due(progress, data, skip)
        BY <2>2, <1>2 DEF section_due
      <3>2. Place(progress, data) /\ NoEndBy(data, skip, progress.at)
        BY <1>1 DEF Inv, Typed, Undecided
      <3> HIDE DEF d, skip
      <3>3. /\ d.yes \in BOOLEAN
            /\ Place(d.p, data)
            /\ ~d.yes => Ends(data, skip) = {} /\ Len(data) < 2 * progress.parsed /\ d.p.parsed = progress.parsed
            /\ d.yes => d.p.parsed = Len(data) /\ (Len(data) >= 2 * progress.parsed \/ Ends(data, skip) # {})
        BY <1>1, <1>2, <3>1, <3>2, ParseDue
      <3> QED BY <3>3, <2>2, Zenon
    <2>3. (eof \/ Len(data) > MaxHead) \/ (~eof /\ Len(data) <= MaxHead)
      BY <1>2
    <2> QED BY <2>1, <2>2, <2>3
  <1>6. Judge(data, kind) = IF r.status = "Partial"
                            THEN IF Len(data) > MaxHead THEN TooLong(data, kind) ELSE "Partial"
                            ELSE r.status
    BY <1>1 DEF Judge
  <1>7. \/ d.yes /\ r.status = "Complete" /\ Finish(r.end)
        \/ /\ ~(d.yes /\ r.status = "Complete")
           /\ verdict' = IF d.yes /\ r.status = "Err" THEN "Err" ELSE wait_for_section
           /\ progress' = d.p
           /\ work' = IF d.yes THEN work + Len(section(data)) ELSE work
           /\ data' = data /\ eof' = eof /\ kind' = kind /\ scanned' = scanned
    BY DEF PollSection
  <1>8. TooLong(data, kind) \in {"Err400", "Err414", "Err431"}
    BY DEF TooLong
  <1>9. wait_for_section = IF Len(data) <= MaxHead THEN IF eof THEN "Err" ELSE "NeedData"
                           ELSE TooLong(data, kind)
    BY DEF wait_for_section, need_data_or_eof
  <1> HIDE DEF d, r, skip
  <1>10. CASE d.yes /\ r.status = "Complete" /\ Finish(r.end)
    <2>1. r.end \in 1..Len(data)
      BY <1>2, <1>3, <1>4, <1>10
    <2>2. verdict' = "Complete" /\ Judge(data, kind) = "Complete"
      BY <1>6, <1>10 DEF Finish
    <2> QED BY <2>1, <2>2, <1>10, FinishKeepsInv
  <1>11. CASE /\ ~(d.yes /\ r.status = "Complete")
              /\ verdict' = IF d.yes /\ r.status = "Err" THEN "Err" ELSE wait_for_section
              /\ progress' = d.p
              /\ work' = IF d.yes THEN work + Len(section(data)) ELSE work
              /\ data' = data /\ eof' = eof /\ kind' = kind /\ scanned' = scanned
    <2>1. d.p.parsed \in Nat /\ d.p.parsed <= Len(data)
      <3>1. d.p.parsed \in Nat
        BY <1>5 DEF Place, Progress
      <3> QED BY <3>1, <1>2, <1>5
    <2>2. verdict' \in Verdicts
      BY <1>8, <1>9, <1>11 DEF Verdicts
    <2>3. work' \in Nat /\ work' <= 3 * Len(data)
      BY <1>2, <1>3, <1>5, <1>11
    <2>4. Typed'
      <3>1. Place(progress, data)'
        BY <1>5, <1>11, Zenon DEF Place, NonEmptyLineBy, LineEnds, Line, EmptyLine, Progress
      <3>2. (DOMAIN Following)' = DOMAIN Following
        BY DEF Following
      <3> QED BY <1>11, <2>1, <2>2, <2>3, <3>1, <3>2 DEF Inv, Typed
    <2>5. ASSUME Polling'
          PROVE  /\ Ends(data, skip) = {} /\ work' <= 2 * d.p.parsed
                 /\ \A i \in Faults(data) : i > d.p.parsed
      <3>1. /\ Len(data) <= MaxHead /\ ~eof
            /\ ~(d.yes /\ r.status = "Err")
        BY <2>5, <1>2, <1>8, <1>9, <1>11 DEF Polling, None
      <3>2. CASE d.yes
        <4>1. Ends(data, skip) = {} /\ Faults(data) = {}
          BY <3>1, <3>2, <1>3, <1>4, <1>11
        <4>2. d.p.parsed = Len(data) /\ Len(data) >= 2 * progress.parsed
          BY <4>1, <3>1, <3>2, <1>2, <1>5
        <4> QED BY <4>1, <4>2, <3>2, <1>2, <1>3, <1>11
      <3>3. CASE ~d.yes
        BY <3>3, <1>1, <1>2, <1>5, <1>11 DEF Inv, Undecided
      <3> QED BY <3>2, <3>3
    <2>6. ASSUME Polling' PROVE Undecided'
      <3>1. NoEndBy(data, skip, d.p.at)
        BY <2>5, <2>6 DEF NoEndBy
      <3>2. NoEndBy(data, kind = "head", progress.at)'
        <4>1. NoEndBy(data, kind = "head", progress.at)' = NoEndBy(data', kind' = "head", progress'.at)
          BY Zenon DEF NoEndBy, Ends, LineEnds, Line, EmptyLine
        <4>2. progress'.at = d.p.at /\ data' = data /\ kind' = kind
          BY <1>11, Zenon
        <4>3. NoEndBy(data', kind' = "head", progress'.at) = NoEndBy(data, kind = "head", d.p.at)
          BY <4>2, Zenon
        <4> QED BY <4>1, <4>3, <3>1, Zenon DEF skip
      <3>3. Faults(data)' = Faults(data)
        BY <1>11, Zenon DEF Faults, Faulty
      <3>4. \A i \in 2..(scanned + 1) : ~CrlfAt(data, i)
        BY <1>1 DEF Inv, Undecided
      <3>5. \A i \in 2..(scanned' + 1) : ~CrlfAt(data, i)'
        BY <3>4, <1>11 DEF CrlfAt
      <3> QED BY <3>1, <3>2, <3>3, <3>5, <2>5, <2>6, <1>11 DEF Undecided
    <2>7. Inv'
      BY <2>3, <2>4, <2>6, <1>11 DEF Inv
    <2>8. Len(data') <= Len(data)
      BY <1>2, <1>11
    <2>9. CASE d.yes
      BY <2>7, <2>8, <2>9, <1>2, <1>4, <1>6, <1>9, <1>11 DEF need_data_or_eof
    <2>10. CASE ~d.yes
      <3>1. ~eof /\ Len(data) <= MaxHead /\ section(data) = data /\ verdict' = "NeedData"
        BY <2>10, <1>3, <1>5, <1>9, <1>11
      <3>2. r.status # "Complete"
        BY <2>10, <3>1, <1>4, <1>5
      <3>3. ASSUME NEW i \in Faults(data) PROVE Len(data) < 2 * i
        <4>1. i > progress.parsed /\ i \in Nat
          BY <1>1, <1>2 DEF Inv, Undecided, Faults
        <4> QED BY <4>1, <2>10, <1>2, <1>5
      <3>4. Judge(data, kind) \in {"Partial", "Err"}
        BY <3>1, <3>2, <1>2, <1>4, <1>6
      <3> QED BY <2>7, <2>8, <3>1, <3>3, <3>4 DEF need_data_or_eof
    <2> QED BY <2>9, <2>10, <1>5
  <1> QED BY <1>7, <1>10, <1>11

(* What is known of the bytes is known as long as they are the same.        *)
LEMMA KnownOfBytes ==
    ASSUME data' = data, kind' = kind, progress' = progress
    PROVE  /\ Place(progress, data)' = Place(progress, data)
           /\ NoEndBy(data, kind = "head", progress.at)' = NoEndBy(data, kind = "head", progress.at)
           /\ Faults(data)' = Faults(data)
           /\ \A i : CrlfAt(data, i)' = CrlfAt(data, i)
  <1>1. Place(progress, data)' = Place(progress, data)
    BY Zenon DEF Place, NonEmptyLineBy, LineEnds, Line, EmptyLine, Progress
  <1>2. NoEndBy(data, kind = "head", progress.at)' = NoEndBy(data, kind = "head", progress.at)
    <2>1. NoEndBy(data, kind = "head", progress.at)' = NoEndBy(data', kind' = "head", progress'.at)
      BY Zenon DEF NoEndBy, Ends, LineEnds, Line, EmptyLine
    <2> QED BY <2>1, Zenon
  <1>3. Faults(data)' = Faults(data)
    BY Zenon DEF Faults, Faulty
  <1>4. \A i : CrlfAt(data, i)' = CrlfAt(data, i)
    BY Zenon DEF CrlfAt
  <1> QED BY <1>1, <1>2, <1>3, <1>4, Zenon

(* So is that the section is undecided.                                     *)
LEMMA UndecidedKept ==
    ASSUME data' = data, kind' = kind, progress' = progress, scanned' = scanned, work' = work
    PROVE  Undecided' <=> Undecided
  BY KnownOfBytes, Zenon DEF Undecided

(* A poll of a chunk-size line resumes its search where no line end can     *)
(* have been missed: a CR that came last is looked at again.                *)
LEMMA PollChunkLineGood ==
    ASSUME Inv, PollChunkLine
    PROVE  /\ Inv'
           /\ Len(data') <= Len(data)
           /\ \/ verdict' = Judge(data, kind)
              \/ verdict' = need_data_or_eof /\ Judge(data, kind) = "Partial"
  <1> DEFINE end == find_crlf(data, scanned)
             length == incomplete_line_len(data)
  <1>1. Polling /\ kind = "chunk"
    BY DEF PollChunkLine
  <1>2. /\ data \in Seq(Bytes) /\ Len(data) \in Nat /\ MaxHead \in Nat /\ scanned \in Nat
        /\ eof \in BOOLEAN /\ (scanned = 0 \/ scanned < Len(data))
    BY SectionAssumption DEF Inv, Typed
  <1>3. \A i \in 2..(scanned + 1) : ~CrlfAt(data, i)
    BY <1>1 DEF Inv, Undecided
  <1>4. end = find_crlf(data, 0)
    BY <1>2, <1>3, CrlfFromAnywhere
  <1>5. /\ end = 0 => \A i \in (scanned + 2)..Len(data) : ~CrlfAt(data, i)
        /\ end # 0 => end \in (scanned + 2)..Len(data)
    BY <1>2, FindsCrlf
  <1>6. Judge(data, kind) = IF (IF end = 0 THEN length ELSE end - 2) > MaxHead THEN "Err400"
                            ELSE IF end = 0 THEN "Partial" ELSE "Complete"
    BY <1>1, <1>4 DEF Judge
  <1>7. \/ /\ end = 0 /\ length <= MaxHead
           /\ verdict' = need_data_or_eof
           /\ scanned' = ScannedUpTo(data)
           /\ UNCHANGED <<data, eof, kind, progress, work>>
        \/ /\ IF end = 0 THEN length > MaxHead ELSE end - 2 > MaxHead
           /\ verdict' = "Err400"
           /\ UNCHANGED <<data, eof, kind, progress, scanned, work>>
        \/ end # 0 /\ end - 2 <= MaxHead /\ Finish(end)
    BY DEF PollChunkLine
  <1>8. length \in Int
    BY <1>2 DEF incomplete_line_len
  <1> HIDE DEF end, length
  <1>9. CASE /\ end = 0 /\ length <= MaxHead
             /\ verdict' = need_data_or_eof
             /\ scanned' = ScannedUpTo(data)
             /\ UNCHANGED <<data, eof, kind, progress, work>>
    <2>1. \A i \in 2..Len(data) : ~CrlfAt(data, i)
      <3> SUFFICES ASSUME NEW i \in 2..Len(data) PROVE ~CrlfAt(data, i)
        OBVIOUS
      <3>1. i \in 2..(scanned + 1) \/ i \in (scanned + 2)..Len(data)
        BY <1>2
      <3> QED BY <3>1, <1>3, <1>5, <1>9
    <2>2. scanned' \in Nat /\ (scanned' = 0 \/ scanned' < Len(data)) /\ (scanned' # 0 => scanned' + 1 = Len(data))
      <3>1. data # <<>> => Len(data) # 0
        BY <1>2, EmptySeq
      <3> QED BY <3>1, <1>2, <1>9 DEF ScannedUpTo
    <2>3. verdict' \in {"Err", "NeedData"}
      BY <1>9 DEF need_data_or_eof
    <2>4. Typed'
      <3>1. Place(progress, data)' = Place(progress, data)
        BY <1>9, Zenon DEF Place, NonEmptyLineBy, LineEnds, Line, EmptyLine, Progress
      <3>2. (DOMAIN Following)' = DOMAIN Following /\ verdict' \in Verdicts
        BY <2>3 DEF Following, Verdicts
      <3> QED BY <1>9, <2>2, <3>1, <3>2 DEF Inv, Typed
    <2>5. Undecided'
      <3>1. data' = data /\ kind' = kind /\ progress' = progress /\ work' = work
        BY <1>9
      <3>2. PICK n \in Nat : n = scanned'
        BY <2>2
      <3>3. ASSUME NEW i \in 2..(n + 1) PROVE ~CrlfAt(data, i)
        <4>1. n # 0
          OBVIOUS
        <4>2. n # 0 => n + 1 = Len(data)
          BY <2>2, <3>2, Zenon
        <4> QED BY <4>1, <4>2, <2>1
      <3>4. \A i \in 2..(scanned' + 1) : ~CrlfAt(data, i)'
        BY <3>1, <3>2, <3>3, KnownOfBytes, Zenon
      <3>5. Undecided
        BY <1>1 DEF Inv
      <3> QED BY <3>1, <3>4, <3>5, KnownOfBytes, Zenon DEF Undecided
    <2>6. Inv'
      BY <1>9, <2>4, <2>5 DEF Inv
    <2>7. Judge(data, kind) = "Partial"
      BY <1>2, <1>6, <1>8, <1>9
    <2> QED BY <1>2, <1>9, <2>6, <2>7
  <1>10. CASE /\ IF end = 0 THEN length > MaxHead ELSE end - 2 > MaxHead
              /\ verdict' = "Err400"
              /\ UNCHANGED <<data, eof, kind, progress, scanned, work>>
    <2>1. Typed'
      <3>1. Place(progress, data)' = Place(progress, data)
        BY <1>10, Zenon DEF Place, NonEmptyLineBy, LineEnds, Line, EmptyLine, Progress
      <3>2. (DOMAIN Following)' = DOMAIN Following /\ verdict' \in Verdicts
        BY <1>10 DEF Following, Verdicts
      <3> QED BY <1>10, <3>1, <3>2 DEF Inv, Typed
    <2>2. ~Polling'
      BY <1>10 DEF Polling, None
    <2>3. Inv'
      BY <1>10, <2>1, <2>2 DEF Inv
    <2> QED BY <1>2, <1>6, <1>10, <2>3
  <1>11. CASE end # 0 /\ end - 2 <= MaxHead /\ Finish(end)
    <2>1. end \in 1..Len(data)
      BY <1>2, <1>5, <1>11
    <2>2. verdict' = "Complete" /\ Judge(data, kind) = "Complete"
      BY <1>2, <1>6, <1>11, <2>1 DEF Finish
    <2> QED BY <1>11, <2>1, <2>2, FinishKeepsInv
  <1> QED BY <1>7, <1>9, <1>10, <1>11

(* The transport ends.                                                      *)
LEMMA ReceiveEofKeepsInv ==
    ASSUME Inv, ReceiveEof
    PROVE  Inv' /\ data' = data
  <1>1. /\ eof' = TRUE /\ data' = data /\ kind' = kind /\ progress' = progress
        /\ scanned' = scanned /\ work' = work
        /\ verdict' = IF Polling THEN None ELSE verdict
    BY DEF ReceiveEof
  <1>2. Polling' <=> Polling
    BY <1>1 DEF Polling, None
  <1>3. Typed'
    <2>1. Place(progress, data)' = Place(progress, data)
      BY <1>1, Zenon DEF Place, NonEmptyLineBy, LineEnds, Line, EmptyLine, Progress
    <2>2. (DOMAIN Following)' = DOMAIN Following /\ verdict' \in Verdicts
      BY <1>1 DEF Following, Verdicts, Inv, Typed
    <2>3. eof' \in BOOLEAN
      BY <1>1
    <2> QED BY <1>1, <2>1, <2>2, <2>3 DEF Inv, Typed
  <1>4. Undecided' <=> Undecided
    BY <1>1, UndecidedKept
  <1> QED BY <1>1, <1>2, <1>3, <1>4 DEF Inv

(* Every step keeps the invariant.                                          *)
LEMMA StepKeepsInv == Inv /\ [Next]_vars => Inv'
  <1> SUFFICES ASSUME Inv, [Next]_vars PROVE Inv'
    OBVIOUS
  <1>1. ASSUME NEW byte \in {"cr", "lf", "x", "bad"}, Receive(byte) PROVE Inv'
    <2>1. byte \in Bytes
      BY DEF Bytes
    <2> QED BY <1>1, <2>1, ReceiveKeepsInv
  <1>2. CASE UNCHANGED vars
    <2>1. /\ data' = data /\ eof' = eof /\ kind' = kind /\ progress' = progress
          /\ scanned' = scanned /\ work' = work /\ verdict' = verdict
      BY <1>2 DEF vars
    <2>2. Place(progress, data)' = Place(progress, data)
      BY <2>1, Zenon DEF Place, NonEmptyLineBy, LineEnds, Line, EmptyLine, Progress
    <2>3. Undecided' <=> Undecided
      BY <2>1, UndecidedKept
    <2>4. Typed'
      <3>1. (DOMAIN Following)' = DOMAIN Following
        BY DEF Following
      <3> QED BY <2>1, <2>2, <3>1 DEF Inv, Typed, Verdicts
    <2>5. Polling' <=> Polling
      BY <2>1 DEF Polling, None
    <2> QED BY <2>1, <2>3, <2>4, <2>5 DEF Inv
  <1> QED BY <1>1, <1>2, ReceiveEofKeepsInv, PollSectionGood, PollChunkLineGood DEF Next, PollFailed

(* The invariant holds in every reachable state.                            *)
LEMMA InvHolds == Spec => []Inv
  <1>1. Init => Inv
    <2> SUFFICES ASSUME Init PROVE Inv
      OBVIOUS
    <2>1. /\ data = <<>> /\ eof = FALSE /\ kind = "head" /\ progress = DefaultProgress
          /\ scanned = 0 /\ work = 0 /\ verdict = None
      BY DEF Init
    <2>2. data \in Seq(Bytes) /\ Len(data) = 0
      BY <2>1, EmptySeq
    <2>3. /\ Place(DefaultProgress, data) /\ DefaultProgress.at = 0 /\ DefaultProgress.parsed = 0
          /\ NoEndBy(data, kind = "head", 0) /\ \A i \in Faults(data) : i > 0
      BY <2>2, FreshPlace
    <2>4. Typed
      <3>1. eof \in BOOLEAN
        BY <2>1
      <3>2. kind \in DOMAIN Following /\ verdict \in Verdicts /\ work \in Nat /\ scanned \in Nat
        BY <2>1 DEF Following, Verdicts
      <3>3. progress.parsed <= Len(data) /\ Place(progress, data)
        BY <2>1, <2>2, <2>3
      <3> QED BY <2>1, <2>2, <3>1, <3>2, <3>3 DEF Typed
    <2>5. \A i \in 2..(scanned + 1) : ~CrlfAt(data, i)
      BY <2>1
    <2>6. Undecided
      BY <2>1, <2>3, <2>5 DEF Undecided
    <2> QED BY <2>1, <2>2, <2>4, <2>6 DEF Inv
  <1> QED BY <1>1, StepKeepsInv, PTL DEF Spec

(* All parses of one section together cover at most three times its bytes,  *)
(* whatever the bytes and however often the caller polls.                   *)
THEOREM SectionWorkIsLinear == Spec => []LinearWork
  <1>1. Inv => LinearWork
    BY DEF Inv, LinearWork
  <1> QED BY <1>1, InvHolds, PTL

(* A poll that takes its scan up again concludes what one look at all the   *)
(* bytes would, and asks for more only if that would too, or while the only *)
(* faults are in the later half.                                            *)
THEOREM ResumedPollsAgree == Spec => PollsAgree
  <1> DEFINE Agree ==
        PollSection \/ PollChunkLine =>
          \/ verdict' = Judge(data, kind)
          \/ verdict' = need_data_or_eof /\ Judge(data, kind) = "Partial"
          \/ /\ verdict' = "NeedData" /\ Judge(data, kind) = "Err"
             /\ \A i \in Faults(data) : Len(data) < 2 * i
  <1>1. Inv /\ [Next]_vars => [Agree]_vars
    BY PollSectionGood, PollChunkLineGood
  <1> QED BY <1>1, InvHolds, PTL DEF Spec, PollsAgree

----------------------------------------------------------------------------
(* One more byte does not change a verdict on a section.                    *)
LEMMA SectionVerdictStands ==
    ASSUME NEW s \in Seq(Bytes), NEW b \in Bytes, NEW k \in DOMAIN Following, k # "chunk",
           Judge(s, k) # "Partial"
    PROVE  Judge(Append(s, b), k) = Judge(s, k)
  <1> DEFINE t == Append(s, b)
             skip == k = "head"
  <1>1. t \in Seq(Bytes) /\ Len(t) = Len(s) + 1 /\ Len(s) \in Nat /\ MaxHead \in Nat
    BY AppendProperties, SectionAssumption
  <1>2. CASE Len(s) >= MaxHead
    <2>1. section(t) = section(s)
      BY <1>2, SectionStays
    <2>2. TooLong(t, k) = TooLong(s, k)
      BY <2>1 DEF TooLong
    <2> HIDE DEF t, skip
    <2>3. Judge(t, k) = Judge(s, k)
      <3> DEFINE r == httparse(section(s), skip)
      <3>1. Judge(s, k) = IF r.status = "Partial" THEN IF Len(s) > MaxHead THEN TooLong(s, k) ELSE "Partial"
                          ELSE r.status
        BY DEF Judge, skip
      <3>2. Judge(t, k) = IF r.status = "Partial" THEN IF Len(t) > MaxHead THEN TooLong(t, k) ELSE "Partial"
                          ELSE r.status
        BY <2>1 DEF Judge, skip
      <3> HIDE DEF r
      <3> QED BY <3>1, <3>2, <2>2, <1>1, <1>2
    <2> QED BY <2>3 DEF t
  <1>3. CASE Len(s) < MaxHead
    <2>1. section(s) = s /\ section(t) = t
      <3>1. Len(s) <= MaxHead /\ Len(t) <= MaxHead
        BY <1>1, <1>3
      <3> HIDE DEF t
      <3> QED BY <3>1, <1>1, SectionIs
    <2>2. httparse(s, skip).status # "Partial"
      BY <1>1, <1>3, <2>1 DEF Judge
    <2>3. httparse(t, skip) = httparse(s, skip)
      <3>1. skip \in BOOLEAN
        OBVIOUS
      <3> HIDE DEF skip
      <3> QED BY <2>2, <3>1, HttparseStays
    <2> HIDE DEF t, skip
    <2>4. Judge(t, k) = Judge(s, k)
      BY <2>1, <2>2, <2>3 DEF Judge, skip
    <2> QED BY <2>4 DEF t
  <1> QED BY <1>1, <1>2, <1>3

(* Nor one on a chunk-size line: a line that is too long stays so, with or  *)
(* without the LF that its CR was waiting for.                              *)
LEMMA ChunkVerdictStands ==
    ASSUME NEW s \in Seq(Bytes), NEW b \in Bytes, Judge(s, "chunk") # "Partial"
    PROVE  Judge(Append(s, b), "chunk") = Judge(s, "chunk")
  <1> DEFINE t == Append(s, b)
             end == find_crlf(s, 0)
             later == find_crlf(t, 0)
             length == incomplete_line_len(s)
             longer == incomplete_line_len(t)
  <1>1. /\ t \in Seq(Bytes) /\ Len(t) = Len(s) + 1 /\ Len(s) \in Nat /\ MaxHead \in Nat
        /\ \A i \in 1..Len(s) : t[i] = s[i]
    BY AppendProperties, SectionAssumption
  <1> HIDE DEF t
  <1>2. /\ end = 0 => \A i \in (0 + 2)..Len(s) : ~CrlfAt(s, i)
        /\ end # 0 => /\ end \in (0 + 2)..Len(s) /\ CrlfAt(s, end)
                      /\ \A i \in (0 + 2)..Len(s) : CrlfAt(s, i) => end <= i
    <2>1. 0 \in Nat
      OBVIOUS
    <2> QED BY <1>1, <2>1, FindsCrlf, Zenon
  <1>3. /\ later = 0 => \A i \in (0 + 2)..Len(t) : ~CrlfAt(t, i)
        /\ later # 0 => /\ later \in (0 + 2)..Len(t) /\ CrlfAt(t, later)
                        /\ \A i \in (0 + 2)..Len(t) : CrlfAt(t, i) => later <= i
    <2>1. 0 \in Nat /\ Len(t) \in Nat
      BY <1>1
    <2> QED BY <2>1, FindsCrlf, Zenon
  <1>4. \A i \in 2..Len(s) : CrlfAt(t, i) <=> CrlfAt(s, i)
    BY <1>1 DEF CrlfAt
  <1>5. Judge(s, "chunk") = IF (IF end = 0 THEN length ELSE end - 2) > MaxHead THEN "Err400"
                            ELSE IF end = 0 THEN "Partial" ELSE "Complete"
    BY DEF Judge
  <1>6. Judge(t, "chunk") = IF (IF later = 0 THEN longer ELSE later - 2) > MaxHead THEN "Err400"
                            ELSE IF later = 0 THEN "Partial" ELSE "Complete"
    BY DEF Judge
  <1>7. /\ length \in {Len(s), Len(s) - 1} /\ longer \in {Len(t), Len(t) - 1}
        /\ Len(s) # 0 /\ s[Len(s)] = "cr" => length = Len(s) - 1
    <2>1. Len(s) # 0 => s # <<>>
      BY EmptySeq
    <2> QED BY <2>1 DEF incomplete_line_len
  <1> HIDE DEF end, later, length, longer
  <1>8. CASE end # 0
    <2>1. later # 0 /\ later = end
      <3>1. end \in 2..Len(s) /\ end \in (0 + 2)..Len(t) /\ CrlfAt(t, end)
        BY <1>1, <1>2, <1>4, <1>8
      <3>2. later # 0 /\ later <= end /\ later \in Nat /\ later \in 2..Len(s)
        BY <1>1, <1>3, <3>1
      <3>3. end <= later
        BY <1>2, <1>3, <1>4, <1>8, <3>2
      <3> QED BY <3>1, <3>2, <3>3, <1>1
    <2>2. Judge(t, "chunk") = Judge(s, "chunk")
      BY <1>5, <1>6, <1>8, <2>1
    <2> QED BY <2>2 DEF t
  <1>9. CASE end = 0
    <2>1. length > MaxHead /\ Judge(s, "chunk") = "Err400"
      BY <1>1, <1>5, <1>7, <1>9
    <2>2. CASE later = 0
      <3>1. longer > MaxHead
        BY <1>1, <1>7, <2>1
      <3>2. Judge(t, "chunk") = "Err400"
        BY <1>6, <2>2, <3>1
      <3> QED BY <2>1, <3>2 DEF t
    <2>3. CASE later # 0
      <3>1. later = Len(s) + 1 /\ later - 1 = Len(s) /\ Len(s) # 0
        BY <1>1, <1>2, <1>3, <1>4, <1>9, <2>3
      <3>2. t[Len(s)] = "cr"
        BY <1>3, <2>3, <3>1 DEF CrlfAt
      <3>3. s[Len(s)] = "cr"
        BY <1>1, <3>1, <3>2
      <3>4. later - 2 > MaxHead
        BY <1>1, <1>7, <2>1, <3>1, <3>3
      <3>5. Judge(t, "chunk") = "Err400"
        BY <1>6, <2>3, <3>4
      <3> QED BY <2>1, <3>5 DEF t
    <2> QED BY <2>2, <2>3
  <1> QED BY <1>8, <1>9

(* How the transport cuts the bytes up does not matter: once they are       *)
(* enough for a conclusion, no byte that follows changes it.                *)
THEOREM VerdictsStand == Spec => ConclusionsStand
  <1> DEFINE Stand == Len(data') > Len(data) /\ Judge(data, kind) # "Partial" =>
                         Judge(data', kind) = Judge(data, kind)
  <1>1. Inv /\ [Next]_vars => [Stand]_vars
    <2> SUFFICES ASSUME Inv, Next, Len(data') > Len(data), Judge(data, kind) # "Partial"
                 PROVE  Judge(data', kind) = Judge(data, kind)
      OBVIOUS
    <2>1. data \in Seq(Bytes) /\ Len(data) \in Nat /\ kind \in DOMAIN Following
      BY DEF Inv, Typed
    <2>2. ASSUME NEW byte \in {"cr", "lf", "x", "bad"}, Receive(byte)
          PROVE  Judge(data', kind) = Judge(data, kind)
      <3>1. byte \in Bytes /\ data' = Append(data, byte)
        BY <2>2 DEF Bytes, Receive
      <3>2. Judge(Append(data, byte), kind) = Judge(data, kind)
        BY <2>1, <3>1, SectionVerdictStands, ChunkVerdictStands
      <3> QED BY <3>1, <3>2
    <2>3. ReceiveEof => data' = data
      BY DEF ReceiveEof
    <2>4. PollSection \/ PollChunkLine => Len(data') <= Len(data)
      BY PollSectionGood, PollChunkLineGood
    <2>5. PollFailed => data' = data
      BY DEF PollFailed, vars
    <2>6. ~(data' = data) /\ ~(Len(data') <= Len(data))
      <3>1. Inv'
        BY StepKeepsInv
      <3>2. Len(data') \in Nat
        BY <3>1 DEF Inv, Typed
      <3> QED BY <2>1, <3>2
    <2> QED BY <2>2, <2>3, <2>4, <2>5, <2>6 DEF Next
  <1> QED BY <1>1, InvHolds, PTL DEF Spec, ConclusionsStand
==============================================================================
