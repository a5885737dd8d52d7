----------------------------- MODULE FlowProofs -----------------------------
(***************************************************************************)
(* How a stream of bytes is written by one connection and read by another. *)
(* A flow is the whole history of one direction: the symbols one end has   *)
(* written, the place between two symbols at which a reader stands, and    *)
(* the items (heads, body bytes, ends) they tell.  (1) What each call that *)
(* sends appends to the wire leads a reader from where the writer left it  *)
(* to where the writer leaves it now, past exactly the items that were     *)
(* sent.  (2) Each poll takes a reader along these places, and tells the   *)
(* items on the way.  (3) So a writer, the bytes under way and a reader    *)
(* stay a Stream, whichever call either end makes and however the bytes    *)
(* arrive.  Nothing here depends on how two ends take turns; that is       *)
(* ExchangeProofs.                                                         *)
(***************************************************************************)
EXTENDS Exchange, CallProofs

LOCAL INSTANCE SequencesExt

----------------------------------------------------------------------------
(* Flows: all that one end writes, and what its peer tells of it.           *)

(* A stream and what it tells.  A place is where a reader stands between    *)
(* two symbols: in what it is reading, with n to come (or n trailer fields  *)
(* read), and how many items it has told by then.                           *)
Wires == WireSymbols \cup {HeadOf(h) : h \in MessageHeads}

(* What a side tells its caller: a byte, the end of a message or a head.    *)
Items == {ByteItem, EndItem} \cup {HeadItem(h) : h \in MessageHeads}

(* A place by what is being read, how much of it, and the items told        *)
(* before.                                                                  *)
Place(kind, n, at) == [kind |-> kind, n |-> n, at |-> at]

(* What a reader may be reading; Switched follows an upgrade or a tunnel.   *)
PlaceKinds == {"Head", "Fixed", "CloseDelimited", "ChunkSize", "SizeLine", "ChunkData",
               "ChunkDataEnd", "ChunkTrailers", "Switched"}

(* The places of every flow.                                                *)
Places == [kind : PlaceKinds, n : Nat, at : Nat]

(* All that one side ever writes and sends: the symbols, the place before   *)
(* each and the items.  Of the symbols, the peer has read those up to read, *)
(* those up to came are or will be in its buffer, and the rest up to wrote  *)
(* were lost to a cut; of the items, the peer has told those up to told,    *)
(* those up to due are pending, and the rest up to said are not recorded.   *)
Flows == [sym : [Nat -> Wires], place : [Nat -> Places], item : [Nat -> Items],
          read : Nat, came : Nat, wrote : Nat, told : Nat, due : Nat, said : Nat]

(* The flow d tells the item x as its i-th.                                 *)
Tells(d, i, x) == i \in 1..d.said /\ d.item[i] = x

(* What follows a head, for a reader whose request was of kind rk.          *)
Switched == [kind |-> "Switched", n |-> 0]

(* The framing of what follows the head h for that reader.                  *)
Content(h, rk) ==
    CASE h.kind = "request" -> framing(h, h.version, FALSE)
      [] h.kind # "request" /\ h.status = 101 -> Switched
      [] h.kind # "request" /\ h.status # 101 /\ is_informational(h.status) -> NoFraming
      [] OTHER -> IF rk = "CONNECT" /\ is_success(h.status) THEN Switched
                  ELSE IF Bodyless(h.status, rk) THEN Fixed(0)
                  ELSE framing(h, h.version, TRUE)

(* Content of framing f, with at items told before it, begins at place z.   *)
(* Empty content is over at once, and its end is told.                      *)
Enters(d, f, at, z) ==
    \/ f = Fixed(0) /\ Tells(d, at + 1, EndItem) /\ z = Place("Head", 0, at + 1)
    \/ f = NoFraming /\ z = Place("Head", 0, at)
    \/ f = Chunked /\ z = Place("ChunkSize", 0, at)
    \/ f.kind \in {"Fixed", "CloseDelimited", "Switched"} /\ f # Fixed(0) /\ z = Place(f.kind, f.n, at)

(* One symbol x leads from place q to place z.                              *)
PassesHead(d, rk, q, x, z) ==
    /\ q.kind = "Head" /\ x.tok = "head"
    /\ Tells(d, q.at + 1, HeadItem(x.h)) /\ Enters(d, Content(x.h, rk), q.at + 1, z)

(* A byte of a sized, a chunked or a close-delimited body.                  *)
PassesByte(d, q, x, z) ==
    /\ x = Symbol("byte") /\ Tells(d, q.at + 1, ByteItem)
    /\ \/ q.kind \in {"Fixed", "ChunkData"} /\ q.n > 1 /\ z = Place(q.kind, q.n - 1, q.at + 1)
       \/ /\ q.kind = "Fixed" /\ q.n = 1 /\ Tells(d, q.at + 2, EndItem)
          /\ z = Place("Head", 0, q.at + 2)
       \/ q.kind = "ChunkData" /\ q.n = 1 /\ z = Place("ChunkDataEnd", 0, q.at + 1)
       \/ q.kind = "CloseDelimited" /\ z = Place("CloseDelimited", q.n, q.at + 1)

(* The lines of chunked coding: sizes, line ends and trailer fields.        *)
PassesLine(d, q, x, z) ==
    \/ q.kind = "ChunkSize" /\ x.tok = "hex" /\ z = Place("SizeLine", x.n, q.at)
    \/ /\ q.kind = "SizeLine" /\ x.tok = "crlf"
       /\ z = Place(IF q.n = 0 THEN "ChunkTrailers" ELSE "ChunkData", q.n, q.at)
    \/ q.kind = "ChunkDataEnd" /\ x.tok = "crlf" /\ z = Place("ChunkSize", 0, q.at)
    \/ /\ q.kind = "ChunkTrailers" /\ x.tok = "field" /\ q.n + 1 < MaxHead
       /\ z = Place("ChunkTrailers", q.n + 1, q.at)
    \/ /\ q.kind = "ChunkTrailers" /\ x.tok = "crlf" /\ Tells(d, q.at + 1, EndItem)
       /\ z = Place("Head", 0, q.at + 1)

(* Any symbol.                                                              *)
Passes(d, rk, q, x, z) == PassesHead(d, rk, q, x, z) \/ PassesByte(d, q, x, z) \/ PassesLine(d, q, x, z)

(* Every symbol still to be read leads from the place before it to the      *)
(* place after it, and no place is behind an earlier one.                   *)
Runs(d, rk) ==
    /\ \A i \in (d.read + 1)..d.wrote : Passes(d, rk, d.place[i], d.sym[i], d.place[i + 1])
    /\ \A i, j \in (d.read + 1)..(d.wrote + 1) : i <= j => d.place[i].at <= d.place[j].at

(* Where the reader x stands, and where the writer e leaves a reader.       *)
Starts(d, x) ==
    LET q == d.place[d.read + 1]
        r == x.cycle.reader
    IN  IF peer_state(x) # "SendBody" THEN q = Place("Head", 0, d.told)
        ELSE IF r.kind = "Fixed" /\ r.n = 0
             THEN q = Place("Head", 0, d.told + 1) /\ Tells(d, d.told + 1, EndItem)
        ELSE q = Place(r.kind, r.n, d.told)

(* Where a writer amid a body of framing w leaves its reader.               *)
WriterPlace(w, at) ==
    Place(CASE w = Fixed(0) -> "Head" [] w = Chunked -> "ChunkSize" [] OTHER -> w.kind, w.n, at)

(* Where a reader stands once it has read all that e wrote: where the       *)
(* writer is, or at the next head, or still in a close-delimited body whose *)
(* end e has said.                                                          *)
Finishing(d, e) ==
    LET z == d.place[d.wrote + 1]
    IN  CASE local_state(e) = "SendBody" -> z = WriterPlace(e.cycle.writer, d.said)
          [] e.role = "server" /\ local_state(e) = "SwitchedProtocol" -> z = Place("Switched", 0, d.said)
          [] OTHER -> \/ z = Place("Head", 0, d.said)
                      \/ /\ e.role = "server" /\ e.st.server \in {"MustClose", "Closed"}
                         /\ z = Place("CloseDelimited", 0, d.said - 1) /\ Tells(d, d.said, EndItem)

(* The marks of a flow are in order, and what has come tells no item that   *)
(* is not due.                                                              *)
Bounds(d) == /\ d.read <= d.came /\ d.came <= d.wrote
             /\ d.told <= d.due /\ d.due <= d.said
             /\ d.place[d.came + 1].at <= d.due

(* t is what is under way and in the buffer, q is what is pending.          *)
Carries(d, t, q, broken) ==
    /\ Len(t) = d.came - d.read /\ \A i \in 1..Len(t) : t[i] = d.sym[d.read + i]
    /\ Len(q) = d.due - d.told /\ \A i \in 1..Len(q) : q[i] = d.item[d.told + i]
    /\ ~broken => d.came = d.wrote /\ d.due = d.said

(* The symbols of an exchange are symbols that connections read.            *)
LEMMA WiresOK == SymbolsOK(Wires)
  BY DEF SymbolsOK, Wires, WireSymbols, Symbol, Hex, HeadOf

(* d grows to d2 by the symbols g and the items r.                          *)
Grown(d, d2, g, r) ==
    /\ d2 \in Flows /\ d2.read = d.read /\ d2.told = d.told
    /\ d2.wrote = d.wrote + Len(g) /\ d2.said = d.said + Len(r)
    /\ \A i \in 1..d.wrote : d2.sym[i] = d.sym[i]
    /\ \A i \in 1..(d.wrote + 1) : d2.place[i] = d.place[i]
    /\ \A i \in 1..d.said : d2.item[i] = d.item[i]
    /\ \A i \in 1..Len(g) : d2.sym[d.wrote + i] = g[i]
    /\ \A i \in 1..Len(r) : d2.item[d.said + i] = r[i]

(* To grow twice is to grow by both.                                        *)
LEMMA GrownCompose ==
    ASSUME NEW d \in Flows, NEW e, NEW f, NEW g1 \in Seq(Wires), NEW g2 \in Seq(Wires),
           NEW r1 \in Seq(Items), NEW r2 \in Seq(Items), Grown(d, e, g1, r1), Grown(e, f, g2, r2)
    PROVE  Grown(d, f, g1 \o g2, r1 \o r2)
  <1> DEFINE g == g1 \o g2
             r == r1 \o r2
  <1>1. /\ d.wrote \in Nat /\ d.said \in Nat /\ Len(g1) \in Nat /\ Len(g2) \in Nat
        /\ Len(r1) \in Nat /\ Len(r2) \in Nat
    BY LenProperties DEF Flows
  <1>2. /\ Len(g) = Len(g1) + Len(g2)
        /\ \A i \in 1..(Len(g1) + Len(g2)) : g[i] = IF i <= Len(g1) THEN g1[i] ELSE g2[i - Len(g1)]
    BY ConcatProperties
  <1>3. /\ Len(r) = Len(r1) + Len(r2)
        /\ \A i \in 1..(Len(r1) + Len(r2)) : r[i] = IF i <= Len(r1) THEN r1[i] ELSE r2[i - Len(r1)]
    BY ConcatProperties
  <1> HIDE DEF g, r
  <1>4. /\ f.wrote = d.wrote + Len(g) /\ f.said = d.said + Len(r)
        /\ e.wrote = d.wrote + Len(g1) /\ e.said = d.said + Len(r1)
    BY <1>1, <1>2, <1>3 DEF Grown
  <1>5. /\ \A i \in 1..d.wrote : f.sym[i] = d.sym[i]
        /\ \A i \in 1..(d.wrote + 1) : f.place[i] = d.place[i]
        /\ \A i \in 1..d.said : f.item[i] = d.item[i]
    <2>1. /\ \A i \in 1..d.wrote : i \in 1..e.wrote
          /\ \A i \in 1..(d.wrote + 1) : i \in 1..(e.wrote + 1)
          /\ \A i \in 1..d.said : i \in 1..e.said
      <3>1. e.wrote \in Nat /\ d.wrote <= e.wrote /\ e.said \in Nat /\ d.said <= e.said
        BY <1>1, <1>4
      <3> QED BY <1>1, <3>1
    <2>2. \A i \in 1..d.wrote : f.sym[i] = e.sym[i] /\ e.sym[i] = d.sym[i]
      BY <2>1 DEF Grown
    <2>3. \A i \in 1..(d.wrote + 1) : f.place[i] = e.place[i] /\ e.place[i] = d.place[i]
      BY <2>1 DEF Grown
    <2>4. \A i \in 1..d.said : f.item[i] = e.item[i] /\ e.item[i] = d.item[i]
      BY <2>1 DEF Grown
    <2> QED BY <2>2, <2>3, <2>4
  <1>6. ASSUME NEW i \in 1..Len(g) PROVE f.sym[d.wrote + i] = g[i]
    <2>1. CASE i <= Len(g1)
      <3>1. i \in 1..Len(g1) /\ d.wrote + i \in 1..e.wrote
        BY <1>1, <1>2, <1>4, <2>1
      <3>2. f.sym[d.wrote + i] = e.sym[d.wrote + i] /\ e.sym[d.wrote + i] = g1[i]
        BY <3>1 DEF Grown
      <3> QED BY <1>2, <2>1, <3>2
    <2>2. CASE i > Len(g1)
      <3> DEFINE k == i - Len(g1)
      <3>1. k \in 1..Len(g2) /\ d.wrote + i = e.wrote + k
        BY <1>1, <1>2, <1>4, <2>2
      <3>2. g[i] = g2[k]
        BY <1>1, <1>2, <2>2
      <3> HIDE DEF k
      <3>3. f.sym[e.wrote + k] = g2[k]
        BY <3>1 DEF Grown
      <3> QED BY <3>1, <3>2, <3>3
    <2> QED BY <1>1, <2>1, <2>2
  <1>7. ASSUME NEW i \in 1..Len(r) PROVE f.item[d.said + i] = r[i]
    <2>1. CASE i <= Len(r1)
      <3>1. i \in 1..Len(r1) /\ d.said + i \in 1..e.said
        BY <1>1, <1>3, <1>4, <2>1
      <3>2. f.item[d.said + i] = e.item[d.said + i] /\ e.item[d.said + i] = r1[i]
        BY <3>1 DEF Grown
      <3> QED BY <1>3, <2>1, <3>2
    <2>2. CASE i > Len(r1)
      <3> DEFINE k == i - Len(r1)
      <3>1. k \in 1..Len(r2) /\ d.said + i = e.said + k
        BY <1>1, <1>3, <1>4, <2>2
      <3>2. r[i] = r2[k]
        BY <1>1, <1>3, <2>2
      <3> HIDE DEF k
      <3>3. f.item[e.said + k] = r2[k]
        BY <3>1 DEF Grown
      <3> QED BY <3>1, <3>2, <3>3
    <2> QED BY <1>1, <2>1, <2>2
  <1> QED BY <1>4, <1>5, <1>6, <1>7 DEF Grown, g, r

----------------------------------------------------------------------------
(* How a flow grows.                                                        *)

(* What passes a symbol passes it still when more is said.                  *)
LEMMA PassesStays ==
    ASSUME NEW d \in Flows, NEW d2, NEW g, NEW r \in Seq(Items), Grown(d, d2, g, r), NEW rk, NEW q, NEW x, NEW z,
           Passes(d, rk, q, x, z)
    PROVE  Passes(d2, rk, q, x, z)
  <1>1. \A i, y : Tells(d, i, y) => Tells(d2, i, y)
    <2>1. d.said \in Nat /\ Len(r) \in Nat
      BY LenProperties DEF Flows
    <2> QED BY <2>1 DEF Tells, Grown
  <1>2. PassesHead(d, rk, q, x, z) => PassesHead(d2, rk, q, x, z)
    BY <1>1 DEF PassesHead, Enters
  <1>3. PassesByte(d, q, x, z) => PassesByte(d2, q, x, z)
    BY <1>1 DEF PassesByte
  <1>4. PassesLine(d, q, x, z) => PassesLine(d2, q, x, z)
    BY <1>1 DEF PassesLine
  <1> QED BY <1>2, <1>3, <1>4 DEF Passes

(* The places that new symbols lead through, one for each.                  *)
Leads(d, d2, rk, g, r, way) ==
    LET q == d.place[d.wrote + 1]
    IN  /\ way \in [1..Len(g) -> Places]
        /\ \A i \in 1..Len(g) : Passes(d2, rk, IF i = 1 THEN q ELSE way[i - 1], g[i], way[i])
        /\ \A i \in 1..Len(g) : q.at <= way[i].at
        /\ \A i, j \in 1..Len(g) : i <= j => way[i].at <= way[j].at

(* A flow that grows along such places.                                     *)
GrowTo(d, g, r, way) ==
    [d EXCEPT !.sym = [i \in Nat |-> IF i \in (d.wrote + 1)..(d.wrote + Len(g)) THEN g[i - d.wrote] ELSE d.sym[i]],
              !.item = [i \in Nat |-> IF i \in (d.said + 1)..(d.said + Len(r)) THEN r[i - d.said] ELSE d.item[i]],
              !.place = [i \in Nat |-> IF i \in (d.wrote + 2)..(d.wrote + 1 + Len(g)) THEN way[i - d.wrote - 1]
                                       ELSE d.place[i]],
              !.wrote = @ + Len(g), !.said = @ + Len(r)]

(* A flow that grows along places is a flow, and holds what it grew by.     *)
LEMMA GrowToGrows ==
    ASSUME NEW d \in Flows, NEW g \in Seq(Wires), NEW r \in Seq(Items), NEW way \in [1..Len(g) -> Places],
           NEW d2, d2 = GrowTo(d, g, r, way)
    PROVE  /\ Grown(d, d2, g, r)
           /\ \A i \in 1..Len(g) : d2.place[d.wrote + 1 + i] = way[i]
  <1> DEFINE sym == [i \in Nat |-> IF i \in (d.wrote + 1)..(d.wrote + Len(g)) THEN g[i - d.wrote] ELSE d.sym[i]]
             item == [i \in Nat |-> IF i \in (d.said + 1)..(d.said + Len(r)) THEN r[i - d.said] ELSE d.item[i]]
             place == [i \in Nat |-> IF i \in (d.wrote + 2)..(d.wrote + 1 + Len(g)) THEN way[i - d.wrote - 1]
                                       ELSE d.place[i]]
  <1>1. /\ d.wrote \in Nat /\ d.said \in Nat /\ Len(g) \in Nat /\ Len(r) \in Nat
        /\ d.sym \in [Nat -> Wires] /\ d.item \in [Nat -> Items] /\ d.place \in [Nat -> Places]
        /\ \A i \in 1..Len(g) : g[i] \in Wires
        /\ \A i \in 1..Len(r) : r[i] \in Items
    BY LenProperties, ElementOfSeq DEF Flows
  <1>2. sym \in [Nat -> Wires]
    <2>1. ASSUME NEW i \in Nat PROVE sym[i] \in Wires
      <3>1. CASE i \in (d.wrote + 1)..(d.wrote + Len(g))
        <4>1. i - d.wrote \in 1..Len(g)
          BY <1>1, <3>1
        <4> QED BY <1>1, <3>1, <4>1
      <3>2. CASE i \notin (d.wrote + 1)..(d.wrote + Len(g))
        BY <1>1, <3>2
      <3> QED BY <3>1, <3>2
    <2> QED BY <2>1
  <1>3. item \in [Nat -> Items]
    <2>1. ASSUME NEW i \in Nat PROVE item[i] \in Items
      <3>1. CASE i \in (d.said + 1)..(d.said + Len(r))
        <4>1. i - d.said \in 1..Len(r)
          BY <1>1, <3>1
        <4> QED BY <1>1, <3>1, <4>1
      <3>2. CASE i \notin (d.said + 1)..(d.said + Len(r))
        BY <1>1, <3>2
      <3> QED BY <3>1, <3>2
    <2> QED BY <2>1
  <1>4. place \in [Nat -> Places]
    <2>1. ASSUME NEW i \in Nat PROVE place[i] \in Places
      <3>1. CASE i \in (d.wrote + 2)..(d.wrote + 1 + Len(g))
        <4>1. i - d.wrote - 1 \in 1..Len(g)
          BY <1>1, <3>1
        <4> QED BY <1>1, <3>1, <4>1
      <3>2. CASE i \notin (d.wrote + 2)..(d.wrote + 1 + Len(g))
        BY <1>1, <3>2
      <3> QED BY <3>1, <3>2
    <2> QED BY <2>1
  <1>5. /\ \A i \in 1..d.wrote : sym[i] = d.sym[i]
        /\ \A i \in 1..(d.wrote + 1) : place[i] = d.place[i]
        /\ \A i \in 1..d.said : item[i] = d.item[i]
    BY <1>1
  <1>6. ASSUME NEW i \in 1..Len(g) PROVE sym[d.wrote + i] = g[i] /\ place[d.wrote + 1 + i] = way[i]
    <2>1. /\ d.wrote + i \in (d.wrote + 1)..(d.wrote + Len(g)) /\ (d.wrote + i) - d.wrote = i
          /\ d.wrote + 1 + i \in (d.wrote + 2)..(d.wrote + 1 + Len(g))
          /\ (d.wrote + 1 + i) - d.wrote - 1 = i
          /\ d.wrote + i \in Nat /\ d.wrote + 1 + i \in Nat
      BY <1>1
    <2> QED BY <2>1
  <1>7. ASSUME NEW i \in 1..Len(r) PROVE item[d.said + i] = r[i]
    <2>1. /\ d.said + i \in (d.said + 1)..(d.said + Len(r)) /\ (d.said + i) - d.said = i
          /\ d.said + i \in Nat
      BY <1>1
    <2> QED BY <2>1
  <1> HIDE DEF sym, item, place
  <1>8. d2 = [d EXCEPT !.sym = sym, !.item = item, !.place = place, !.wrote = @ + Len(g), !.said = @ + Len(r)]
    BY DEF GrowTo, sym, item, place
  <1>9. /\ d2 \in Flows /\ d2.sym = sym /\ d2.item = item /\ d2.place = place
        /\ d2.wrote = d.wrote + Len(g) /\ d2.said = d.said + Len(r)
        /\ d2.read = d.read /\ d2.told = d.told
    <2>1. d.wrote + Len(g) \in Nat /\ d.said + Len(r) \in Nat
      BY <1>1
    <2>2. d2 = [d EXCEPT !.sym = sym, !.item = item, !.place = place, !.wrote = d.wrote + Len(g),
                         !.said = d.said + Len(r)]
      BY <1>8
    <2> QED BY <1>2, <1>3, <1>4, <2>1, <2>2 DEF Flows
  <1> QED BY <1>5, <1>6, <1>7, <1>9 DEF Grown

(* What grows along places that lead on still runs, and ends at the last of *)
(* them.                                                                    *)
LEMMA GrowToRuns ==
    ASSUME NEW d \in Flows, NEW g \in Seq(Wires), NEW r \in Seq(Items), NEW way, NEW rk, NEW d2,
           Grown(d, d2, g, r), \A i \in 1..Len(g) : d2.place[d.wrote + 1 + i] = way[i],
           Leads(d, d2, rk, g, r, way), Runs(d, rk), d.read <= d.wrote
    PROVE  /\ Runs(d2, rk) /\ d2.read <= d2.wrote
           /\ d2.place[d2.wrote + 1] = IF Len(g) = 0 THEN d.place[d.wrote + 1] ELSE way[Len(g)]
  <1> DEFINE w == d.wrote
             n == Len(g)
  <1>1. /\ w \in Nat /\ n \in Nat /\ d.read \in Nat /\ d2.wrote = w + n /\ d2.read = d.read
        /\ d.place \in [Nat -> Places] /\ d2.place \in [Nat -> Places]
    BY LenProperties DEF Flows, Grown
  <1>2. /\ \A i \in 1..w : d2.sym[i] = d.sym[i]
        /\ \A i \in 1..(w + 1) : d2.place[i] = d.place[i]
        /\ \A i \in 1..n : d2.sym[w + i] = g[i]
        /\ \A i \in 1..n : d2.place[w + 1 + i] = way[i]
    BY DEF Grown
  <1> HIDE DEF w, n
  <1>3. ASSUME NEW i \in (d2.read + 1)..d2.wrote
        PROVE  Passes(d2, rk, d2.place[i], d2.sym[i], d2.place[i + 1])
    <2>1. CASE i <= w
      <3>1. i \in (d.read + 1)..w /\ i \in 1..w /\ i \in 1..(w + 1) /\ i + 1 \in 1..(w + 1)
        BY <1>1, <2>1
      <3>2. Passes(d, rk, d.place[i], d.sym[i], d.place[i + 1])
        BY <3>1 DEF Runs, w
      <3>3. Passes(d2, rk, d.place[i], d.sym[i], d.place[i + 1])
        BY <3>2, PassesStays
      <3> QED BY <1>2, <3>1, <3>3
    <2>2. CASE i > w
      <3> DEFINE k == i - w
      <3>1. k \in 1..n /\ w + k = i /\ w + 1 + k = i + 1 /\ k \in Int
        BY <1>1, <2>2
      <3>2. k # 1 => k - 1 \in 1..n /\ w + 1 + (k - 1) = i
        BY <1>1, <2>2
      <3>3. k = 1 => i = w + 1
        BY <1>1, <2>2
      <3> HIDE DEF k
      <3>4. d2.sym[i] = g[k] /\ d2.place[i + 1] = way[k]
        BY <1>2, <3>1
      <3>5. d2.place[i] = IF k = 1 THEN d.place[w + 1] ELSE way[k - 1]
        <4>1. CASE k = 1
          <5>1. w + 1 \in 1..(w + 1)
            BY <1>1
          <5> QED BY <1>2, <3>3, <4>1, <5>1
        <4>2. CASE k # 1
          BY <1>2, <3>2, <4>2
        <4> QED BY <4>1, <4>2
      <3>6. Passes(d2, rk, IF k = 1 THEN d.place[w + 1] ELSE way[k - 1], g[k], way[k])
        BY <3>1 DEF Leads, w, n
      <3> QED BY <3>4, <3>5, <3>6
    <2> QED BY <1>1, <2>1, <2>2
  <1>4. ASSUME NEW i \in (d2.read + 1)..(d2.wrote + 1), NEW j \in (d2.read + 1)..(d2.wrote + 1), i <= j
        PROVE  d2.place[i].at <= d2.place[j].at
    <2>0. /\ i \in Nat /\ j \in Nat /\ d2.place[i].at \in Nat /\ d2.place[j].at \in Nat
          /\ w + 1 \in Nat /\ d.place[w + 1].at \in Nat
      <3>1. i \in Nat /\ j \in Nat /\ w + 1 \in Nat
        BY <1>1
      <3>2. d2.place[i] \in Places /\ d2.place[j] \in Places /\ d.place[w + 1] \in Places
        BY <1>1, <3>1
      <3> QED BY <3>1, <3>2 DEF Places
    <2>1. \A k \in (d.read + 1)..(w + 1) : d2.place[k] = d.place[k] /\ d.place[k].at <= d.place[w + 1].at
      <3>1. \A k \in (d.read + 1)..(w + 1) : k \in 1..(w + 1) /\ k <= w + 1
        BY <1>1
      <3>2. w + 1 \in (d.read + 1)..(w + 1)
        BY <1>1 DEF w
      <3>3. \A k \in (d.read + 1)..(w + 1) : d.place[k].at <= d.place[w + 1].at
        BY <3>1, <3>2 DEF Runs, w
      <3> QED BY <1>2, <3>1, <3>3
    <2>2. CASE j <= w + 1
      <3>1. i \in (d.read + 1)..(w + 1) /\ j \in (d.read + 1)..(w + 1)
        BY <1>1, <1>4, <2>2
      <3>2. d.place[i].at <= d.place[j].at
        BY <1>4, <3>1 DEF Runs, w
      <3> QED BY <2>1, <3>1, <3>2
    <2>3. CASE j > w + 1
      <3> DEFINE k == j - w - 1
      <3>1. k \in 1..n /\ w + 1 + k = j
        BY <1>1, <2>3
      <3>2. d2.place[j] = way[k] /\ d.place[w + 1].at <= way[k].at
        <4>1. d2.place[w + 1 + k] = way[k]
          BY <1>2, <3>1
        <4>2. d.place[w + 1].at <= way[k].at
          BY <3>1 DEF Leads, w, n
        <4> QED BY <3>1, <4>1, <4>2
      <3>3. CASE i <= w + 1
        <4>1. i \in (d.read + 1)..(w + 1)
          BY <1>1, <3>3
        <4>2. d2.place[i].at <= d.place[w + 1].at
          BY <2>1, <4>1
        <4> QED BY <2>0, <3>2, <4>2
      <3>4. CASE i > w + 1
        <4> DEFINE m == i - w - 1
        <4>1. m \in 1..n /\ w + 1 + m = i /\ m <= k
          BY <1>1, <1>4, <3>4
        <4>2. d2.place[w + 1 + m] = way[m]
          BY <1>2, <4>1
        <4>3. way[m].at <= way[k].at
          BY <3>1, <4>1 DEF Leads, n
        <4> QED BY <3>2, <4>1, <4>2, <4>3
      <3> QED BY <1>1, <2>0, <3>3, <3>4
    <2> QED BY <1>1, <2>0, <2>2, <2>3
  <1>5. d2.read <= d2.wrote
    BY <1>1 DEF w
  <1>6. d2.place[d2.wrote + 1] = IF n = 0 THEN d.place[w + 1] ELSE way[n]
    <2>1. CASE n = 0
      <3>1. d2.wrote + 1 = w + 1 /\ w + 1 \in 1..(w + 1)
        BY <1>1, <2>1
      <3> QED BY <1>2, <2>1, <3>1
    <2>2. CASE n # 0
      <3>1. n \in 1..n /\ d2.wrote + 1 = w + 1 + n
        BY <1>1, <2>2
      <3> QED BY <1>2, <2>2, <3>1
    <2> QED BY <2>1, <2>2
  <1> QED BY <1>3, <1>4, <1>5, <1>6 DEF Runs, w, n

----------------------------------------------------------------------------
(* Leads: symbols and items that lead a reader from one place to another,   *)
(* wherever in a flow it stands.                                            *)

(* From where kind0 and n0 say that a reader stands with all items told,    *)
(* the symbols g and the items r lead to where kind and n say it.           *)
At(d, kind, n) == /\ d \in Flows /\ d.read <= d.wrote
                  /\ d.place[d.wrote + 1] = Place(kind, n, d.said)

(* The symbols g and the items r lead on from wherever all items are told.  *)
Lead(rk, kind0, n0, g, r, kind, n) ==
    \A d : At(d, kind0, n0) /\ Runs(d, rk) =>
        \E d2 : Grown(d, d2, g, r) /\ Runs(d2, rk) /\ At(d2, kind, n)

(* Two leads, one after the other, are a lead.                              *)
LEMMA LeadCompose ==
    ASSUME NEW rk, NEW k0, NEW n0, NEW k1, NEW n1, NEW k2, NEW n2,
           NEW g1 \in Seq(Wires), NEW g2 \in Seq(Wires), NEW r1 \in Seq(Items), NEW r2 \in Seq(Items),
           Lead(rk, k0, n0, g1, r1, k1, n1), Lead(rk, k1, n1, g2, r2, k2, n2)
    PROVE  Lead(rk, k0, n0, g1 \o g2, r1 \o r2, k2, n2)
  <1> SUFFICES ASSUME NEW d, At(d, k0, n0), Runs(d, rk)
               PROVE  \E d2 : Grown(d, d2, g1 \o g2, r1 \o r2) /\ Runs(d2, rk) /\ At(d2, k2, n2)
    BY DEF Lead
  <1>1. PICK e : Grown(d, e, g1, r1) /\ Runs(e, rk) /\ At(e, k1, n1)
    BY DEF Lead
  <1>2. PICK f : Grown(e, f, g2, r2) /\ Runs(f, rk) /\ At(f, k2, n2)
    BY <1>1 DEF Lead
  <1>3. Grown(d, f, g1 \o g2, r1 \o r2)
    BY <1>1, <1>2, GrownCompose DEF At
  <1> QED BY <1>2, <1>3

(* Nothing leads nowhere.                                                   *)
LEMMA LeadNowhere ==
    ASSUME NEW rk, NEW k, NEW n
    PROVE  Lead(rk, k, n, <<>>, <<>>, k, n)
  <1> SUFFICES ASSUME NEW d, At(d, k, n), Runs(d, rk)
               PROVE  Grown(d, d, <<>>, <<>>)
    BY DEF Lead
  <1>1. Len(<<>>) = 0 /\ d.wrote \in Nat /\ d.said \in Nat
    BY EmptySeq DEF At, Flows
  <1> QED BY <1>1 DEF Grown, At

(* A place for each new symbol, from where all items are told.              *)
LEMMA GrowAlong ==
    ASSUME NEW rk, NEW k0, NEW n0, NEW d, At(d, k0, n0), Runs(d, rk),
           NEW g \in Seq(Wires), NEW r \in Seq(Items), Len(g) # 0,
           NEW way \in [1..Len(g) -> Places],
           \A i \in 1..Len(g) : d.said <= way[i].at,
           \A i, j \in 1..Len(g) : i <= j => way[i].at <= way[j].at,
           way[Len(g)].at = d.said + Len(r),
           \A d2 \in Flows :
              d2.said = d.said + Len(r) /\ (\A i \in 1..Len(r) : d2.item[d.said + i] = r[i]) =>
              \A i \in 1..Len(g) :
                 Passes(d2, rk, IF i = 1 THEN Place(k0, n0, d.said) ELSE way[i - 1], g[i], way[i])
    PROVE  \E d2 : Grown(d, d2, g, r) /\ Runs(d2, rk) /\ At(d2, way[Len(g)].kind, way[Len(g)].n)
  <1>1. d \in Flows /\ d.said \in Nat /\ d.wrote \in Nat /\ Len(g) \in Nat /\ Len(r) \in Nat /\ d.read <= d.wrote
    BY LenProperties DEF At, Flows
  <1>2. PICK d2 : d2 = GrowTo(d, g, r, way)
    OBVIOUS
  <1>3. Grown(d, d2, g, r)
    BY <1>1, <1>2, GrowToGrows
  <1>4. \A i \in 1..Len(g) : d2.place[d.wrote + 1 + i] = way[i]
    BY <1>1, <1>2, GrowToGrows
  <1>5. d.place[d.wrote + 1] = Place(k0, n0, d.said) /\ Place(k0, n0, d.said).at = d.said
    BY DEF At, Place
  <1>6. d2 \in Flows /\ d2.said = d.said + Len(r)
    BY <1>3 DEF Grown
  <1>7. Leads(d, d2, rk, g, r, way)
    <2>1. \A i \in 1..Len(r) : d2.item[d.said + i] = r[i]
      BY <1>3 DEF Grown
    <2>2. \A i \in 1..Len(g) : Passes(d2, rk, IF i = 1 THEN Place(k0, n0, d.said) ELSE way[i - 1], g[i], way[i])
      BY <1>6, <2>1
    <2> QED BY <1>5, <2>2 DEF Leads
  <1>8. /\ Runs(d2, rk) /\ d2.read <= d2.wrote
        /\ d2.place[d2.wrote + 1] = IF Len(g) = 0 THEN d.place[d.wrote + 1] ELSE way[Len(g)]
    BY <1>1, <1>3, <1>4, <1>7, GrowToRuns
  <1>9. At(d2, way[Len(g)].kind, way[Len(g)].n)
    <2>1. Len(g) \in 1..Len(g)
      BY <1>1
    <2>2. way[Len(g)] \in Places
      BY <2>1
    <2>3. way[Len(g)] = Place(way[Len(g)].kind, way[Len(g)].n, d2.said)
      BY <1>6, <2>2 DEF Places, Place
    <2> QED BY <1>6, <1>8, <2>3 DEF At
  <1> QED BY <1>3, <1>8, <1>9

(* The items that are said last are r.                                      *)
SaysLast(d, at, r) == d \in Flows /\ d.said = at + Len(r) /\ \A i \in 1..Len(r) : d.item[at + i] = r[i]

(* One symbol.                                                              *)
PassesOne(rk, k0, n0, x, r, k, n) ==
    \A d, at : at \in Nat /\ SaysLast(d, at, r) =>
        Passes(d, rk, Place(k0, n0, at), x, Place(k, n, at + Len(r)))

(* One symbol that passes is a lead.                                        *)
LEMMA LeadOne ==
    ASSUME NEW rk, NEW k0, NEW n0, NEW k \in PlaceKinds, NEW n \in Nat, NEW x \in Wires, NEW r \in Seq(Items),
           PassesOne(rk, k0, n0, x, r, k, n)
    PROVE  Lead(rk, k0, n0, <<x>>, r, k, n)
  <1>1. PICK g : g = <<x>>
    OBVIOUS
  <1>2. g \in Seq(Wires) /\ Len(g) = 1 /\ g[1] = x /\ Len(r) \in Nat
    BY <1>1, LenProperties
  <1> SUFFICES ASSUME NEW d, At(d, k0, n0), Runs(d, rk)
               PROVE  \E d2 : Grown(d, d2, g, r) /\ Runs(d2, rk) /\ At(d2, k, n)
    BY <1>1 DEF Lead
  <1>3. d.said \in Nat /\ d.said + Len(r) \in Nat
    BY <1>2 DEF At, Flows
  <1>4. PICK z : z = Place(k, n, d.said + Len(r))
    OBVIOUS
  <1>5. z \in Places /\ z.at = d.said + Len(r) /\ z.kind = k /\ z.n = n
    BY <1>3, <1>4 DEF Place, Places
  <1>6. PICK way : way = [i \in 1..Len(g) |-> z]
    OBVIOUS
  <1>7. way \in [1..Len(g) -> Places] /\ \A i \in 1..Len(g) : way[i] = z
    BY <1>5, <1>6
  <1>8. /\ \A i \in 1..Len(g) : d.said <= way[i].at
        /\ \A i, j \in 1..Len(g) : i <= j => way[i].at <= way[j].at
        /\ way[Len(g)] = z
    BY <1>2, <1>3, <1>5, <1>7
  <1>9. ASSUME NEW d2 \in Flows, d2.said = d.said + Len(r), \A i \in 1..Len(r) : d2.item[d.said + i] = r[i]
        PROVE  \A i \in 1..Len(g) :
                 Passes(d2, rk, IF i = 1 THEN Place(k0, n0, d.said) ELSE way[i - 1], g[i], way[i])
    <2>1. Passes(d2, rk, Place(k0, n0, d.said), x, z)
      BY <1>3, <1>4, <1>9 DEF PassesOne, SaysLast
    <2> QED BY <1>2, <1>7, <2>1
  <1>10. \E d2 : Grown(d, d2, g, r) /\ Runs(d2, rk) /\ At(d2, way[Len(g)].kind, way[Len(g)].n)
    <2>1. \A d2 \in Flows :
              d2.said = d.said + Len(r) /\ (\A i \in 1..Len(r) : d2.item[d.said + i] = r[i]) =>
              \A i \in 1..Len(g) :
                 Passes(d2, rk, IF i = 1 THEN Place(k0, n0, d.said) ELSE way[i - 1], g[i], way[i])
      BY <1>9
    <2>2. way[Len(g)].at = d.said + Len(r) /\ Len(g) # 0
      BY <1>2, <1>5, <1>8
    <2> QED BY <1>2, <1>7, <1>8, <2>1, <2>2, GrowAlong
  <1> QED BY <1>5, <1>8, <1>10

(* The three kinds of item.                                                 *)
LEMMA ItemKinds ==
    /\ ByteItem \in Items /\ EndItem \in Items
    /\ \A h \in MessageHeads : HeadItem(h) \in Items
  BY DEF Items

(* The kinds of symbol an exchange has, and what tells them apart.          *)
LEMMA SymbolKinds ==
    /\ Symbol("byte") \in Wires /\ Symbol("crlf") \in Wires /\ Symbol("field") \in Wires
    /\ \A n \in Nat : Hex(n) \in Wires
    /\ \A h \in MessageHeads : HeadOf(h) \in Wires
    /\ Symbol("crlf").tok = "crlf" /\ Symbol("field").tok = "field" /\ Symbol("byte").tok = "byte"
    /\ \A n : Hex(n).tok = "hex" /\ Hex(n).n = n
    /\ \A h : HeadOf(h).tok = "head" /\ HeadOf(h).h = h
  BY DEF Wires, WireSymbols, Symbol, Hex, HeadOf

(* A body of n bytes: as symbols on the wire and as items told.             *)
LEMMA BytesTyped ==
    ASSUME NEW n \in Nat
    PROVE  /\ Bytes(n) \in Seq(Items) /\ Len(Bytes(n)) = n /\ \A i \in 1..n : Bytes(n)[i] = ByteItem
           /\ Body(n) \in Seq(Wires) /\ Len(Body(n)) = n /\ \A i \in 1..n : Body(n)[i] = Symbol("byte")
  <1>1. Bytes(n) \in Seq(Items)
    BY ItemKinds, RunOfSymbols DEF Bytes
  <1>2. Body(n) \in Seq(Wires)
    BY SymbolKinds, RunOfSymbols DEF Body
  <1>3. DOMAIN Bytes(n) = 1..n /\ DOMAIN Body(n) = 1..n
    BY DEF Bytes, Body
  <1>4. Len(Bytes(n)) = n /\ Len(Body(n)) = n
    BY <1>1, <1>2, <1>3, LenProperties
  <1> QED BY <1>1, <1>2, <1>4 DEF Bytes, Body

(* A head.                                                                  *)
LEMMA LeadHead ==
    ASSUME NEW rk, NEW h \in MessageHeads, NEW f, f = Content(h, rk)
    PROVE  /\ f = Fixed(0) => Lead(rk, "Head", 0, <<HeadOf(h)>>, <<HeadItem(h), EndItem>>, "Head", 0)
           /\ f = NoFraming => Lead(rk, "Head", 0, <<HeadOf(h)>>, <<HeadItem(h)>>, "Head", 0)
           /\ f = Chunked => Lead(rk, "Head", 0, <<HeadOf(h)>>, <<HeadItem(h)>>, "ChunkSize", 0)
           /\ f.kind \in {"Fixed", "CloseDelimited", "Switched"} /\ f # Fixed(0) /\ f.n \in Nat =>
                Lead(rk, "Head", 0, <<HeadOf(h)>>, <<HeadItem(h)>>, f.kind, f.n)
  <1> DEFINE x == HeadOf(h)
             r1 == <<HeadItem(h)>>
             r2 == <<HeadItem(h), EndItem>>
  <1>1. x \in Wires /\ x.tok = "head" /\ x.h = h
    BY SymbolKinds
  <1>2. r1 \in Seq(Items) /\ r2 \in Seq(Items) /\ Len(r1) = 1 /\ Len(r2) = 2 /\ r1[1] = HeadItem(h)
        /\ r2[1] = HeadItem(h) /\ r2[2] = EndItem
    BY ItemKinds
  <1> HIDE DEF x, r1, r2
  <1>3. ASSUME NEW at \in Nat, NEW d, NEW r \in {r1, r2}, SaysLast(d, at, r), NEW z, Enters(d, f, at + 1, z)
        PROVE  Passes(d, rk, Place("Head", 0, at), x, z)
    <2>1. 1 \in 1..Len(r) /\ r[1] = HeadItem(h) /\ Len(r) \in {1, 2}
      BY <1>2
    <2>2. at + 1 \in 1..d.said
      BY <1>3, <2>1 DEF SaysLast
    <2>3. Tells(d, at + 1, HeadItem(h))
      BY <1>3, <2>1, <2>2 DEF Tells, SaysLast
    <2> QED BY <1>1, <1>3, <2>3 DEF Passes, PassesHead, Place
  <1>4. ASSUME NEW at \in Nat, NEW d, SaysLast(d, at, r2)
        PROVE  Tells(d, (at + 1) + 1, EndItem)
    <2>1. 2 \in 1..Len(r2) /\ at + 2 = (at + 1) + 1 /\ at + 2 \in 1..d.said
      BY <1>2, <1>4 DEF SaysLast
    <2> QED BY <1>2, <1>4, <2>1 DEF Tells, SaysLast
  <1>5. ASSUME f = Fixed(0) PROVE Lead(rk, "Head", 0, <<x>>, r2, "Head", 0)
    <2>1. ASSUME NEW at \in Nat, NEW d, SaysLast(d, at, r2)
          PROVE  Passes(d, rk, Place("Head", 0, at), x, Place("Head", 0, at + Len(r2)))
      <3>1. Enters(d, f, at + 1, Place("Head", 0, at + Len(r2)))
        <4>1. (at + 1) + 1 = at + Len(r2)
          BY <1>2
        <4> QED BY <1>4, <1>5, <2>1, <4>1 DEF Enters
      <3> QED BY <1>3, <2>1, <3>1
    <2> QED BY <1>1, <1>2, <2>1, LeadOne DEF PassesOne, PlaceKinds
  <1>6. ASSUME f = NoFraming PROVE Lead(rk, "Head", 0, <<x>>, r1, "Head", 0)
    <2>1. ASSUME NEW at \in Nat, NEW d, SaysLast(d, at, r1)
          PROVE  Passes(d, rk, Place("Head", 0, at), x, Place("Head", 0, at + Len(r1)))
      <3>1. Enters(d, f, at + 1, Place("Head", 0, at + Len(r1)))
        BY <1>2, <1>6 DEF Enters
      <3> QED BY <1>3, <2>1, <3>1
    <2> QED BY <1>1, <1>2, <2>1, LeadOne DEF PassesOne, PlaceKinds
  <1>7. ASSUME f = Chunked PROVE Lead(rk, "Head", 0, <<x>>, r1, "ChunkSize", 0)
    <2>1. ASSUME NEW at \in Nat, NEW d, SaysLast(d, at, r1)
          PROVE  Passes(d, rk, Place("Head", 0, at), x, Place("ChunkSize", 0, at + Len(r1)))
      <3>1. Enters(d, f, at + 1, Place("ChunkSize", 0, at + Len(r1)))
        BY <1>2, <1>7 DEF Enters
      <3> QED BY <1>3, <2>1, <3>1
    <2> QED BY <1>1, <1>2, <2>1, LeadOne DEF PassesOne, PlaceKinds
  <1>8. ASSUME f.kind \in {"Fixed", "CloseDelimited", "Switched"}, f # Fixed(0), f.n \in Nat
        PROVE  Lead(rk, "Head", 0, <<x>>, r1, f.kind, f.n)
    <2>1. ASSUME NEW at \in Nat, NEW d, SaysLast(d, at, r1)
          PROVE  Passes(d, rk, Place("Head", 0, at), x, Place(f.kind, f.n, at + Len(r1)))
      <3>1. Enters(d, f, at + 1, Place(f.kind, f.n, at + Len(r1)))
        BY <1>2, <1>8 DEF Enters
      <3> QED BY <1>3, <2>1, <3>1
    <2>2. f.kind \in PlaceKinds
      BY <1>8 DEF PlaceKinds
    <2> QED BY <1>1, <1>2, <1>8, <2>1, <2>2, LeadOne DEF PassesOne, PlaceKinds
  <1> QED BY <1>5, <1>6, <1>7, <1>8 DEF x, r1, r2

(* The lines around the chunks.                                             *)
LEMMA LeadLines ==
    ASSUME NEW rk
    PROVE  /\ \A n \in Nat : Lead(rk, "ChunkSize", 0, <<Hex(n)>>, <<>>, "SizeLine", n)
           /\ Lead(rk, "SizeLine", 0, <<Symbol("crlf")>>, <<>>, "ChunkTrailers", 0)
           /\ \A n \in Nat \ {0} : Lead(rk, "SizeLine", n, <<Symbol("crlf")>>, <<>>, "ChunkData", n)
           /\ Lead(rk, "ChunkDataEnd", 0, <<Symbol("crlf")>>, <<>>, "ChunkSize", 0)
           /\ \A n \in Nat : Lead(rk, "ChunkTrailers", n, <<Symbol("crlf")>>, <<EndItem>>, "Head", 0)
  <1>1. <<>> \in Seq(Items) /\ Len(<<>>) = 0 /\ \A at \in Nat : at + 0 = at
    BY EmptySeq
  <1>2. ASSUME NEW n \in Nat PROVE Lead(rk, "ChunkSize", 0, <<Hex(n)>>, <<>>, "SizeLine", n)
    <2>1. \A at \in Nat : \A d :
             Passes(d, rk, Place("ChunkSize", 0, at), Hex(n), Place("SizeLine", n, at + Len(<<>>)))
      BY <1>1, SymbolKinds DEF Passes, PassesLine, Place
    <2> QED BY <1>1, <2>1, SymbolKinds, LeadOne DEF PassesOne, PlaceKinds
  <1>3. Lead(rk, "SizeLine", 0, <<Symbol("crlf")>>, <<>>, "ChunkTrailers", 0)
    <2>1. \A at \in Nat : \A d :
             Passes(d, rk, Place("SizeLine", 0, at), Symbol("crlf"), Place("ChunkTrailers", 0, at + Len(<<>>)))
      BY <1>1, SymbolKinds DEF Passes, PassesLine, Place
    <2> QED BY <1>1, <2>1, SymbolKinds, LeadOne DEF PassesOne, PlaceKinds
  <1>4. ASSUME NEW n \in Nat \ {0} PROVE Lead(rk, "SizeLine", n, <<Symbol("crlf")>>, <<>>, "ChunkData", n)
    <2>1. \A at \in Nat : \A d :
             Passes(d, rk, Place("SizeLine", n, at), Symbol("crlf"), Place("ChunkData", n, at + Len(<<>>)))
      BY <1>1, SymbolKinds DEF Passes, PassesLine, Place
    <2> QED BY <1>1, <2>1, SymbolKinds, LeadOne DEF PassesOne, PlaceKinds
  <1>5. Lead(rk, "ChunkDataEnd", 0, <<Symbol("crlf")>>, <<>>, "ChunkSize", 0)
    <2>1. \A at \in Nat : \A d :
             Passes(d, rk, Place("ChunkDataEnd", 0, at), Symbol("crlf"), Place("ChunkSize", 0, at + Len(<<>>)))
      BY <1>1, SymbolKinds DEF Passes, PassesLine, Place
    <2> QED BY <1>1, <2>1, SymbolKinds, LeadOne DEF PassesOne, PlaceKinds
  <1>6. ASSUME NEW n \in Nat PROVE Lead(rk, "ChunkTrailers", n, <<Symbol("crlf")>>, <<EndItem>>, "Head", 0)
    <2> DEFINE r == <<EndItem>>
    <2>1. r \in Seq(Items) /\ Len(r) = 1 /\ r[1] = EndItem
      BY ItemKinds
    <2> HIDE DEF r
    <2>2. ASSUME NEW at \in Nat, NEW d, SaysLast(d, at, r)
          PROVE  Passes(d, rk, Place("ChunkTrailers", n, at), Symbol("crlf"), Place("Head", 0, at + Len(r)))
      <3>1. 1 \in 1..Len(r) /\ at + 1 \in 1..d.said
        BY <2>1, <2>2 DEF SaysLast
      <3>2. Tells(d, at + 1, EndItem)
        BY <2>1, <2>2, <3>1 DEF Tells, SaysLast
      <3> QED BY <2>1, <3>2, SymbolKinds DEF Passes, PassesLine, Place
    <2>3. Lead(rk, "ChunkTrailers", n, <<Symbol("crlf")>>, r, "Head", 0)
      BY <2>1, <2>2, SymbolKinds, LeadOne DEF PassesOne, PlaceKinds
    <2> QED BY <2>3 DEF r
  <1> QED BY <1>2, <1>3, <1>4, <1>5, <1>6

(* The symbol x, n times.                                                   *)
RunOf(x, n) == [i \in 1..n |-> x]

(* A run of one symbol: its places, by kind, count and items told.          *)
PassesRun(rk, x, r, n, kinds, counts, tolds) ==
    \A d, at : at \in Nat /\ SaysLast(d, at, r) =>
        \A i \in 1..n : Passes(d, rk, Place(kinds[i - 1], counts[i - 1], at + tolds[i - 1]), x,
                                      Place(kinds[i], counts[i], at + tolds[i]))

(* A run of one symbol along places that pass it is a lead.                 *)
LEMMA LeadRun ==
    ASSUME NEW rk, NEW n \in Nat \ {0}, NEW x \in Wires, NEW r \in Seq(Items),
           NEW kinds \in [0..n -> PlaceKinds], NEW counts \in [0..n -> Nat], NEW tolds \in [0..n -> Nat],
           tolds[0] = 0, tolds[n] = Len(r), \A i, j \in 0..n : i <= j => tolds[i] <= tolds[j],
           PassesRun(rk, x, r, n, kinds, counts, tolds)
    PROVE  Lead(rk, kinds[0], counts[0], RunOf(x, n), r, kinds[n], counts[n])
  <1>1. PICK g : g = RunOf(x, n)
    OBVIOUS
  <1>2. g \in Seq(Wires) /\ Len(g) = n /\ \A i \in 1..n : g[i] = x
    <2>1. g \in Seq(Wires)
      BY <1>1, RunOfSymbols DEF RunOf
    <2>2. DOMAIN g = 1..n
      BY <1>1 DEF RunOf
    <2> QED BY <1>1, <2>1, <2>2, LenProperties DEF RunOf
  <1>3. Len(r) \in Nat /\ 0 \in 0..n /\ n \in 0..n /\ \A i \in 1..n : i \in 0..n /\ i - 1 \in 0..n
    BY LenProperties
  <1> SUFFICES ASSUME NEW d, At(d, kinds[0], counts[0]), Runs(d, rk)
               PROVE  \E d2 : Grown(d, d2, g, r) /\ Runs(d2, rk) /\ At(d2, kinds[n], counts[n])
    BY <1>1 DEF Lead
  <1>4. d.said \in Nat
    BY DEF At, Flows
  <1>5. PICK way : way = [i \in 1..Len(g) |-> Place(kinds[i], counts[i], d.said + tolds[i])]
    OBVIOUS
  <1>6. way \in [1..Len(g) -> Places]
    <2>1. ASSUME NEW i \in 1..n PROVE Place(kinds[i], counts[i], d.said + tolds[i]) \in Places
      <3>1. kinds[i] \in PlaceKinds /\ counts[i] \in Nat /\ tolds[i] \in Nat
        BY <1>3
      <3>2. d.said + tolds[i] \in Nat
        BY <1>4, <3>1
      <3> QED BY <3>1, <3>2 DEF Place, Places
    <2> QED BY <1>2, <1>5, <2>1
  <1>7. \A i \in 1..n : /\ way[i] = Place(kinds[i], counts[i], d.said + tolds[i])
                        /\ way[i].at = d.said + tolds[i] /\ way[i].kind = kinds[i] /\ way[i].n = counts[i]
    BY <1>2, <1>5 DEF Place
  <1>8. /\ \A i \in 1..n : d.said <= way[i].at
        /\ \A i, j \in 1..n : i <= j => way[i].at <= way[j].at
        /\ way[n].at = d.said + Len(r)
    <2>1. \A i \in 1..n : tolds[i] \in Nat
      BY <1>3
    <2>2. \A i, j \in 1..n : i <= j => tolds[i] <= tolds[j]
      BY <1>3
    <2>3. n \in 1..n
      OBVIOUS
    <2>4. ASSUME NEW i \in 1..n PROVE d.said <= way[i].at
      <3>1. tolds[i] \in Nat /\ way[i].at = d.said + tolds[i]
        BY <1>7, <2>1
      <3> QED BY <1>4, <3>1
    <2>5. ASSUME NEW i \in 1..n, NEW j \in 1..n, i <= j PROVE way[i].at <= way[j].at
      <3>1. tolds[i] \in Nat /\ tolds[j] \in Nat /\ tolds[i] <= tolds[j]
        BY <2>1, <2>2, <2>5
      <3> QED BY <1>4, <1>7, <3>1
    <2>6. way[n].at = d.said + Len(r)
      BY <1>7, <2>3
    <2> QED BY <2>4, <2>5, <2>6
  <1>9. \A d2 \in Flows :
              d2.said = d.said + Len(r) /\ (\A i \in 1..Len(r) : d2.item[d.said + i] = r[i]) =>
              \A i \in 1..Len(g) :
                 Passes(d2, rk, IF i = 1 THEN Place(kinds[0], counts[0], d.said) ELSE way[i - 1], g[i], way[i])
    <2> SUFFICES ASSUME NEW d2 \in Flows, d2.said = d.said + Len(r), \A i \in 1..Len(r) : d2.item[d.said + i] = r[i],
                        NEW i \in 1..n
                 PROVE  Passes(d2, rk, IF i = 1 THEN Place(kinds[0], counts[0], d.said) ELSE way[i - 1], x, way[i])
      BY <1>2
    <2>1. SaysLast(d2, d.said, r)
      BY DEF SaysLast
    <2>2. Passes(d2, rk, Place(kinds[i - 1], counts[i - 1], d.said + tolds[i - 1]), x, way[i])
      <3>1. Passes(d2, rk, Place(kinds[i - 1], counts[i - 1], d.said + tolds[i - 1]), x,
                           Place(kinds[i], counts[i], d.said + tolds[i]))
        BY <1>4, <2>1 DEF PassesRun
      <3> QED BY <1>7, <3>1
    <2>3. i = 1 => i - 1 = 0 /\ d.said + tolds[i - 1] = d.said
      BY <1>4
    <2>4. i # 1 => i - 1 \in 1..n
      OBVIOUS
    <2>5. i # 1 => way[i - 1] = Place(kinds[i - 1], counts[i - 1], d.said + tolds[i - 1])
      BY <1>7, <2>4
    <2> QED BY <2>2, <2>3, <2>5
  <1>10. \E d2 : Grown(d, d2, g, r) /\ Runs(d2, rk) /\ At(d2, way[Len(g)].kind, way[Len(g)].n)
    BY <1>2, <1>6, <1>8, <1>9, GrowAlong
  <1>11. n \in 1..n
    OBVIOUS
  <1> QED BY <1>2, <1>7, <1>10, <1>11

(* The bytes of a body.                                                     *)
LEMMA LeadBytes ==
    ASSUME NEW rk, NEW n \in Nat \ {0}
    PROVE  /\ \A k \in {"Fixed", "ChunkData"}, m \in Nat : m > n => Lead(rk, k, m, Body(n), Bytes(n), k, m - n)
           /\ Lead(rk, "Fixed", n, Body(n), Bytes(n) \o <<EndItem>>, "Head", 0)
           /\ Lead(rk, "ChunkData", n, Body(n), Bytes(n), "ChunkDataEnd", 0)
           /\ Lead(rk, "CloseDelimited", 0, Body(n), Bytes(n), "CloseDelimited", 0)
  <1> DEFINE x == Symbol("byte")
  <1>1. x \in Wires /\ Body(n) = RunOf(x, n)
    BY SymbolKinds DEF Body, RunOf
  <1> HIDE DEF x
  <1>2. /\ Bytes(n) \in Seq(Items) /\ Len(Bytes(n)) = n /\ \A i \in 1..n : Bytes(n)[i] = ByteItem
    BY BytesTyped
  <1>3. PICK tolds : tolds = [i \in 0..n |-> i]
    OBVIOUS
  <1>4. /\ tolds \in [0..n -> Nat] /\ tolds[0] = 0 /\ tolds[n] = Len(Bytes(n))
        /\ \A i, j \in 0..n : i <= j => tolds[i] <= tolds[j]
        /\ \A i \in 1..n : tolds[i] = i /\ tolds[i - 1] = i - 1
    BY <1>2, <1>3
  <1>5. ASSUME NEW d, NEW at \in Nat, SaysLast(d, at, Bytes(n)), NEW i \in 1..n
        PROVE  Tells(d, (at + (i - 1)) + 1, ByteItem)
    <2>1. d.said = at + n /\ d.item[at + i] = ByteItem
      BY <1>2, <1>5 DEF SaysLast
    <2>2. (at + (i - 1)) + 1 = at + i /\ at + i \in 1..(at + n)
      OBVIOUS
    <2> QED BY <2>1, <2>2 DEF Tells
  <1>6. ASSUME NEW k \in {"Fixed", "ChunkData"}, NEW m \in Nat, m > n
        PROVE  Lead(rk, k, m, Body(n), Bytes(n), k, m - n)
    <2>1. PICK kinds : kinds = [i \in 0..n |-> k]
      OBVIOUS
    <2>2. PICK counts : counts = [i \in 0..n |-> m - i]
      OBVIOUS
    <2>3. kinds \in [0..n -> PlaceKinds] /\ kinds[0] = k /\ kinds[n] = k
          /\ \A i \in 1..n : kinds[i] = k /\ kinds[i - 1] = k
      BY <2>1 DEF PlaceKinds
    <2>4. counts \in [0..n -> Nat] /\ counts[0] = m /\ counts[n] = m - n
          /\ \A i \in 1..n : counts[i] = m - i /\ counts[i - 1] = m - (i - 1)
      BY <1>6, <2>2
    <2>5. ASSUME NEW d, NEW at \in Nat, SaysLast(d, at, Bytes(n)), NEW i \in 1..n
          PROVE  Passes(d, rk, Place(kinds[i - 1], counts[i - 1], at + tolds[i - 1]), x,
                               Place(kinds[i], counts[i], at + tolds[i]))
      <3>1. Tells(d, (at + (i - 1)) + 1, ByteItem)
        BY <1>5, <2>5
      <3>2. /\ (m - (i - 1)) - 1 = m - i /\ m - (i - 1) > 1 /\ (at + (i - 1)) + 1 = at + i
        BY <1>6
      <3>3. PassesByte(d, Place(k, m - (i - 1), at + (i - 1)), x, Place(k, m - i, at + i))
        BY <3>1, <3>2 DEF PassesByte, Place, x
      <3> QED BY <1>4, <2>3, <2>4, <3>3 DEF Passes
    <2>6. PassesRun(rk, x, Bytes(n), n, kinds, counts, tolds)
      BY <2>5 DEF PassesRun
    <2>7. Lead(rk, kinds[0], counts[0], RunOf(x, n), Bytes(n), kinds[n], counts[n])
      BY <1>1, <1>2, <1>4, <2>3, <2>4, <2>6, LeadRun
    <2> QED BY <1>1, <2>3, <2>4, <2>7
  <1>7. PICK counts : counts = [i \in 0..n |-> n - i]
    OBVIOUS
  <1>8. counts \in [0..n -> Nat] /\ counts[0] = n /\ counts[n] = 0
        /\ \A i \in 1..n : counts[i] = n - i /\ counts[i - 1] = n - (i - 1)
    BY <1>7
  <1>9. Lead(rk, "Fixed", n, Body(n), Bytes(n) \o <<EndItem>>, "Head", 0)
    <2>1. PICK r : r = Bytes(n) \o <<EndItem>>
      OBVIOUS
    <2>2. /\ r \in Seq(Items) /\ Len(r) = n + 1 /\ r[n + 1] = EndItem
          /\ \A i \in 1..n : r[i] = ByteItem
      <3>1. <<EndItem>> \in Seq(Items) /\ Len(<<EndItem>>) = 1 /\ <<EndItem>>[1] = EndItem
        BY ItemKinds
      <3>2. /\ r \in Seq(Items) /\ Len(r) = n + 1
            /\ \A i \in 1..(n + 1) : r[i] = IF i <= n THEN Bytes(n)[i] ELSE <<EndItem>>[i - n]
        BY <1>2, <2>1, <3>1, ConcatProperties
      <3>3. n + 1 \in 1..(n + 1) /\ ~(n + 1 <= n) /\ (n + 1) - n = 1 /\ \A i \in 1..n : i \in 1..(n + 1) /\ i <= n
        OBVIOUS
      <3> QED BY <1>2, <3>1, <3>2, <3>3
    <2>3. PICK kinds : kinds = [i \in 0..n |-> IF i < n THEN "Fixed" ELSE "Head"]
      OBVIOUS
    <2>4. PICK tells : tells = [i \in 0..n |-> IF i < n THEN i ELSE n + 1]
      OBVIOUS
    <2>5. kinds \in [0..n -> PlaceKinds] /\ kinds[0] = "Fixed" /\ kinds[n] = "Head"
          /\ \A i \in 1..n : kinds[i] = (IF i < n THEN "Fixed" ELSE "Head") /\ kinds[i - 1] = "Fixed"
      BY <2>3 DEF PlaceKinds
    <2>6. /\ tells \in [0..n -> Nat] /\ tells[0] = 0 /\ tells[n] = Len(r)
          /\ \A i, j \in 0..n : i <= j => tells[i] <= tells[j]
          /\ \A i \in 1..n : tells[i] = (IF i < n THEN i ELSE n + 1) /\ tells[i - 1] = i - 1
      BY <2>2, <2>4
    <2>7. ASSUME NEW d, NEW at \in Nat, SaysLast(d, at, r), NEW i \in 1..n
          PROVE  Passes(d, rk, Place(kinds[i - 1], counts[i - 1], at + tells[i - 1]), x,
                               Place(kinds[i], counts[i], at + tells[i]))
      <3>1. d.said = at + (n + 1) /\ \A j \in 1..(n + 1) : d.item[at + j] = r[j]
        BY <2>2, <2>7 DEF SaysLast
      <3>2. Tells(d, (at + (i - 1)) + 1, ByteItem)
        <4>1. (at + (i - 1)) + 1 = at + i /\ at + i \in 1..(at + (n + 1)) /\ i \in 1..(n + 1)
          OBVIOUS
        <4> QED BY <2>2, <3>1, <4>1 DEF Tells
      <3>3. CASE i < n
        <4>1. (n - (i - 1)) - 1 = n - i /\ n - (i - 1) > 1 /\ (at + (i - 1)) + 1 = at + i
          BY <3>3
        <4>2. PassesByte(d, Place("Fixed", n - (i - 1), at + (i - 1)), x, Place("Fixed", n - i, at + i))
          BY <3>2, <4>1 DEF PassesByte, Place, x
        <4> QED BY <1>8, <2>5, <2>6, <3>3, <4>2 DEF Passes
      <3>4. CASE i = n
        <4>1. n - (i - 1) = 1 /\ n - i = 0 /\ (at + (i - 1)) + 2 = at + (n + 1) /\ ~(i < n)
          BY <3>4
        <4>2. Tells(d, at + (n + 1), EndItem)
          <5>1. at + (n + 1) \in 1..(at + (n + 1)) /\ n + 1 \in 1..(n + 1)
            OBVIOUS
          <5> QED BY <2>2, <3>1, <5>1 DEF Tells
        <4>3. PassesByte(d, Place("Fixed", 1, at + (i - 1)), x, Place("Head", 0, at + (n + 1)))
          BY <3>2, <4>1, <4>2 DEF PassesByte, Place, x
        <4> QED BY <1>8, <2>5, <2>6, <3>4, <4>1, <4>3 DEF Passes
      <3> QED BY <3>3, <3>4
    <2>8. PassesRun(rk, x, r, n, kinds, counts, tells)
      BY <2>7 DEF PassesRun
    <2>9. Lead(rk, kinds[0], counts[0], RunOf(x, n), r, kinds[n], counts[n])
      BY <1>1, <1>8, <2>2, <2>5, <2>6, <2>8, LeadRun
    <2> QED BY <1>1, <1>8, <2>1, <2>5, <2>9
  <1>10. Lead(rk, "ChunkData", n, Body(n), Bytes(n), "ChunkDataEnd", 0)
    <2>1. PICK kinds : kinds = [i \in 0..n |-> IF i < n THEN "ChunkData" ELSE "ChunkDataEnd"]
      OBVIOUS
    <2>2. kinds \in [0..n -> PlaceKinds] /\ kinds[0] = "ChunkData" /\ kinds[n] = "ChunkDataEnd"
          /\ \A i \in 1..n : kinds[i] = (IF i < n THEN "ChunkData" ELSE "ChunkDataEnd") /\ kinds[i - 1] = "ChunkData"
      BY <2>1 DEF PlaceKinds
    <2>3. ASSUME NEW d, NEW at \in Nat, SaysLast(d, at, Bytes(n)), NEW i \in 1..n
          PROVE  Passes(d, rk, Place(kinds[i - 1], counts[i - 1], at + tolds[i - 1]), x,
                               Place(kinds[i], counts[i], at + tolds[i]))
      <3>1. Tells(d, (at + (i - 1)) + 1, ByteItem) /\ (at + (i - 1)) + 1 = at + i
        BY <1>5, <2>3
      <3>2. CASE i < n
        <4>1. (n - (i - 1)) - 1 = n - i /\ n - (i - 1) > 1
          BY <3>2
        <4>2. PassesByte(d, Place("ChunkData", n - (i - 1), at + (i - 1)), x, Place("ChunkData", n - i, at + i))
          BY <3>1, <4>1 DEF PassesByte, Place, x
        <4> QED BY <1>4, <1>8, <2>2, <3>2, <4>2 DEF Passes
      <3>3. CASE i = n
        <4>1. n - (i - 1) = 1 /\ n - i = 0 /\ ~(i < n)
          BY <3>3
        <4>2. PassesByte(d, Place("ChunkData", 1, at + (i - 1)), x, Place("ChunkDataEnd", 0, at + i))
          BY <3>1, <4>1 DEF PassesByte, Place, x
        <4> QED BY <1>4, <1>8, <2>2, <3>3, <4>1, <4>2 DEF Passes
      <3> QED BY <3>2, <3>3
    <2>4. PassesRun(rk, x, Bytes(n), n, kinds, counts, tolds)
      BY <2>3 DEF PassesRun
    <2>5. Lead(rk, kinds[0], counts[0], RunOf(x, n), Bytes(n), kinds[n], counts[n])
      <3>1. kinds \in [0..n -> PlaceKinds] /\ counts \in [0..n -> Nat] /\ tolds \in [0..n -> Nat]
        BY <1>4, <1>8, <2>2
      <3>2. tolds[0] = 0 /\ tolds[n] = Len(Bytes(n)) /\ \A i, j \in 0..n : i <= j => tolds[i] <= tolds[j]
        BY <1>4
      <3> QED BY <1>1, <1>2, <2>4, <3>1, <3>2, LeadRun
    <2> QED BY <1>1, <1>8, <2>2, <2>5
  <1>11. Lead(rk, "CloseDelimited", 0, Body(n), Bytes(n), "CloseDelimited", 0)
    <2>1. PICK kinds : kinds = [i \in 0..n |-> "CloseDelimited"]
      OBVIOUS
    <2>2. PICK zeros : zeros = [i \in 0..n |-> 0]
      OBVIOUS
    <2>3. kinds \in [0..n -> PlaceKinds] /\ zeros \in [0..n -> Nat]
          /\ kinds[0] = "CloseDelimited" /\ kinds[n] = "CloseDelimited" /\ zeros[0] = 0 /\ zeros[n] = 0
          /\ \A i \in 1..n : /\ kinds[i] = "CloseDelimited" /\ kinds[i - 1] = "CloseDelimited"
                             /\ zeros[i] = 0 /\ zeros[i - 1] = 0
      BY <2>1, <2>2 DEF PlaceKinds
    <2>4. ASSUME NEW d, NEW at \in Nat, SaysLast(d, at, Bytes(n)), NEW i \in 1..n
          PROVE  Passes(d, rk, Place(kinds[i - 1], zeros[i - 1], at + tolds[i - 1]), x,
                               Place(kinds[i], zeros[i], at + tolds[i]))
      <3>1. Tells(d, (at + (i - 1)) + 1, ByteItem) /\ (at + (i - 1)) + 1 = at + i
        BY <1>5, <2>4
      <3>2. PassesByte(d, Place("CloseDelimited", 0, at + (i - 1)), x, Place("CloseDelimited", 0, at + i))
        BY <3>1 DEF PassesByte, Place, x
      <3> QED BY <1>4, <2>3, <3>2 DEF Passes
    <2>5. PassesRun(rk, x, Bytes(n), n, kinds, zeros, tolds)
      BY <2>4 DEF PassesRun
    <2>6. Lead(rk, kinds[0], zeros[0], RunOf(x, n), Bytes(n), kinds[n], zeros[n])
      BY <1>1, <1>2, <1>4, <2>3, <2>5, LeadRun
    <2> QED BY <1>1, <2>3, <2>6
  <1> QED BY <1>6, <1>9, <1>10, <1>11

(* The empty sequence adds nothing.                                         *)
LEMMA EmptyJoins ==
    ASSUME NEW X, NEW s \in Seq(X)
    PROVE  <<>> \o s = s /\ s \o <<>> = s
  BY ConcatEmptySeq

(* The trailer fields that the head limit allows.                           *)
LEMMA LeadFields ==
    ASSUME NEW rk, NEW n \in Nat, n < MaxHead
    PROVE  Lead(rk, "ChunkTrailers", 0, RunOf(Symbol("field"), n), <<>>, "ChunkTrailers", n)
  <1> DEFINE x == Symbol("field")
  <1>1. x \in Wires /\ x.tok = "field"
    BY SymbolKinds
  <1> HIDE DEF x
  <1>2. <<>> \in Seq(Items) /\ Len(<<>>) = 0
    BY EmptySeq
  <1>3. CASE n = 0
    <2>1. RunOf(x, 0) \in Seq(Wires) /\ DOMAIN RunOf(x, 0) = 1..0
      BY <1>1, RunOfSymbols DEF RunOf
    <2>2. Len(RunOf(x, 0)) = 0
      BY <2>1, LenProperties
    <2>3. RunOf(x, 0) = <<>>
      BY <2>1, <2>2, EmptySeq
    <2> QED BY <1>3, <2>3, LeadNowhere DEF x
  <1>4. CASE n # 0
    <2>1. PICK kinds : kinds = [i \in 0..n |-> "ChunkTrailers"]
      OBVIOUS
    <2>2. PICK counts : counts = [i \in 0..n |-> i]
      OBVIOUS
    <2>3. PICK zeros : zeros = [i \in 0..n |-> 0]
      OBVIOUS
    <2>4. kinds \in [0..n -> PlaceKinds] /\ counts \in [0..n -> Nat] /\ zeros \in [0..n -> Nat]
      BY <2>1, <2>2, <2>3 DEF PlaceKinds
    <2>5. \A i \in 0..n : kinds[i] = "ChunkTrailers" /\ counts[i] = i /\ zeros[i] = 0
      BY <2>1, <2>2, <2>3
    <2>6. ASSUME NEW d, NEW at \in Nat, NEW i \in 1..n
          PROVE  Passes(d, rk, Place(kinds[i - 1], counts[i - 1], at + zeros[i - 1]), x,
                               Place(kinds[i], counts[i], at + zeros[i]))
      <3>1. i \in 0..n /\ i - 1 \in 0..n /\ at + 0 = at /\ (i - 1) + 1 = i /\ i < MaxHead
        BY MaxHeadAssumption
      <3>2. PassesLine(d, Place("ChunkTrailers", i - 1, at), x, Place("ChunkTrailers", i, at))
        BY <1>1, <3>1 DEF PassesLine, Place
      <3> QED BY <2>5, <3>1, <3>2 DEF Passes
    <2>7. PassesRun(rk, x, <<>>, n, kinds, counts, zeros)
      BY <2>6 DEF PassesRun
    <2>8. zeros[0] = 0 /\ zeros[n] = Len(<<>>) /\ \A i, j \in 0..n : i <= j => zeros[i] <= zeros[j]
      BY <1>2, <2>5
    <2>9. n \in Nat \ {0} /\ 0 \in 0..n /\ n \in 0..n
      BY <1>4
    <2>10. Lead(rk, kinds[0], counts[0], RunOf(x, n), <<>>, kinds[n], counts[n])
      BY <1>1, <1>2, <2>4, <2>7, <2>8, <2>9, LeadRun
    <2> QED BY <2>5, <2>9, <2>10 DEF x
  <1> QED BY <1>3, <1>4

(* Two symbols, one after the other.                                        *)
LEMMA PairJoins ==
    ASSUME NEW a, NEW b
    PROVE  <<a>> \o <<b>> = <<a, b>>
  <1>1. PICK g : g = <<a>>
    OBVIOUS
  <1>2. PICK k : k = <<b>>
    OBVIOUS
  <1>3. PICK l : l = <<a, b>>
    OBVIOUS
  <1>4. PICK X : X = {a, b}
    OBVIOUS
  <1>5. l \in Seq(X) /\ Len(l) = 2 /\ l[1] = a /\ l[2] = b
    BY <1>3, <1>4
  <1>6. g \in Seq(X) /\ k \in Seq(X) /\ Len(g) = 1 /\ Len(k) = 1 /\ g[1] = a /\ k[1] = b
    BY <1>1, <1>2, <1>4
  <1>7. /\ g \o k \in Seq(X) /\ Len(g \o k) = 2
        /\ (g \o k)[1] = a /\ (g \o k)[2] = b
    BY <1>6, ConcatProperties
  <1>8. \A i \in 1..2 : (g \o k)[i] = l[i]
    BY <1>5, <1>7
  <1> QED BY <1>1, <1>2, <1>3, <1>5, <1>7, <1>8, SeqEqual

(* A chunk's size line leads to its data, or to the trailers when it is 0.  *)
LEMMA SizeLineLeads ==
    ASSUME NEW rk, NEW n \in Nat
    PROVE  /\ <<Hex(n), Symbol("crlf")>> \in Seq(Wires)
           /\ Lead(rk, "ChunkSize", 0, <<Hex(n), Symbol("crlf")>>, <<>>,
                   IF n = 0 THEN "ChunkTrailers" ELSE "ChunkData", n)
  <1>1. PICK g : g = <<Hex(n)>>
    OBVIOUS
  <1>2. PICK k : k = <<Symbol("crlf")>>
    OBVIOUS
  <1>3. g \in Seq(Wires) /\ k \in Seq(Wires) /\ <<>> \in Seq(Items) /\ <<Hex(n), Symbol("crlf")>> \in Seq(Wires)
    BY <1>1, <1>2, SymbolKinds
  <1>4. g \o k = <<Hex(n), Symbol("crlf")>> /\ <<>> \o <<>> = <<>>
    BY <1>1, <1>2, <1>3, PairJoins, EmptyJoins
  <1>5. Lead(rk, "ChunkSize", 0, g, <<>>, "SizeLine", n)
    BY <1>1, LeadLines
  <1>6. Lead(rk, "SizeLine", n, k, <<>>, IF n = 0 THEN "ChunkTrailers" ELSE "ChunkData", n)
    BY <1>2, LeadLines
  <1>7. Lead(rk, "ChunkSize", 0, g \o k, <<>> \o <<>>, IF n = 0 THEN "ChunkTrailers" ELSE "ChunkData", n)
    BY <1>3, <1>5, <1>6, LeadCompose
  <1> QED BY <1>3, <1>4, <1>7

(* A chunk of n bytes.                                                      *)
LEMMA ChunkLeads ==
    ASSUME NEW rk, NEW n \in Nat \ {0}, NEW g, g = <<Hex(n), Symbol("crlf")>> \o Body(n) \o <<Symbol("crlf")>>
    PROVE  g \in Seq(Wires) /\ Lead(rk, "ChunkSize", 0, g, Bytes(n), "ChunkSize", 0)
  <1>1. PICK l : l = <<Hex(n), Symbol("crlf")>>
    OBVIOUS
  <1>2. PICK k : k = <<Symbol("crlf")>>
    OBVIOUS
  <1>3. /\ l \in Seq(Wires) /\ k \in Seq(Wires) /\ Body(n) \in Seq(Wires)
        /\ Bytes(n) \in Seq(Items) /\ <<>> \in Seq(Items)
    BY <1>1, <1>2, SymbolKinds, BytesTyped
  <1>4. l \o Body(n) \in Seq(Wires) /\ l \o Body(n) \o k \in Seq(Wires)
    BY <1>3, ConcatProperties
  <1>5. Lead(rk, "ChunkSize", 0, l, <<>>, "ChunkData", n)
    BY <1>1, SizeLineLeads
  <1>6. Lead(rk, "ChunkData", n, Body(n), Bytes(n), "ChunkDataEnd", 0)
    BY LeadBytes
  <1>7. Lead(rk, "ChunkDataEnd", 0, k, <<>>, "ChunkSize", 0)
    BY <1>2, LeadLines
  <1>8. <<>> \o Bytes(n) = Bytes(n) /\ Bytes(n) \o <<>> = Bytes(n)
    BY <1>3, EmptyJoins
  <1>9. Lead(rk, "ChunkSize", 0, l \o Body(n), <<>> \o Bytes(n), "ChunkDataEnd", 0)
    BY <1>3, <1>5, <1>6, LeadCompose
  <1>10. Lead(rk, "ChunkSize", 0, l \o Body(n), Bytes(n), "ChunkDataEnd", 0)
    BY <1>8, <1>9
  <1>11. Lead(rk, "ChunkSize", 0, (l \o Body(n)) \o k, Bytes(n) \o <<>>, "ChunkSize", 0)
    BY <1>3, <1>4, <1>7, <1>10, LeadCompose
  <1> QED BY <1>1, <1>2, <1>4, <1>8, <1>11

(* The last chunk, its trailer fields and the end of the message.           *)
LEMMA LastChunkLeads ==
    ASSUME NEW rk, NEW X, NEW trailers \in Seq(X), Len(trailers) < MaxHead, NEW g, g = last_chunk(trailers)
    PROVE  g \in Seq(Wires) /\ Lead(rk, "ChunkSize", 0, g, <<EndItem>>, "Head", 0)
  <1>1. PICK l : l = <<Hex(0), Symbol("crlf")>>
    OBVIOUS
  <1>2. PICK k : k = <<Symbol("crlf")>>
    OBVIOUS
  <1>3. PICK n \in Nat : n = Len(trailers)
    BY LenProperties
  <1>4. PICK t : t = RunOf(Symbol("field"), n)
    OBVIOUS
  <1>5. Trailer(trailers) = t
    BY <1>3, <1>4, LenProperties DEF Trailer, RunOf
  <1>6. /\ l \in Seq(Wires) /\ k \in Seq(Wires) /\ t \in Seq(Wires)
        /\ <<>> \in Seq(Items) /\ <<EndItem>> \in Seq(Items)
    BY <1>1, <1>2, <1>4, SymbolKinds, ItemKinds, RunOfSymbols DEF RunOf
  <1>7. l \o t \in Seq(Wires) /\ l \o t \o k \in Seq(Wires)
    BY <1>6, ConcatProperties
  <1>8. Lead(rk, "ChunkSize", 0, l, <<>>, "ChunkTrailers", 0)
    BY <1>1, SizeLineLeads
  <1>9. Lead(rk, "ChunkTrailers", 0, t, <<>>, "ChunkTrailers", n)
    BY <1>3, <1>4, LeadFields
  <1>10. Lead(rk, "ChunkTrailers", n, k, <<EndItem>>, "Head", 0)
    BY <1>2, LeadLines
  <1>11. <<>> \o <<>> = <<>> /\ <<>> \o <<EndItem>> = <<EndItem>>
    BY <1>6, EmptyJoins
  <1>12. Lead(rk, "ChunkSize", 0, l \o t, <<>>, "ChunkTrailers", n)
    <2>1. Lead(rk, "ChunkSize", 0, l \o t, <<>> \o <<>>, "ChunkTrailers", n)
      BY <1>6, <1>8, <1>9, LeadCompose
    <2> QED BY <1>11, <2>1
  <1>13. Lead(rk, "ChunkSize", 0, (l \o t) \o k, <<>> \o <<EndItem>>, "Head", 0)
    BY <1>6, <1>7, <1>10, <1>12, LeadCompose
  <1> QED BY <1>1, <1>2, <1>5, <1>7, <1>11, <1>13 DEF last_chunk

----------------------------------------------------------------------------
(* What the calls that send write: send_data, end_of_message, send_request, *)
(* send_response and send_informational_response.                           *)

(* Any flow that the writer e leaves grows by g and r to one that e2        *)
(* leaves.                                                                  *)
Writes(rk, e, e2, g, r) ==
    \A d \in Flows : Runs(d, rk) /\ Finishing(d, e) /\ d.read <= d.wrote =>
        \E d2 : Grown(d, d2, g, r) /\ Runs(d2, rk) /\ Finishing(d2, e2) /\ d2.read <= d2.wrote

(* To write twice is to write both.                                         *)
LEMMA WritesCompose ==
    ASSUME NEW rk, NEW e0, NEW e1, NEW e2,
           NEW g1 \in Seq(Wires), NEW g2 \in Seq(Wires), NEW r1 \in Seq(Items), NEW r2 \in Seq(Items),
           Writes(rk, e0, e1, g1, r1), Writes(rk, e1, e2, g2, r2)
    PROVE  Writes(rk, e0, e2, g1 \o g2, r1 \o r2)
  <1> SUFFICES ASSUME NEW d \in Flows, Runs(d, rk), Finishing(d, e0), d.read <= d.wrote
               PROVE  \E d2 : /\ Grown(d, d2, g1 \o g2, r1 \o r2) /\ Runs(d2, rk) /\ Finishing(d2, e2)
                              /\ d2.read <= d2.wrote
    BY DEF Writes
  <1>1. PICK x : Grown(d, x, g1, r1) /\ Runs(x, rk) /\ Finishing(x, e1) /\ x.read <= x.wrote
    BY DEF Writes
  <1>2. x \in Flows
    BY <1>1 DEF Grown
  <1>3. PICK f : Grown(x, f, g2, r2) /\ Runs(f, rk) /\ Finishing(f, e2) /\ f.read <= f.wrote
    BY <1>1, <1>2 DEF Writes
  <1>4. Grown(d, f, g1 \o g2, r1 \o r2)
    BY <1>1, <1>3, GrownCompose
  <1> QED BY <1>3, <1>4

(* A writer that leaves its reader where kind0 and n0 say, and then where   *)
(* kind and n say.                                                          *)
Leaves(e, kind, n) == \A d \in Flows : (d.read <= d.wrote /\ Finishing(d, e)) => At(d, kind, n)

(* The writer e leaves its reader where kind and n say.                     *)
Reaches(e, kind, n) == \A d : At(d, kind, n) => Finishing(d, e)

(* A lead from where e leaves its reader to where e2 does is what e2 wrote. *)
LEMMA LeadWrites ==
    ASSUME NEW rk, NEW e, NEW e2, NEW g, NEW r, NEW k0, NEW n0, NEW k, NEW n,
           Leaves(e, k0, n0), Lead(rk, k0, n0, g, r, k, n), Reaches(e2, k, n)
    PROVE  Writes(rk, e, e2, g, r)
  <1> SUFFICES ASSUME NEW d \in Flows, Runs(d, rk), Finishing(d, e), d.read <= d.wrote
               PROVE  \E d2 : Grown(d, d2, g, r) /\ Runs(d2, rk) /\ Finishing(d2, e2) /\ d2.read <= d2.wrote
    BY DEF Writes
  <1>1. At(d, k0, n0)
    BY DEF Leaves
  <1>2. PICK d2 : Grown(d, d2, g, r) /\ Runs(d2, rk) /\ At(d2, k, n)
    BY <1>1 DEF Lead
  <1>3. Finishing(d2, e2) /\ d2.read <= d2.wrote
    BY <1>2 DEF Reaches, At
  <1> QED BY <1>2, <1>3

(* Where a writer leaves its reader.                                        *)
LEMMA BodyLeaves ==
    ASSUME NEW e, local_state(e) = "SendBody", NEW w, w = e.cycle.writer
    PROVE  /\ w = Fixed(0) => Leaves(e, "Head", 0) /\ Reaches(e, "Head", 0)
           /\ w = Chunked => Leaves(e, "ChunkSize", 0) /\ Reaches(e, "ChunkSize", 0)
           /\ w # Fixed(0) /\ w # Chunked => Leaves(e, w.kind, w.n) /\ Reaches(e, w.kind, w.n)
  <1>1. /\ w = Fixed(0) => \A at : WriterPlace(w, at) = Place("Head", 0, at)
        /\ w = Chunked => \A at : WriterPlace(w, at) = Place("ChunkSize", 0, at)
        /\ w # Fixed(0) /\ w # Chunked => \A at : WriterPlace(w, at) = Place(w.kind, w.n, at)
    BY DEF WriterPlace, Place, Fixed, Chunked
  <1>2. \A d : Finishing(d, e) <=> d.place[d.wrote + 1] = WriterPlace(w, d.said)
    BY DEF Finishing
  <1> QED BY <1>1, <1>2 DEF Leaves, Reaches, At

(* A writer between messages leaves its reader at a head.                   *)
LEMMA HeadLeaves ==
    ASSUME NEW e, NEW s, s = local_state(e), s # "SendBody", e.role = "server" => s # "SwitchedProtocol"
    PROVE  /\ e.role = "client" \/ s \notin {"MustClose", "Closed"} => Leaves(e, "Head", 0)
           /\ Reaches(e, "Head", 0)
  <1>1. \A d : d.place[d.wrote + 1] = Place("Head", 0, d.said) => Finishing(d, e)
    BY DEF Finishing
  <1>2. ASSUME NEW d, Finishing(d, e), e.role = "client" \/ s \notin {"MustClose", "Closed"}
        PROVE  d.place[d.wrote + 1] = Place("Head", 0, d.said)
    BY <1>2 DEF Finishing, local_state, state
  <1> QED BY <1>1, <1>2 DEF Leaves, Reaches, At

(* A server that has switched leaves its reader in the switched protocol.   *)
LEMMA SwitchedReaches ==
    ASSUME NEW e, e.role = "server", local_state(e) = "SwitchedProtocol"
    PROVE  Reaches(e, "Switched", 0)
  BY DEF Reaches, Finishing, At

(* Writing a piece of a body.                                               *)
LEMMA DataWrites ==
    ASSUME NEW rk, NEW X, NEW c \in Connections(X), Coherent(c), WriterShape(c), NEW n \in Nat \ {0},
           NEW r, r = send_data(c, n), r.ok, NEW items, items = Bytes(n) \o EndsWith(c, r.c)
    PROVE  /\ r.wire \in Seq(Wires) /\ items \in Seq(Items)
           /\ Writes(rk, c, r.c, r.wire, items)
           /\ WriterShape(r.c)
  <1>1. PICK w : w = c.cycle.writer
    OBVIOUS
  <1>2. PICK e : e = r.c
    OBVIOUS
  <1>3. /\ w # NoFraming /\ (w.kind = "Fixed" => n <= w.n)
        /\ e.cycle.writer = IF w.kind = "Fixed" THEN Fixed(w.n - n) ELSE w
        /\ r.wire = DataWire(w, n)
    <2>1. n \in Nat
      OBVIOUS
    <2> QED BY <1>1, <1>2, <2>1, SendDataValue
  <1>4. local_state(c) = "SendBody" /\ local_state(e) = "SendBody" /\ e.role = c.role
    <2>1. local_state(c) = "SendBody" /\ e.st = c.st /\ Moves(X, c, e)
      BY <1>2, SendDataEffect DEF SendResult
    <2> QED BY <2>1 DEF Moves, OnlyLocal, local_state
  <1>5. /\ Bytes(n) \in Seq(Items) /\ Body(n) \in Seq(Wires) /\ <<EndItem>> \in Seq(Items)
        /\ Bytes(n) \o <<>> = Bytes(n) /\ Bytes(n) \o <<EndItem>> \in Seq(Items)
    <2>1. Bytes(n) \in Seq(Items) /\ Body(n) \in Seq(Wires) /\ <<EndItem>> \in Seq(Items)
      BY BytesTyped, ItemKinds
    <2> QED BY <2>1, EmptyJoins, ConcatProperties
  <1>6. w = Chunked \/ w = CloseDelimited \/ (\E m \in Nat : w = Fixed(m))
    BY <1>1, <1>3 DEF WriterShape, IsFraming
  <1>7. IsFraming(w, c.role = "server")
    BY <1>1, <1>3 DEF WriterShape
  <1>8. CASE w = Chunked
    <2>1. e.cycle.writer = Chunked /\ Chunked # Fixed(0)
      BY <1>3, <1>8 DEF Chunked, Fixed
    <2>2. EndsWith(c, e) = <<>>
      BY <2>1 DEF EndsWith
    <2>3. items = Bytes(n)
      BY <1>2, <1>5, <2>2
    <2>4. r.wire \in Seq(Wires) /\ Lead(rk, "ChunkSize", 0, r.wire, Bytes(n), "ChunkSize", 0)
      BY <1>3, <1>8, ChunkLeads DEF DataWire
    <2>5. Leaves(c, "ChunkSize", 0) /\ Reaches(e, "ChunkSize", 0)
      BY <1>1, <1>4, <1>8, <2>1, BodyLeaves
    <2>6. Writes(rk, c, e, r.wire, items)
      BY <2>3, <2>4, <2>5, LeadWrites
    <2> QED BY <1>2, <1>4, <1>5, <1>7, <1>8, <2>1, <2>3, <2>4, <2>6 DEF WriterShape
  <1>9. CASE w = CloseDelimited
    <2>1. e.cycle.writer = CloseDelimited /\ CloseDelimited # Fixed(0) /\ CloseDelimited # Chunked
          /\ CloseDelimited.kind = "CloseDelimited" /\ CloseDelimited.n = 0
      BY <1>3, <1>9 DEF Chunked, Fixed, CloseDelimited
    <2>2. EndsWith(c, e) = <<>>
      BY <2>1 DEF EndsWith
    <2>3. items = Bytes(n) /\ r.wire = Body(n)
      BY <1>2, <1>3, <1>5, <1>9, <2>1, <2>2 DEF DataWire
    <2>4. Lead(rk, "CloseDelimited", 0, Body(n), Bytes(n), "CloseDelimited", 0)
      BY LeadBytes
    <2>5. Leaves(c, "CloseDelimited", 0) /\ Reaches(e, "CloseDelimited", 0)
      BY <1>1, <1>4, <1>9, <2>1, BodyLeaves
    <2>6. Writes(rk, c, e, r.wire, items)
      BY <2>3, <2>4, <2>5, LeadWrites
    <2> QED BY <1>2, <1>4, <1>5, <1>7, <1>9, <2>1, <2>3, <2>6 DEF WriterShape
  <1>10. ASSUME NEW m \in Nat, w = Fixed(m)
         PROVE  r.wire \in Seq(Wires) /\ items \in Seq(Items) /\ Writes(rk, c, e, r.wire, items) /\ WriterShape(e)
    <2>1. /\ w.kind = "Fixed" /\ w.n = m /\ n <= m /\ e.cycle.writer = Fixed(m - n) /\ m # 0 /\ m - n \in Nat
          /\ w # Fixed(0) /\ w # Chunked
      <3>1. w.kind = "Fixed" /\ w.n = m /\ w # Chunked
        BY <1>10 DEF Fixed, Chunked
      <3>2. n <= m /\ e.cycle.writer = Fixed(m - n)
        BY <1>3, <3>1
      <3>3. m # 0 /\ m - n \in Nat
        BY <3>2
      <3> QED BY <1>10, <3>1, <3>2, <3>3 DEF Fixed
    <2>2. r.wire = Body(n)
      BY <1>3, <2>1 DEF DataWire
    <2>3. Leaves(c, "Fixed", m)
      BY <1>1, <1>4, <2>1, BodyLeaves
    <2>4. WriterShape(e)
      BY <2>1 DEF WriterShape, IsFraming
    <2>5. CASE n = m
      <3>1. e.cycle.writer = Fixed(0)
        BY <2>1, <2>5
      <3>2. EndsWith(c, e) = <<EndItem>>
        BY <1>1, <2>1, <3>1 DEF EndsWith
      <3>3. items = Bytes(n) \o <<EndItem>>
        BY <1>2, <3>2
      <3>4. Lead(rk, "Fixed", m, Body(n), Bytes(n) \o <<EndItem>>, "Head", 0)
        BY <2>5, LeadBytes
      <3>5. Reaches(e, "Head", 0)
        BY <1>4, <3>1, BodyLeaves
      <3> QED BY <1>5, <2>2, <2>3, <2>4, <3>3, <3>4, <3>5, LeadWrites
    <2>6. CASE n # m
      <3>1. m > n /\ m - n # 0
        BY <2>1, <2>6
      <3>2. e.cycle.writer # Fixed(0) /\ e.cycle.writer # Chunked
            /\ e.cycle.writer.kind = "Fixed" /\ e.cycle.writer.n = m - n
        BY <2>1, <3>1 DEF Fixed, Chunked
      <3>3. EndsWith(c, e) = <<>>
        BY <3>2 DEF EndsWith
      <3>4. items = Bytes(n)
        BY <1>2, <1>5, <3>3
      <3>5. Lead(rk, "Fixed", m, Body(n), Bytes(n), "Fixed", m - n)
        BY <3>1, LeadBytes
      <3>6. Reaches(e, "Fixed", m - n)
        BY <1>4, <3>2, BodyLeaves
      <3> QED BY <1>5, <2>2, <2>3, <2>4, <3>4, <3>5, <3>6, LeadWrites
    <2> QED BY <2>5, <2>6
  <1> QED BY <1>2, <1>6, <1>8, <1>9, <1>10

(* Ending a message.                                                        *)
LEMMA EndWrites ==
    ASSUME NEW rk, NEW X, NEW c \in Connections(X), Coherent(c), WriterShape(c), NEW Y, NEW trailers \in Seq(Y),
           Len(trailers) < MaxHead, NEW r, r = end_of_message(c, trailers), r.ok,
           NEW items, items = (IF c.cycle.writer = Fixed(0) THEN <<>> ELSE <<EndItem>>) \o EndsWith(c, r.c)
    PROVE  /\ r.wire \in Seq(Wires) /\ items \in Seq(Items)
           /\ Writes(rk, c, r.c, r.wire, items)
           /\ WriterShape(r.c) /\ EndsWith(c, r.c) = <<>>
  <1>1. PICK w : w = c.cycle.writer
    OBVIOUS
  <1>2. PICK e : e = r.c
    OBVIOUS
  <1>3. /\ w # NoFraming /\ (w.kind = "Fixed" => w.n = 0)
        /\ LocalAccepts(c, StateEvent("EndOfMessage"))
        /\ e.st = process_event(c.st, c.role, StateEvent("EndOfMessage"))
        /\ e.cycle.writer = NoFraming
        /\ r.wire = IF w = Chunked THEN last_chunk(trailers) ELSE <<>>
    BY <1>1, <1>2, EndOfMessageValue
  <1>4. /\ local_state(c) = "SendBody" /\ e.role = c.role /\ c.role \in Roles
        /\ local_state(e) \in {"Done", "MightSwitchProtocol", "SwitchedProtocol", "MustClose"}
        /\ e.role = "server" => e.st.server \in {"Done", "MustClose"} /\ local_state(e) = e.st.server
        /\ e.st.keep_alive = c.st.keep_alive /\ Lawful(e.st)
    <2>1. Lawful(c.st) /\ c.role \in Roles
      BY DEF Coherent, Connections
    <2>2. Moves(X, c, e)
      BY <1>2, EndOfMessageEffect DEF SendResult
    <2>3. e.role = c.role
      BY <2>2 DEF Moves, OnlyLocal
    <2> QED BY <1>3, <2>1, <2>3, EndEffect DEF LocalAccepts, local_state, state
  <1>5. Reaches(e, "Head", 0)
    BY <1>4, HeadLeaves
  <1>6. EndsWith(c, e) = <<>> /\ NoFraming # Fixed(0)
    BY <1>3 DEF EndsWith, NoFraming, Fixed, None
  <1>7. <<EndItem>> \in Seq(Items) /\ <<>> \in Seq(Items) /\ <<>> \in Seq(Wires)
        /\ <<EndItem>> \o <<>> = <<EndItem>> /\ <<>> \o <<>> = <<>>
    BY ItemKinds, EmptyJoins
  <1>8. items = IF w = Fixed(0) THEN <<>> ELSE <<EndItem>>
    BY <1>1, <1>2, <1>6, <1>7
  <1>9. WriterShape(e)
    BY <1>3 DEF WriterShape
  <1>10. Chunked # Fixed(0) /\ CloseDelimited # Fixed(0) /\ CloseDelimited # Chunked
         /\ CloseDelimited.kind = "CloseDelimited" /\ CloseDelimited.n = 0
    BY DEF Chunked, CloseDelimited, Fixed
  <1>11. w = Chunked \/ w = CloseDelimited \/ w = Fixed(0)
    <2>1. w = Chunked \/ w = CloseDelimited \/ (\E m \in Nat : w = Fixed(m))
      BY <1>1, <1>3 DEF WriterShape, IsFraming
    <2>2. \A m \in Nat : w = Fixed(m) => m = 0
      BY <1>3 DEF Fixed
    <2> QED BY <2>1, <2>2
  <1>12. CASE w = Fixed(0)
    <2>1. Leaves(c, "Head", 0)
      BY <1>1, <1>4, <1>12, BodyLeaves
    <2>2. r.wire = <<>> /\ items = <<>>
      BY <1>3, <1>8, <1>10, <1>12
    <2>3. Lead(rk, "Head", 0, <<>>, <<>>, "Head", 0)
      BY LeadNowhere
    <2> QED BY <1>2, <1>5, <1>6, <1>7, <1>9, <2>1, <2>2, <2>3, LeadWrites
  <1>13. CASE w = Chunked
    <2>1. Leaves(c, "ChunkSize", 0)
      BY <1>1, <1>4, <1>13, BodyLeaves
    <2>2. r.wire = last_chunk(trailers) /\ items = <<EndItem>>
      BY <1>3, <1>8, <1>10, <1>13
    <2>3. r.wire \in Seq(Wires) /\ Lead(rk, "ChunkSize", 0, r.wire, <<EndItem>>, "Head", 0)
      BY <2>2, LastChunkLeads
    <2> QED BY <1>2, <1>5, <1>6, <1>7, <1>9, <2>1, <2>2, <2>3, LeadWrites
  <1>14. CASE w = CloseDelimited
    <2>1. Leaves(c, "CloseDelimited", 0)
      BY <1>1, <1>4, <1>10, <1>14, BodyLeaves
    <2>2. r.wire = <<>> /\ items = <<EndItem>>
      BY <1>3, <1>8, <1>10, <1>14
    <2>3. c.role = "server" /\ ~c.st.keep_alive
      <3>1. IsFraming(CloseDelimited, c.role = "server")
        BY <1>1, <1>3, <1>14 DEF WriterShape
      <3>2. \A m : CloseDelimited # Fixed(m)
        BY DEF CloseDelimited, Fixed
      <3>3. c.role = "server"
        BY <1>10, <3>1, <3>2 DEF IsFraming
      <3> QED BY <1>1, <1>10, <1>14, <3>3 DEF Coherent, ReaderShape
    <2>4. e.st.server = "MustClose"
      BY <1>4, <2>3 DEF Lawful, Stable, Closing
    <2>5. ASSUME NEW d \in Flows, Runs(d, rk), Finishing(d, c), d.read <= d.wrote
          PROVE  \E d2 : /\ Grown(d, d2, <<>>, <<EndItem>>) /\ Runs(d2, rk) /\ Finishing(d2, e)
                         /\ d2.read <= d2.wrote
      <3>1. d.place[d.wrote + 1] = Place("CloseDelimited", 0, d.said)
        BY <2>1, <2>5 DEF Leaves, At
      <3>2. PICK way : way = [i \in 1..0 |-> Place("Head", 0, 0)]
        OBVIOUS
      <3>3. PICK g \in Seq(Wires) : g = <<>>
        BY <1>7
      <3>4. PICK t \in Seq(Items) : t = <<EndItem>>
        BY <1>7
      <3>5. Len(g) = 0 /\ Len(t) = 1 /\ t[1] = EndItem
        BY <3>3, <3>4, EmptySeq
      <3>6. way \in [1..Len(g) -> Places]
        BY <3>2, <3>5
      <3>7. PICK d2 : d2 = GrowTo(d, g, t, way)
        OBVIOUS
      <3>8. Grown(d, d2, g, t) /\ \A i \in 1..Len(g) : d2.place[d.wrote + 1 + i] = way[i]
        BY <3>6, <3>7, GrowToGrows
      <3>9. Leads(d, d2, rk, g, t, way)
        BY <3>5, <3>6 DEF Leads
      <3>10. Runs(d2, rk) /\ d2.read <= d2.wrote /\ d2.place[d2.wrote + 1] = d.place[d.wrote + 1]
        <4>1. /\ Runs(d2, rk) /\ d2.read <= d2.wrote
              /\ d2.place[d2.wrote + 1] = IF Len(g) = 0 THEN d.place[d.wrote + 1] ELSE way[Len(g)]
          <5>1. Grown(d, d2, g, t)
            BY <3>8
          <5>2. \A i \in 1..Len(g) : d2.place[d.wrote + 1 + i] = way[i]
            BY <3>8
          <5> QED BY <2>5, <3>9, <5>1, <5>2, GrowToRuns
        <4> QED BY <3>5, <4>1
      <3>11. d.said \in Nat /\ d2.said = d.said + 1 /\ d2.item[d.said + 1] = EndItem
        BY <3>5, <3>8 DEF Grown, Flows
      <3>12. Tells(d2, d2.said, EndItem) /\ d.said = d2.said - 1
        <4>1. \A i \in Nat : i + 1 \in 1..(i + 1) /\ i = (i + 1) - 1
          OBVIOUS
        <4> QED BY <3>11, <4>1 DEF Tells
      <3>13. d2.place[d2.wrote + 1] = Place("CloseDelimited", 0, d2.said - 1)
        BY <3>1, <3>10, <3>12
      <3>14. Finishing(d2, e)
        BY <1>4, <2>3, <2>4, <3>12, <3>13 DEF Finishing
      <3> QED BY <3>3, <3>4, <3>8, <3>10, <3>14
    <2>6. Writes(rk, c, e, r.wire, items)
      BY <2>2, <2>5 DEF Writes
    <2> QED BY <1>2, <1>6, <1>7, <1>9, <2>2, <2>6
  <1> QED BY <1>11, <1>12, <1>13, <1>14

(* A head that opens a body, or one without content.                        *)
LEMMA HeadWrites ==
    ASSUME NEW rk, NEW c, NEW e, NEW h \in MessageHeads, Leaves(c, "Head", 0), c.cycle.writer = NoFraming,
           NEW f, f = Content(h, rk), NEW response \in BOOLEAN, IsFraming(f, response),
           local_state(e) = "SendBody", e.cycle.writer = f,
           NEW wires, wires = <<HeadOf(h)>>, NEW items, items = <<HeadItem(h)>> \o EndsWith(c, e)
    PROVE  /\ wires \in Seq(Wires) /\ items \in Seq(Items)
           /\ Writes(rk, c, e, wires, items)
  <1>8. NoFraming # Fixed(0)
    BY DEF NoFraming, Fixed, None
  <1>9. wires \in Seq(Wires)
    BY SymbolKinds
  <1>10. /\ <<HeadItem(h)>> \in Seq(Items) /\ <<HeadItem(h), EndItem>> \in Seq(Items)
         /\ <<HeadItem(h)>> \o <<>> = <<HeadItem(h)>>
    BY ItemKinds, EmptyJoins
  <1>11. CASE f = Fixed(0)
    <2>1. EndsWith(c, e) = <<EndItem>>
      BY <1>8, <1>11 DEF EndsWith
    <2>2. items = <<HeadItem(h), EndItem>>
      BY <2>1, PairJoins
    <2>3. Lead(rk, "Head", 0, wires, items, "Head", 0)
      BY <1>11, <2>2, LeadHead
    <2>4. Reaches(e, "Head", 0)
      BY <1>11, BodyLeaves
    <2> QED BY <1>9, <1>10, <2>2, <2>3, <2>4, LeadWrites
  <1>12. CASE f # Fixed(0)
    <2>1. items = <<HeadItem(h)>>
      BY <1>10, <1>12 DEF EndsWith
    <2>2. CASE f = Chunked
      <3>1. Lead(rk, "Head", 0, wires, items, "ChunkSize", 0)
        BY <2>1, <2>2, LeadHead
      <3>2. Reaches(e, "ChunkSize", 0)
        BY <2>2, BodyLeaves
      <3> QED BY <1>9, <1>10, <2>1, <3>1, <3>2, LeadWrites
    <2>3. CASE f # Chunked
      <3>1. f.kind \in {"Fixed", "CloseDelimited"} /\ f.n \in Nat
        BY <2>3 DEF IsFraming, Fixed, CloseDelimited
      <3>2. Lead(rk, "Head", 0, wires, items, f.kind, f.n)
        BY <1>12, <2>1, <3>1, LeadHead
      <3>3. Reaches(e, f.kind, f.n)
        BY <1>12, <2>3, BodyLeaves
      <3> QED BY <1>9, <1>10, <2>1, <3>2, <3>3, LeadWrites
    <2> QED BY <2>2, <2>3
  <1> QED BY <1>11, <1>12

(* The head of a request.                                                   *)
LEMMA RequestWrites ==
    ASSUME NEW rk, NEW X, NEW c \in Connections(X), Coherent(c), NEW h \in MessageHeads, h.kind = "request",
           NEW r, r = send_request(c, h), r.ok, NEW items, items = <<HeadItem(h)>> \o EndsWith(c, r.c)
    PROVE  /\ r.wire \in Seq(Wires) /\ items \in Seq(Items)
           /\ Writes(rk, c, r.c, r.wire, items)
           /\ WriterShape(r.c)
  <1>1. PICK f : f = RequestFraming(h)
    OBVIOUS
  <1>2. PICK e : e = r.c
    OBVIOUS
  <1>3. /\ c.role = "client" /\ c.st.client = "Idle" /\ f # FramingError
        /\ e.st.client = "SendBody" /\ e.cycle.writer = f /\ r.wire = <<HeadOf(h)>>
    <2>1. /\ c.role = "client" /\ c.st.client = "Idle" /\ Requestable(h, f) /\ Requested(c, h, f, e)
          /\ r.wire = <<HeadOf(h)>>
      BY <1>1, <1>2, SendRequestValue
    <2> QED BY <2>1 DEF Requestable, Requested
  <1>4. e.role = "client" /\ local_state(c) = "Idle" /\ local_state(e) = "SendBody"
    <2>1. Moves(X, c, e)
      BY <1>2, SendRequestEffect DEF SendResult
    <2> QED BY <1>3, <2>1 DEF Moves, OnlyLocal, local_state, state
  <1>5. IsFraming(f, FALSE) /\ WriterShape(e)
    <2>1. IsFraming(f, FALSE)
      BY <1>1, <1>3, FramingValue DEF RequestFraming
    <2> QED BY <1>3, <1>4, <2>1 DEF WriterShape, IsFraming
  <1>6. f = Content(h, rk)
    BY <1>1 DEF Content, RequestFraming
  <1>7. Leaves(c, "Head", 0)
    BY <1>3, <1>4, HeadLeaves
  <1>8. c.cycle.writer = NoFraming /\ NoFraming # Fixed(0)
    BY <1>4 DEF Coherent, WriterMatches, NoFraming, Fixed, None
  <1>9. items = <<HeadItem(h)>> \o EndsWith(c, e)
    BY <1>2
  <1>10. IsFraming(f, FALSE) /\ FALSE \in BOOLEAN
    BY <1>5
  <1>11. r.wire \in Seq(Wires) /\ items \in Seq(Items) /\ Writes(rk, c, e, r.wire, items)
    BY <1>3, <1>4, <1>6, <1>7, <1>8, <1>9, <1>10, HeadWrites
  <1> QED BY <1>2, <1>5, <1>11

(* What the client reads after a final head is what the server decided to   *)
(* write: nothing, a tunnel or the framing of the head.                     *)
LEMMA ContentOf ==
    ASSUME NEW c, NEW g \in MessageHeads, g.kind = "response", ~is_informational(g.status),
           NEW rk, rk = c.cycle.request_kind
    PROVE  /\ opens_tunnel(c, g.status) => Content(g, rk) = Switched
           /\ ~opens_tunnel(c, g.status) =>
                 Content(g, rk) = IF response_has_no_body(c, g.status) THEN Fixed(0) ELSE ResponseFraming(g)
           /\ ~opens_tunnel(c, g.status) => (response_has_no_body(c, g.status) <=> Bodyless(g.status, rk))
  <1>1. g.status # 101 /\ g.kind # "request"
    BY DEF is_informational
  <1>2. Content(g, rk) = IF rk = "CONNECT" /\ is_success(g.status) THEN Switched
                         ELSE IF Bodyless(g.status, rk) THEN Fixed(0) ELSE ResponseFraming(g)
    BY <1>1 DEF Content, ResponseFraming
  <1>3. ~opens_tunnel(c, g.status) => (response_has_no_body(c, g.status) <=> Bodyless(g.status, rk))
    BY DEF response_has_no_body, Bodyless, opens_tunnel
  <1> QED BY <1>2, <1>3 DEF opens_tunnel

(* Heads that agree on their fields are told as the same item.              *)
LEMMA SameItem ==
    ASSUME NEW h, NEW g, SameFields(h, g)
    PROVE  HeadItem(g) = HeadItem(h)
  BY DEF SameFields, HeadItem

(* A head after which the protocol is switched.                             *)
LEMMA SwitchedLeads ==
    ASSUME NEW rk, NEW h \in MessageHeads, Content(h, rk) = Switched
    PROVE  Lead(rk, "Head", 0, <<HeadOf(h)>>, <<HeadItem(h)>>, "Switched", 0)
  <1>1. PICK f : f = Content(h, rk)
    OBVIOUS
  <1>2. f.kind = "Switched" /\ f.n = 0 /\ f # Fixed(0) /\ f.n \in Nat
    BY <1>1 DEF Switched, Fixed
  <1> QED BY <1>1, <1>2, LeadHead

(* A head is one symbol and one item.                                       *)
LEMMA OneEach ==
    ASSUME NEW h \in MessageHeads
    PROVE  <<HeadOf(h)>> \in Seq(Wires) /\ <<HeadItem(h)>> \in Seq(Items)
  BY ItemKinds, SymbolKinds

(* The head of a final response, and the end that an empty body implies.    *)
LEMMA ResponseWrites ==
    ASSUME NEW X, NEW c \in Connections(X), Coherent(c), NEW h \in MessageHeads, h.kind = "response",
           c.st.server = "SendResponse", NEW rk, rk = c.cycle.request_kind,
           NEW r, r = send_response(c, h), r.ok, NEW items, items = <<HeadItem(h)>> \o EndsWith(c, r.c)
    PROVE  /\ r.wire \in Seq(Wires) /\ items \in Seq(Items)
           /\ Writes(rk, c, r.c, r.wire, items)
           /\ WriterShape(r.c)
  <1>1. PICK g \in MessageHeads : SameFields(h, g) /\ r.wire = <<HeadOf(g)>> /\ Responded(c, g, r.c)
    BY SendResponseValue
  <1>2. c.role = "server"
    BY SendResponseValue
  <1>3. PICK e : e = r.c
    OBVIOUS
  <1>4. e.role = "server"
    BY <1>2, <1>3, SendResponseEffect DEF SendResult, Moves, OnlyLocal
  <1>5. /\ local_state(c) = "SendResponse" /\ local_state(e) = e.st.server
    BY <1>2, <1>4 DEF local_state, state
  <1>6. Leaves(c, "Head", 0)
    BY <1>5, HeadLeaves
  <1>7. c.cycle.writer = NoFraming
    BY <1>5 DEF Coherent, WriterMatches
  <1>8. /\ g.kind = "response" /\ ~is_informational(g.status) /\ HeadItem(g) = HeadItem(h)
    BY <1>1, SameItem DEF Responded, SameFields
  <1>9. CASE opens_tunnel(c, g.status)
    <2>1. Content(g, rk) = Switched
      BY <1>8, <1>9, ContentOf
    <2>2. e.st.server = "SwitchedProtocol" /\ e.cycle.writer = NoFraming
      BY <1>1, <1>3, <1>9 DEF Responded
    <2>3. items = <<HeadItem(g)>>
      <3>1. EndsWith(c, e) = <<>>
        BY <2>2 DEF EndsWith, NoFraming, Fixed, None
      <3> QED BY <1>3, <1>8, <3>1, ItemKinds, EmptyJoins
    <2>4. Lead(rk, "Head", 0, r.wire, items, "Switched", 0)
      BY <1>1, <2>1, <2>3, SwitchedLeads
    <2>5. Reaches(e, "Switched", 0)
      BY <1>4, <1>5, <2>2, SwitchedReaches
    <2>6. Writes(rk, c, e, r.wire, items)
      BY <1>6, <2>4, <2>5, LeadWrites
    <2>7. r.wire \in Seq(Wires) /\ items \in Seq(Items)
      BY <1>1, <2>3, OneEach
    <2>8. WriterShape(e)
      BY <2>2 DEF WriterShape
    <2> QED BY <1>3, <2>6, <2>7, <2>8
  <1>10. CASE ~opens_tunnel(c, g.status)
    <2>1. /\ e.st.server = "SendBody"
          /\ e.cycle.writer = IF response_has_no_body(c, g.status) THEN Fixed(0) ELSE ResponseFraming(g)
          /\ IsFraming(e.cycle.writer, TRUE)
      BY <1>1, <1>3, <1>10 DEF Responded
    <2>2. PICK f : f = e.cycle.writer
      OBVIOUS
    <2>3. f = Content(g, rk)
      BY <1>8, <1>10, <2>1, <2>2, ContentOf
    <2>4. IsFraming(f, TRUE) /\ TRUE \in BOOLEAN
      BY <2>1, <2>2
    <2>5. items = <<HeadItem(g)>> \o EndsWith(c, e)
      BY <1>3, <1>8
    <2>6. WriterShape(e)
      BY <1>4, <2>1 DEF WriterShape, IsFraming
    <2> QED BY <1>1, <1>3, <1>5, <1>6, <1>7, <2>1, <2>2, <2>3, <2>4, <2>5, <2>6, HeadWrites
  <1> QED BY <1>9, <1>10

(* The head of an informational response.                                   *)
LEMMA InformationalWrites ==
    ASSUME NEW X, NEW c \in Connections(X), Coherent(c), NEW h \in MessageHeads, h.kind = "response", NEW rk,
           NEW r, r = send_informational_response(c, h), r.ok,
           NEW items, items = <<HeadItem(h)>> \o EndsWith(c, r.c)
    PROVE  /\ r.wire \in Seq(Wires) /\ items \in Seq(Items)
           /\ Writes(rk, c, r.c, r.wire, items)
           /\ WriterShape(r.c)
  <1>1. PICK e : e = r.c
    OBVIOUS
  <1>2. /\ c.role = "server" /\ c.st.server = "SendResponse" /\ r.wire = <<HeadOf(h)>> /\ Informed(c, h, e)
    BY <1>1, SendInformationalValue
  <1>3. e.role = "server"
    BY <1>1, <1>2, SendInformationalEffect DEF SendResult, Moves, OnlyLocal
  <1>4. /\ local_state(c) = "SendResponse" /\ local_state(e) = e.st.server
    BY <1>2, <1>3 DEF local_state, state
  <1>5. Leaves(c, "Head", 0)
    BY <1>4, HeadLeaves
  <1>6. c.cycle.writer = NoFraming /\ e.cycle.writer = NoFraming
    BY <1>2, <1>4 DEF Coherent, WriterMatches, Informed
  <1>7. items = <<HeadItem(h)>>
    <2>1. EndsWith(c, e) = <<>>
      BY <1>6 DEF EndsWith, NoFraming, Fixed, None
    <2> QED BY <1>1, <2>1, ItemKinds, EmptyJoins
  <1>8. r.wire \in Seq(Wires) /\ items \in Seq(Items) /\ WriterShape(e)
    <2>1. r.wire \in Seq(Wires) /\ items \in Seq(Items)
      BY <1>2, <1>7, OneEach
    <2> QED BY <1>6, <2>1 DEF WriterShape
  <1>9. CASE h.status = 101
    <2>1. Content(h, rk) = Switched
      BY <1>9 DEF Content
    <2>2. Lead(rk, "Head", 0, r.wire, items, "Switched", 0)
      BY <1>2, <1>7, <2>1, SwitchedLeads
    <2>3. Reaches(e, "Switched", 0)
      BY <1>2, <1>3, <1>4, <1>9, SwitchedReaches DEF Informed
    <2> QED BY <1>1, <1>5, <1>8, <2>2, <2>3, LeadWrites
  <1>10. CASE h.status # 101
    <2>1. Content(h, rk) = NoFraming
      BY <1>2, <1>10 DEF Content, Informed
    <2>2. Lead(rk, "Head", 0, r.wire, items, "Head", 0)
      BY <1>2, <1>7, <2>1, LeadHead
    <2>3. local_state(e) = "SendResponse"
      BY <1>2, <1>4, <1>10 DEF Informed
    <2>4. Reaches(e, "Head", 0)
      BY <2>3, HeadLeaves
    <2> QED BY <1>1, <1>5, <1>8, <2>2, <2>4, LeadWrites
  <1> QED BY <1>9, <1>10

----------------------------------------------------------------------------
(* A complete message: a head, a body and an end in one call.               *)

(* The items of a complete message's body: none when it is empty.           *)
DataItems(e, d, n) == IF n # 0 THEN Bytes(n) \o EndsWith(e, d) ELSE <<>>

(* The items of its end, when the body did not imply it.                    *)
EndItems(d, e) == (IF d.cycle.writer = Fixed(0) THEN <<>> ELSE <<EndItem>>) \o EndsWith(d, e)

(* All the items of a complete message.                                     *)
WholeMessage(h, n) == <<HeadItem(h)>> \o Append(Bytes(n), EndItem)

(* The same items, part by part.                                            *)
MessageParts(c, e, h, n, data, end) ==
    ((<<HeadItem(h)>> \o EndsWith(c, e)) \o DataItems(e, data.c, n)) \o EndItems(data.c, end.c)

(* The items of the parts are the items of the message.                     *)
LEMMA CompleteItems ==
    ASSUME NEW c, c.cycle.writer = NoFraming, NEW e \in Connections(Wires), Coherent(e), WriterShape(e),
           NEW n, NEW data, NEW end, RestSent(e, n, data, end), NEW h \in MessageHeads
    PROVE  MessageParts(c, e, h, n, data, end) = WholeMessage(h, n) /\ EndsWith(c, end.c) = <<>>
  <1> SUFFICES ASSUME n \in Nat, data = DataPart(e, n), data.ok, end = end_of_message(data.c, <<>>), end.ok
               PROVE  MessageParts(c, e, h, n, data, end) = WholeMessage(h, n) /\ EndsWith(c, end.c) = <<>>
    BY DEF RestSent, EndPart
  <1>1. PICK w : w = e.cycle.writer
    OBVIOUS
  <1>2. PICK d : d = data.c
    OBVIOUS
  <1>3. /\ d \in Connections(Wires) /\ Coherent(d)
        /\ n # 0 => w # NoFraming /\ (w.kind = "Fixed" => n <= w.n)
        /\ d.cycle.writer = IF n # 0 /\ w.kind = "Fixed" THEN Fixed(w.n - n) ELSE w
    <2>1. CASE n = 0
      BY <1>1, <1>2, <2>1 DEF DataPart, Sent
    <2>2. CASE n # 0
      <3>1. data = send_data(e, n)
        BY <2>2 DEF DataPart
      <3>2. d \in Connections(Wires) /\ Coherent(d)
        BY <1>2, <3>1, SendDataEffect DEF SendResult, Moves
      <3>3. /\ w # NoFraming /\ (w.kind = "Fixed" => n <= w.n)
            /\ d.cycle.writer = IF w.kind = "Fixed" THEN Fixed(w.n - n) ELSE w
        BY <1>1, <1>2, <3>1, SendDataValue
      <3> QED BY <2>2, <3>2, <3>3
    <2> QED BY <2>1, <2>2
  <1>4. /\ d.cycle.writer # NoFraming /\ (d.cycle.writer.kind = "Fixed" => d.cycle.writer.n = 0)
        /\ end.c.cycle.writer = NoFraming
    BY <1>2, <1>3, EndOfMessageValue
  <1>5. NoFraming # Fixed(0) /\ Chunked # Fixed(0) /\ CloseDelimited # Fixed(0)
    BY DEF NoFraming, Fixed, None, Chunked, CloseDelimited
  <1>6. EndsWith(c, end.c) = <<>> /\ EndsWith(d, end.c) = <<>>
    BY <1>4, <1>5 DEF EndsWith
  <1>7. PICK one : one = <<EndItem>>
    OBVIOUS
  <1>8. PICK b : b = Bytes(n)
    OBVIOUS
  <1>9. PICK t : t = <<HeadItem(h)>>
    OBVIOUS
  <1>10. one \in Seq(Items) /\ b \in Seq(Items) /\ t \in Seq(Items) /\ (n = 0 => b = <<>>)
    <2>1. b \in Seq(Items) /\ Len(b) = n
      BY <1>8, BytesTyped
    <2> QED BY <1>7, <1>9, <2>1, ItemKinds, OneEach
  <1>11. Append(Bytes(n), EndItem) = b \o one
    BY <1>7, <1>8, <1>10, ItemKinds, AppendIsConcat
  <1>12. /\ <<>> \o one = one /\ one \o <<>> = one /\ t \o <<>> = t /\ b \o <<>> = b /\ <<>> \o <<>> = <<>>
         /\ (b \o one) \o <<>> = b \o one /\ (t \o one) \o <<>> = t \o one
         /\ (t \o b) \o one = t \o (b \o one)
         /\ t \o (b \o one) \in Seq(Items) /\ (t \o (b \o one)) \o <<>> = t \o (b \o one)
    <2>1. b \o one \in Seq(Items) /\ t \o one \in Seq(Items) /\ t \o (b \o one) \in Seq(Items)
      BY <1>10, ConcatProperties
    <2>2. (t \o b) \o one = t \o (b \o one)
      BY <1>10, ConcatAssociative
    <2>3. <<>> \in Seq(Items)
      OBVIOUS
    <2> QED BY <1>10, <2>1, <2>2, <2>3, EmptyJoins
  <1>13. PICK x : x = EndsWith(c, e)
    OBVIOUS
  <1>14. PICK y : y = DataItems(e, d, n)
    OBVIOUS
  <1>15. PICK z : z = EndItems(d, end.c)
    OBVIOUS
  <1>16. ((t \o x) \o y) \o z = t \o (b \o one)
    <2>1. CASE w = Fixed(0)
      <3>1. w.kind = "Fixed" /\ w.n = 0
        BY <2>1 DEF Fixed
      <3>2. n = 0
        BY <1>3, <3>1
      <3>3. x = one /\ y = <<>> /\ z = <<>> /\ b = <<>>
        BY <1>1, <1>3, <1>5, <1>6, <1>7, <1>10, <1>12, <1>13, <1>14, <1>15, <2>1, <3>2
           DEF EndsWith, DataItems, EndItems
      <3> QED BY <1>12, <3>3
    <2>2. CASE w.kind = "Fixed" /\ w # Fixed(0)
      <3>1. PICK m \in Nat : w = Fixed(m)
        BY <1>1, <1>5, <2>2 DEF WriterShape, IsFraming, NoFraming, None, Chunked, CloseDelimited
      <3>2. w.n = m /\ m # 0
        BY <2>2, <3>1 DEF Fixed
      <3>3. n # 0
        BY <1>3, <1>4, <2>2, <3>2
      <3>4. d.cycle.writer = Fixed(m - n) /\ m - n = 0
        <4>1. d.cycle.writer = Fixed(m - n)
          BY <1>3, <2>2, <3>2, <3>3
        <4> QED BY <1>4, <4>1 DEF Fixed
      <3>5. d.cycle.writer = Fixed(0)
        BY <3>4
      <3>6. EndsWith(e, d) = one
        BY <1>1, <1>7, <2>2, <3>5 DEF EndsWith
      <3>7. x = <<>> /\ y = b \o one /\ z = <<>>
        BY <1>1, <1>6, <1>8, <1>12, <1>13, <1>14, <1>15, <2>2, <3>3, <3>5, <3>6 DEF EndsWith, DataItems, EndItems
      <3> QED BY <1>12, <3>7
    <2>3. CASE w.kind # "Fixed"
      <3>1. d.cycle.writer = w /\ w # Fixed(0)
        BY <1>3, <2>3 DEF Fixed
      <3>2. x = <<>> /\ EndsWith(e, d) = <<>>
        BY <1>1, <1>13, <3>1 DEF EndsWith
      <3>3. y = b
        BY <1>8, <1>10, <1>12, <1>14, <3>2 DEF DataItems
      <3>4. z = one
        BY <1>6, <1>7, <1>12, <1>15, <3>1 DEF EndItems
      <3> QED BY <1>12, <3>2, <3>3, <3>4
    <2> QED BY <2>1, <2>2, <2>3
  <1> QED BY <1>2, <1>6, <1>9, <1>11, <1>13, <1>14, <1>15, <1>16 DEF MessageParts, WholeMessage

----------------------------------------------------------------------------
(* Reading along a flow: bodies of every framing.                           *)

(* The first of a run of steps that fails has a step before it that does    *)
(* not: induction up to a bound.                                            *)
LEMMA FirstFails ==
    ASSUME NEW T, NEW m \in Nat, T \subseteq 1..m, T # {}
    PROVE  \E i \in T : /\ i \in 1..m
                        /\ i = 1 \/ (i - 1 \in 1..m /\ i - 1 \notin T)
  <1>1. T \subseteq Nat
    OBVIOUS
  <1>2. PICK x \in T : \A y \in T : x <= y
    BY <1>1, LeastExists
  <1> QED BY <1>2

(* The step of one symbol that a flow has.                                  *)
LEMMA StepOf ==
    ASSUME NEW d \in Flows, NEW rk, Runs(d, rk), NEW j \in Nat, d.read < j, j <= d.wrote
    PROVE  Passes(d, rk, d.place[j], d.sym[j], d.place[j + 1])
  <1>1. j \in (d.read + 1)..d.wrote
    BY DEF Flows
  <1> QED BY <1>1 DEF Runs

(* The count symbols after position o are symbols to be read.               *)
Within(d, o, count) == o \in Nat /\ d.read <= o /\ o + count <= d.wrote

(* A byte of a sized payload.                                               *)
LEMMA ByteStep ==
    ASSUME NEW d, NEW rk, NEW kind \in {"Fixed", "ChunkData"}, NEW m \in Nat, NEW a \in Nat, m > 0,
           NEW x, NEW z, Passes(d, rk, Place(kind, m, a), x, z)
    PROVE  /\ Tells(d, a + 1, ByteItem)
           /\ m > 1 => z = Place(kind, m - 1, a + 1)
           /\ m = 1 /\ kind = "Fixed" => z = Place("Head", 0, a + 2) /\ Tells(d, a + 2, EndItem)
           /\ m = 1 /\ kind = "ChunkData" => z = Place("ChunkDataEnd", 0, a + 1)
  <1>1. PICK q : q = Place(kind, m, a)
    OBVIOUS
  <1>2. q.kind = kind /\ q.n = m /\ q.at = a
    BY <1>1 DEF Place
  <1>3. ~PassesHead(d, rk, q, x, z) /\ ~PassesLine(d, q, x, z)
    BY <1>2 DEF PassesHead, PassesLine
  <1>4. PassesByte(d, q, x, z)
    BY <1>1, <1>3 DEF Passes
  <1> QED BY <1>2, <1>4 DEF PassesByte

(* Of a payload of m bytes at o, with n items told, count bytes are read.   *)
Paid(d, kind, m, n, o, count) ==
    /\ \A i \in 1..count : Tells(d, n + i, ByteItem)
    /\ count < m => d.place[o + count + 1] = Place(kind, m - count, n + count)
    /\ count = m /\ kind = "Fixed" =>
          d.place[o + count + 1] = Place("Head", 0, n + count + 1) /\ Tells(d, n + count + 1, EndItem)
    /\ count = m /\ kind = "ChunkData" => d.place[o + count + 1] = Place("ChunkDataEnd", 0, n + count)

(* The bytes of a sized payload, as far as they have come.                  *)
LEMMA PayloadRun ==
    ASSUME NEW d \in Flows, NEW rk, Runs(d, rk), NEW kind \in {"Fixed", "ChunkData"},
           NEW m \in Nat, m > 0, NEW n \in Nat, NEW o, NEW count \in 1..m, Within(d, o, count),
           d.place[o + 1] = Place(kind, m, n)
    PROVE  Paid(d, kind, m, n, o, count)
  <1> DEFINE Good(i) == /\ Tells(d, n + i, ByteItem)
                        /\ i < m => d.place[o + i + 1] = Place(kind, m - i, n + i)
                        /\ i = m /\ kind = "Fixed" =>
                             d.place[o + i + 1] = Place("Head", 0, n + i + 1) /\ Tells(d, n + i + 1, EndItem)
                        /\ i = m /\ kind = "ChunkData" => d.place[o + i + 1] = Place("ChunkDataEnd", 0, n + i)
             T == {i \in 1..count : ~Good(i)}
  <1>0. d.read \in Nat /\ d.wrote \in Nat /\ o \in Nat /\ d.read <= o /\ o + count <= d.wrote
    BY DEF Flows, Within
  <1>1. ASSUME NEW i \in 1..count, d.place[o + i] = Place(kind, m - (i - 1), n + (i - 1)) PROVE Good(i)
    <2>1. o + i \in Nat /\ d.read < o + i /\ o + i <= d.wrote
      BY <1>0
    <2>2. Passes(d, rk, d.place[o + i], d.sym[o + i], d.place[(o + i) + 1])
      BY <2>1, StepOf
    <2> DEFINE m2 == m - (i - 1)
               a == n + (i - 1)
    <2>3. m2 \in Nat /\ a \in Nat /\ m2 > 0 /\ a + 1 = n + i /\ a + 2 = n + i + 1
          /\ (i < m => m2 > 1) /\ (i = m => m2 = 1) /\ m2 - 1 = m - i /\ (o + i) + 1 = o + i + 1
      BY <1>0
    <2>4. Passes(d, rk, Place(kind, m2, a), d.sym[o + i], d.place[(o + i) + 1])
      BY <1>1, <2>2
    <2> HIDE DEF m2, a
    <2>5. /\ Tells(d, a + 1, ByteItem)
          /\ m2 > 1 => d.place[(o + i) + 1] = Place(kind, m2 - 1, a + 1)
          /\ m2 = 1 /\ kind = "Fixed" =>
                d.place[(o + i) + 1] = Place("Head", 0, a + 2) /\ Tells(d, a + 2, EndItem)
          /\ m2 = 1 /\ kind = "ChunkData" => d.place[(o + i) + 1] = Place("ChunkDataEnd", 0, a + 1)
      BY <2>3, <2>4, ByteStep
    <2> QED BY <2>3, <2>5
  <1>2. T = {}
    <2> SUFFICES ASSUME T # {} PROVE FALSE
      OBVIOUS
    <2>1. PICK i \in T : i \in 1..count /\ (i = 1 \/ (i - 1 \in 1..count /\ i - 1 \notin T))
      <3>1. count \in Nat /\ T \subseteq 1..count
        OBVIOUS
      <3> HIDE DEF T
      <3> QED BY <3>1, FirstFails
    <2>2. d.place[o + i] = Place(kind, m - (i - 1), n + (i - 1))
      <3>1. CASE i = 1
        <4>1. o + i = o + 1 /\ m - (i - 1) = m /\ n + (i - 1) = n
          BY <1>0, <3>1
        <4> QED BY <4>1
      <3>2. CASE i # 1
        <4>1. Good(i - 1)
          BY <2>1, <3>2
        <4>2. o + (i - 1) + 1 = o + i /\ i - 1 < m
          BY <1>0, <2>1
        <4> QED BY <4>1, <4>2
      <3> QED BY <3>1, <3>2
    <2> QED BY <1>1, <2>1, <2>2
  <1>3. \A i \in 1..count : Good(i)
    BY <1>2
  <1>4. Good(count)
    BY <1>3
  <1> QED BY <1>3, <1>4 DEF Paid

(* count symbols from a place on.                                           *)
Ahead(d, rk, o, count, kind, m, n) ==
    /\ d \in Flows /\ Runs(d, rk) /\ m \in Nat /\ n \in Nat /\ count \in Nat
    /\ Within(d, o, count) /\ d.place[o + 1] = Place(kind, m, n)

(* The bytes of a close-delimited body.                                     *)
LEMMA CloseRun ==
    ASSUME NEW d, NEW rk, NEW m, NEW n, NEW o, NEW count, Ahead(d, rk, o, count, "CloseDelimited", m, n)
    PROVE  /\ \A i \in 1..count : Tells(d, n + i, ByteItem)
           /\ d.place[o + count + 1] = Place("CloseDelimited", m, n + count)
  <1> USE DEF Ahead
  <1> DEFINE Good(i) == /\ Tells(d, n + i, ByteItem)
                        /\ d.place[o + i + 1] = Place("CloseDelimited", m, n + i)
             T == {i \in 1..count : ~Good(i)}
  <1>0. d.read \in Nat /\ d.wrote \in Nat /\ o \in Nat /\ d.read <= o /\ o + count <= d.wrote
    BY DEF Flows, Within
  <1>1. ASSUME NEW i \in 1..count, d.place[o + i] = Place("CloseDelimited", m, n + (i - 1)) PROVE Good(i)
    <2>1. o + i \in Nat /\ d.read < o + i /\ o + i <= d.wrote
      BY <1>0
    <2>2. Passes(d, rk, d.place[o + i], d.sym[o + i], d.place[(o + i) + 1])
      BY <2>1, StepOf
    <2>3. PICK q : q = Place("CloseDelimited", m, n + (i - 1))
      OBVIOUS
    <2>4. q.kind = "CloseDelimited" /\ q.n = m /\ q.at = n + (i - 1)
      BY <2>3 DEF Place
    <2>5. ~PassesHead(d, rk, q, d.sym[o + i], d.place[(o + i) + 1])
          /\ ~PassesLine(d, q, d.sym[o + i], d.place[(o + i) + 1])
      BY <2>4 DEF PassesHead, PassesLine
    <2>6. PassesByte(d, q, d.sym[o + i], d.place[(o + i) + 1])
      BY <1>1, <2>2, <2>3, <2>5 DEF Passes
    <2>7. /\ Tells(d, q.at + 1, ByteItem)
          /\ d.place[(o + i) + 1] = Place("CloseDelimited", q.n, q.at + 1)
      BY <2>4, <2>6 DEF PassesByte
    <2>8. q.at + 1 = n + i /\ (o + i) + 1 = o + i + 1
      BY <1>0, <2>4
    <2> QED BY <2>4, <2>7, <2>8
  <1>2. T = {}
    <2> SUFFICES ASSUME T # {} PROVE FALSE
      OBVIOUS
    <2>1. PICK i \in T : i \in 1..count /\ (i = 1 \/ (i - 1 \in 1..count /\ i - 1 \notin T))
      <3>1. T \subseteq 1..count
        OBVIOUS
      <3> HIDE DEF T
      <3> QED BY <3>1, FirstFails
    <2>2. d.place[o + i] = Place("CloseDelimited", m, n + (i - 1))
      <3>1. CASE i = 1
        <4>1. o + i = o + 1 /\ n + (i - 1) = n
          BY <1>0, <3>1
        <4> QED BY <4>1
      <3>2. CASE i # 1
        <4>1. Good(i - 1)
          BY <2>1, <3>2
        <4>2. o + (i - 1) + 1 = o + i
          BY <1>0, <2>1
        <4> QED BY <4>1, <4>2
      <3> QED BY <3>1, <3>2
    <2> QED BY <1>1, <2>1, <2>2
  <1>3. \A i \in 1..count : Good(i)
    BY <1>2
  <1>4. d.place[o + count + 1] = Place("CloseDelimited", m, n + count)
    <2>1. CASE count = 0
      <3>1. o + count + 1 = o + 1 /\ n + count = n
        BY <1>0, <2>1
      <3> QED BY <3>1
    <2>2. CASE count # 0
      BY <1>3, <2>2
    <2> QED BY <2>1, <2>2
  <1> QED BY <1>3, <1>4

(* Trailer fields: each may be followed by another or by the empty line,    *)
(* and there are fewer than MaxHead of them.                                *)
LEMMA TrailersRun ==
    ASSUME NEW d, NEW rk, NEW m, NEW n, NEW o, NEW count, Ahead(d, rk, o, count, "ChunkTrailers", m, n),
           \A i \in 1..count : d.sym[o + i].tok = "field"
    PROVE  d.place[o + count + 1] = Place("ChunkTrailers", m + count, n) /\ count < MaxHead
  <1> USE DEF Ahead
  <1> DEFINE Good(i) == i < MaxHead /\ d.place[o + i + 1] = Place("ChunkTrailers", m + i, n)
             T == {i \in 1..count : ~Good(i)}
  <1>0. /\ d.read \in Nat /\ d.wrote \in Nat /\ MaxHead \in Nat /\ MaxHead > 0
        /\ o \in Nat /\ d.read <= o /\ o + count <= d.wrote
    BY MaxHeadAssumption DEF Flows, Within
  <1>1. ASSUME NEW i \in 1..count, d.place[o + i] = Place("ChunkTrailers", m + (i - 1), n) PROVE Good(i)
    <2>1. o + i \in Nat /\ d.read < o + i /\ o + i <= d.wrote
      BY <1>0
    <2>2. Passes(d, rk, d.place[o + i], d.sym[o + i], d.place[(o + i) + 1])
      BY <2>1, StepOf
    <2>3. PICK q : q = Place("ChunkTrailers", m + (i - 1), n)
      OBVIOUS
    <2>4. q.kind = "ChunkTrailers" /\ q.n = m + (i - 1) /\ q.at = n
      BY <2>3 DEF Place
    <2>5. ~PassesHead(d, rk, q, d.sym[o + i], d.place[(o + i) + 1])
          /\ ~PassesByte(d, q, d.sym[o + i], d.place[(o + i) + 1])
      BY <2>4 DEF PassesHead, PassesByte
    <2>6. PassesLine(d, q, d.sym[o + i], d.place[(o + i) + 1])
      BY <1>1, <2>2, <2>3, <2>5 DEF Passes
    <2>7. q.n + 1 < MaxHead /\ d.place[(o + i) + 1] = Place("ChunkTrailers", q.n + 1, q.at)
      BY <2>4, <2>6 DEF PassesLine
    <2>8. q.n + 1 = m + i /\ (o + i) + 1 = o + i + 1
      BY <1>0, <2>4
    <2>9. i < MaxHead
      BY <1>0, <2>7, <2>8
    <2> QED BY <2>4, <2>7, <2>8, <2>9
  <1>2. T = {}
    <2> SUFFICES ASSUME T # {} PROVE FALSE
      OBVIOUS
    <2>1. PICK i \in T : i \in 1..count /\ (i = 1 \/ (i - 1 \in 1..count /\ i - 1 \notin T))
      <3>1. T \subseteq 1..count
        OBVIOUS
      <3> HIDE DEF T
      <3> QED BY <3>1, FirstFails
    <2>2. d.place[o + i] = Place("ChunkTrailers", m + (i - 1), n)
      <3>1. CASE i = 1
        <4>1. o + i = o + 1 /\ m + (i - 1) = m
          BY <1>0, <3>1
        <4> QED BY <4>1
      <3>2. CASE i # 1
        <4>1. Good(i - 1)
          BY <2>1, <3>2
        <4>2. o + (i - 1) + 1 = o + i
          BY <1>0, <2>1
        <4> QED BY <4>1, <4>2
      <3> QED BY <3>1, <3>2
    <2> QED BY <1>1, <2>1, <2>2
  <1>3. \A i \in 1..count : Good(i)
    BY <1>2
  <1>4. Good(count)
    <2>1. CASE count = 0
      <3>1. o + count + 1 = o + 1 /\ m + count = m
        BY <1>0, <2>1
      <3> QED BY <1>0, <2>1, <3>1
    <2>2. CASE count # 0
      BY <1>3, <2>2
    <2> QED BY <2>1, <2>2
  <1> QED BY <1>4

(* The symbols t are those that follow position o, up to position e.        *)
Reading(d, o, t, e) == o + Len(t) = e /\ \A i \in 1..Len(t) : t[i] = d.sym[o + i]

(* A body reader r with n items told is at place i.                         *)
Stands(d, i, r, n) ==
    IF r.kind = "Fixed" /\ r.n = 0 THEN d.place[i] = Place("Head", 0, n + 1) /\ Tells(d, n + 1, EndItem)
    ELSE d.place[i] = Place(r.kind, r.n, n)

(* The connection c reads a body from position o, its input ends at e.      *)
Receiving(d, rk, o, e, n, c) ==
    /\ d \in Flows /\ Runs(d, rk) /\ o \in Nat /\ e \in Nat /\ n \in Nat
    /\ d.read <= o /\ e <= d.wrote
    /\ c \in Connections(Wires) /\ peer_state(c) = "SendBody"
    /\ Reading(d, o, c.input, e) /\ Stands(d, o + 1, c.cycle.reader, n)

(* The ways in which a poll goes on, by what it leads to.                   *)
Waits(d, e, n, p) == \E o \in d.read..e : /\ Reading(d, o, p.c.input, e)
                                          /\ Stands(d, o + 1, p.c.cycle.reader, n)

(* The poll gives bytes of the body, which the flow tells.                  *)
Gives(d, e, n, p) == \E o \in d.read..e : /\ p.count \in 1..(e - o) /\ Reading(d, o, p.c.input, e)
                                          /\ \A i \in 1..p.count : Tells(d, n + i, ByteItem)
                                          /\ Stands(d, o + p.count + 1, p.c.cycle.reader, n + p.count)

(* The poll ends the message, where the flow tells its end.                 *)
Ends(d, e, n, p) == \E o \in d.read..e : /\ Reading(d, o, p.c.input, e) /\ Tells(d, n + 1, EndItem)
                                         /\ d.place[o + 1] = Place("Head", 0, n + 1)

(* The input ends where a message may not end.                              *)
Fails(d, e) == d.place[e + 1].kind \notin {"Head", "CloseDelimited", "Switched"}

(* What a poll makes of a body that the flow d tells.  The close of the     *)
(* transport ends a close-delimited body.                                   *)
Receipt(d, e, n, c, p) ==
    \/ p.kind = "NeedData" /\ ~c.eof /\ Waits(d, e, n, p)
    \/ p.kind = "Err" /\ c.eof /\ Fails(d, e)
    \/ p.kind = "Data" /\ Gives(d, e, n, p)
    \/ p.kind = "EndOfMessage" /\ Ends(d, e, n, p)
    \/ /\ p.kind = "EndOfMessage" /\ c.cycle.reader.kind = "CloseDelimited"
       /\ c.eof /\ c.input = <<>> /\ p.c.input = <<>>

(* Where the input ends.                                                    *)
LEMMA ReceivingEnds ==
    ASSUME NEW d, NEW rk, NEW o, NEW e, NEW n, NEW c, Receiving(d, rk, o, e, n, c)
    PROVE  /\ Len(c.input) \in Nat /\ o + Len(c.input) = e /\ o \in d.read..e
           /\ d.read \in Nat /\ d.wrote \in Nat /\ c.input \in Seq(Wires)
           /\ c.input = <<>> <=> Len(c.input) = 0
           /\ c.input # <<>> => c.input[1] = d.sym[o + 1] /\ Len(c.input) >= 1
  <1>1. c.input \in Seq(Wires) /\ Len(c.input) \in Nat /\ d.read \in Nat /\ d.wrote \in Nat
    BY LenProperties DEF Receiving, Connections, Flows
  <1>2. c.input = <<>> <=> Len(c.input) = 0
    BY <1>1, EmptySeq
  <1>3. o + Len(c.input) = e /\ o \in d.read..e
    BY <1>1 DEF Receiving, Reading
  <1>4. c.input # <<>> => 1 \in 1..Len(c.input)
    BY <1>1, <1>2
  <1> QED BY <1>1, <1>2, <1>3, <1>4 DEF Receiving, Reading

(* Nothing more to read: the poll waits, or fails once nothing will come.   *)
LEMMA WaitReceipt ==
    ASSUME NEW d, NEW rk, NEW o, NEW e, NEW n, NEW c, Receiving(d, rk, o, e, n, c),
           d.place[e + 1].kind \notin {"Head", "CloseDelimited", "Switched"},
           NEW p, p = need_data_or_eof(c)
    PROVE  Receipt(d, e, n, c, p)
  <1>1. p.c = c /\ p.kind = IF c.eof THEN "Err" ELSE "NeedData"
    BY DEF need_data_or_eof, Polled
  <1>2. Waits(d, e, n, p)
    BY <1>1, ReceivingEnds DEF Waits, Receiving
  <1>3. c.eof \in BOOLEAN
    BY DEF Receiving, Connections
  <1> QED BY <1>1, <1>2, <1>3 DEF Receipt, Fails

(* A sized payload.                                                         *)
LEMMA PayloadReceipt ==
    ASSUME NEW d, NEW rk, NEW o, NEW e, NEW n, NEW c, Receiving(d, rk, o, e, n, c), ReaderShape(c),
           NEW r, r = c.cycle.reader, r.kind \in {"Fixed", "ChunkData"}, r.n \in Nat, r.n > 0,
           NEW p, p = read_payload(c)
    PROVE  Receipt(d, e, n, c, p)
  <1>1. d.place[o + 1] = Place(r.kind, r.n, n)
    BY DEF Receiving, Stands
  <1>2. /\ Len(c.input) \in Nat /\ o + Len(c.input) = e /\ o \in d.read..e /\ d.read \in Nat /\ d.wrote \in Nat
        /\ c.input = <<>> <=> Len(c.input) = 0
    BY ReceivingEnds
  <1>3. CASE c.input = <<>>
    <2>1. e + 1 = o + 1
      BY <1>2, <1>3
    <2>2. d.place[e + 1].kind \notin {"Head", "CloseDelimited", "Switched"}
      BY <1>1, <2>1 DEF Place
    <2> QED BY <1>3, <2>2, WaitReceipt DEF read_payload
  <1>4. CASE c.input # <<>>
    <2>1. PICK a : a = Len(c.input)
      OBVIOUS
    <2>2. a \in Nat \ {0}
      BY <1>2, <1>4, <2>1
    <2>3. p = advance_payload(c, a)
      BY <1>4, <2>1 DEF read_payload
    <2>4. payload_reader(c) /\ c \in Connections(Wires)
      BY DEF payload_reader, Receiving
    <2>5. TakesPayload(c, p, a)
      BY <2>2, <2>3, <2>4, AdvancePayloadEffect
    <2>6. /\ p.kind = "Data" /\ p.count \in 1..a /\ p.c.input = c.input /\ p.count <= r.n
          /\ \/ r.kind = "ChunkData" /\ p.count = r.n /\ p.c.cycle.reader = Reader("ChunkDataEnd", 0)
             \/ (r.kind = "ChunkData" => p.count < r.n) /\ p.c.cycle.reader = Reader(r.kind, r.n - p.count)
      BY <2>5 DEF TakesPayload
    <2>7. PICK m : m = p.count
      OBVIOUS
    <2>8. m \in 1..r.n /\ o + m <= d.wrote /\ o \in Nat /\ n \in Nat /\ d.read <= o /\ d \in Flows /\ Runs(d, rk)
      <3>1. e <= d.wrote /\ o \in Nat /\ n \in Nat /\ e \in Nat
        BY DEF Receiving
      <3> QED BY <1>2, <2>1, <2>2, <2>6, <2>7, <3>1 DEF Receiving
    <2>9. /\ \A i \in 1..m : Tells(d, n + i, ByteItem)
          /\ m < r.n => d.place[o + m + 1] = Place(r.kind, r.n - m, n + m)
          /\ m = r.n /\ r.kind = "Fixed" =>
                d.place[o + m + 1] = Place("Head", 0, n + m + 1) /\ Tells(d, n + m + 1, EndItem)
          /\ m = r.n /\ r.kind = "ChunkData" => d.place[o + m + 1] = Place("ChunkDataEnd", 0, n + m)
      <3>1. PICK k, q : k = r.kind /\ q = r.n
        OBVIOUS
      <3>2. k \in {"Fixed", "ChunkData"} /\ q \in Nat /\ q > 0 /\ m \in 1..q /\ d.place[o + 1] = Place(k, q, n)
        BY <1>1, <2>8, <3>1
      <3>3. Within(d, o, m)
        BY <2>8 DEF Within
      <3>4. Paid(d, k, q, n, o, m)
        BY <2>8, <3>2, <3>3, PayloadRun
      <3> QED BY <3>1, <3>4 DEF Paid
    <2>10. Stands(d, o + m + 1, p.c.cycle.reader, n + m)
      <3>1. CASE p.c.cycle.reader = Reader("ChunkDataEnd", 0) /\ r.kind = "ChunkData" /\ m = r.n
        BY <2>9, <3>1 DEF Stands, Reader
      <3>2. CASE p.c.cycle.reader = Reader(r.kind, r.n - m) /\ m < r.n
        BY <2>8, <2>9, <3>2 DEF Stands, Reader
      <3>3. CASE p.c.cycle.reader = Reader(r.kind, r.n - m) /\ m = r.n /\ r.kind = "Fixed"
        BY <2>8, <2>9, <3>3 DEF Stands, Reader
      <3>4. m < r.n \/ m = r.n
        BY <2>8
      <3> QED BY <2>6, <2>7, <3>1, <3>2, <3>3, <3>4
    <2>11. Gives(d, e, n, p)
      <3>1. m \in 1..(e - o)
        BY <1>2, <2>1, <2>6, <2>7, <2>8 DEF Receiving
      <3>2. Reading(d, o, p.c.input, e)
        BY <2>6 DEF Receiving
      <3> QED BY <1>2, <2>7, <2>9, <2>10, <3>1, <3>2 DEF Gives
    <2> QED BY <2>6, <2>11 DEF Receipt
  <1> QED BY <1>3, <1>4

(* A close-delimited body.                                                  *)
LEMMA CloseReceipt ==
    ASSUME NEW d, NEW rk, NEW o, NEW e, NEW n, NEW c, Receiving(d, rk, o, e, n, c),
           NEW r, r = c.cycle.reader, r.kind = "CloseDelimited", r.n \in Nat,
           NEW p, p = read_close_delimited(c)
    PROVE  Receipt(d, e, n, c, p)
  <1>1. d.place[o + 1] = Place("CloseDelimited", r.n, n) /\ c \in Connections(Wires) /\ peer_state(c) = "SendBody"
    BY DEF Receiving, Stands
  <1>2. /\ Len(c.input) \in Nat /\ o + Len(c.input) = e /\ o \in d.read..e /\ d.read \in Nat /\ d.wrote \in Nat
        /\ c.input = <<>> <=> Len(c.input) = 0
    BY ReceivingEnds
  <1>3. CASE c.input = <<>> /\ c.eof
    <2>1. p = finish_peer(c)
      BY <1>3 DEF read_close_delimited
    <2> QED BY <1>1, <1>3, <2>1, FinishValue DEF Receipt
  <1>4. CASE c.input = <<>> /\ ~c.eof
    <2>1. p.c = c /\ p.kind = "NeedData"
      BY <1>4 DEF read_close_delimited, Polled
    <2>2. Waits(d, e, n, p)
      BY <1>2, <2>1 DEF Waits, Receiving
    <2> QED BY <1>4, <2>1, <2>2 DEF Receipt
  <1>5. CASE c.input # <<>>
    <2>1. PICK m : m = Len(c.input)
      OBVIOUS
    <2>0. PICK f : f = FALSE
      OBVIOUS
    <2>2. p = peer_data(c, m, f, f)
      BY <1>5, <2>0, <2>1 DEF read_close_delimited
    <2>3. /\ p.kind = "Data" /\ p.count = m /\ p.c.input = c.input /\ p.c.cycle.reader = r
      BY <1>1, <2>2, PeerDataEffect
    <2>4. m \in Nat /\ m > 0 /\ o + m = e /\ m \in 1..(e - o)
      BY <1>2, <1>5, <2>1 DEF Receiving
    <2>5. o + m <= d.wrote /\ o \in Nat /\ n \in Nat /\ d.read <= o /\ d \in Flows /\ Runs(d, rk)
      BY <2>4 DEF Receiving
    <2>6. /\ \A i \in 1..m : Tells(d, n + i, ByteItem)
          /\ d.place[o + m + 1] = Place("CloseDelimited", r.n, n + m)
      <3>1. PICK q : q = r.n
        OBVIOUS
      <3>2. q \in Nat /\ d.place[o + 1] = Place("CloseDelimited", q, n)
        BY <1>1, <3>1
      <3>3. /\ \A i \in 1..m : Tells(d, n + i, ByteItem)
            /\ d.place[o + m + 1] = Place("CloseDelimited", q, n + m)
        <4>1. Within(d, o, m)
          BY <2>5 DEF Within
        <4>2. Ahead(d, rk, o, m, "CloseDelimited", q, n)
          BY <2>4, <2>5, <3>2, <4>1 DEF Ahead
        <4> QED BY <4>2, CloseRun
      <3> QED BY <3>1, <3>3
    <2>7. Stands(d, o + m + 1, r, n + m)
      BY <2>6 DEF Stands
    <2>8. Gives(d, e, n, p)
      <3>1. Reading(d, o, p.c.input, e)
        BY <2>3 DEF Receiving
      <3> QED BY <1>2, <2>3, <2>4, <2>6, <2>7, <3>1 DEF Gives
    <2> QED BY <2>3, <2>8 DEF Receipt
  <1>6. c.eof \in BOOLEAN
    BY <1>1 DEF Connections
  <1> QED BY <1>3, <1>4, <1>5, <1>6

(* Taking symbols from the input moves the position.                        *)
LEMMA SkipReading ==
    ASSUME NEW d, NEW o \in Nat, NEW e, NEW t \in Seq(Wires), Reading(d, o, t, e), NEW f \in 0..Len(t)
    PROVE  Reading(d, o + f, Skip(t, f), e)
  <1>1. Len(t) \in Nat
    BY LenProperties
  <1>2. /\ Len(Skip(t, f)) = Len(t) - f
        /\ \A i \in 1..(Len(t) - f) : Skip(t, f)[i] = t[i + f]
    BY SkipLeavesRest
  <1>3. ASSUME NEW i \in 1..(Len(t) - f) PROVE Skip(t, f)[i] = d.sym[(o + f) + i]
    <2>1. i + f \in 1..Len(t) /\ (o + f) + i = o + (i + f)
      BY <1>1
    <2>2. t[i + f] = d.sym[o + (i + f)]
      BY <2>1 DEF Reading
    <2> QED BY <1>2, <2>1, <2>2
  <1>4. o + Len(t) = e
    BY DEF Reading
  <1> QED BY <1>1, <1>2, <1>3, <1>4 DEF Reading

(* A line of chunked coding.                                                *)
LEMMA LineStep ==
    ASSUME NEW d, NEW rk, NEW kind \in {"ChunkSize", "SizeLine", "ChunkDataEnd", "ChunkTrailers"},
           NEW m, NEW a, NEW x, NEW z, Passes(d, rk, Place(kind, m, a), x, z)
    PROVE  /\ kind = "ChunkSize" => x.tok = "hex" /\ z = Place("SizeLine", x.n, a)
           /\ kind = "SizeLine" => /\ x.tok = "crlf"
                                   /\ z = Place(IF m = 0 THEN "ChunkTrailers" ELSE "ChunkData", m, a)
           /\ kind = "ChunkDataEnd" => x.tok = "crlf" /\ z = Place("ChunkSize", 0, a)
           /\ kind = "ChunkTrailers" /\ x.tok # "field" =>
                 x.tok = "crlf" /\ Tells(d, a + 1, EndItem) /\ z = Place("Head", 0, a + 1)
  <1>1. PICK q : q = Place(kind, m, a)
    OBVIOUS
  <1>2. q.kind = kind /\ q.n = m /\ q.at = a
    BY <1>1 DEF Place
  <1>3. ~PassesHead(d, rk, q, x, z) /\ ~PassesByte(d, q, x, z)
    BY <1>2 DEF PassesHead, PassesByte
  <1>4. PassesLine(d, q, x, z)
    BY <1>1, <1>3 DEF Passes
  <1> QED BY <1>2, <1>4 DEF PassesLine

(* The step of a symbol of the input.                                       *)
LEMMA InputStep ==
    ASSUME NEW d, NEW rk, NEW o, NEW e, NEW n, NEW c, Receiving(d, rk, o, e, n, c), NEW i \in 1..Len(c.input)
    PROVE  /\ Passes(d, rk, d.place[o + i], c.input[i], d.place[o + i + 1])
           /\ c.input[i] = d.sym[o + i]
  <1>0. Len(c.input) \in Nat /\ o + Len(c.input) = e /\ d.read \in Nat /\ d.wrote \in Nat
    BY ReceivingEnds
  <1>1. /\ Len(c.input) \in Nat /\ o + Len(c.input) = e /\ o \in Nat /\ e <= d.wrote /\ d.read <= o
        /\ d \in Flows /\ Runs(d, rk) /\ d.read \in Nat /\ d.wrote \in Nat
    BY <1>0 DEF Receiving
  <1>2. o + i \in Nat /\ d.read < o + i /\ o + i <= d.wrote /\ (o + i) + 1 = o + i + 1
    BY <1>1
  <1>3. Passes(d, rk, d.place[o + i], d.sym[o + i], d.place[(o + i) + 1])
    <2>1. PICK j : j = o + i
      OBVIOUS
    <2>2. j \in Nat /\ d.read < j /\ j <= d.wrote
      BY <1>2, <2>1
    <2>3. Passes(d, rk, d.place[j], d.sym[j], d.place[j + 1])
      BY <1>1, <2>2, StepOf
    <2> QED BY <2>1, <2>3
  <1>4. c.input[i] = d.sym[o + i]
    BY DEF Receiving, Reading
  <1> QED BY <1>2, <1>3, <1>4

(* A trailer section.                                                       *)
LEMMA TrailersReceipt ==
    ASSUME NEW d, NEW rk, NEW o, NEW e, NEW n, NEW c, Receiving(d, rk, o, e, n, c),
           NEW r, r = c.cycle.reader, r.kind = "ChunkTrailers", r.n \in Nat, NEW due,
           NEW p, p = read_trailers(c, due)
    PROVE  Receipt(d, e, n, c, p)
  <1>1. PICK m : m = r.n
    OBVIOUS
  <1>2. /\ d.place[o + 1] = Place("ChunkTrailers", m, n) /\ c \in Connections(Wires) /\ peer_state(c) = "SendBody"
        /\ d \in Flows /\ Runs(d, rk) /\ o \in Nat /\ n \in Nat /\ d.read <= o /\ e <= d.wrote /\ m \in Nat
        /\ e \in Nat
    BY <1>1 DEF Receiving, Stands
  <1>3. PICK t : t = c.input
    OBVIOUS
  <1>4. /\ Len(t) \in Nat /\ o + Len(t) = e /\ o \in d.read..e /\ d.read \in Nat /\ d.wrote \in Nat
        /\ t \in Seq(Wires)
    BY <1>3, ReceivingEnds
  <1>5. MaxHead \in Nat /\ MaxHead > 0
    BY MaxHeadAssumption
  <1>6. CASE ~TrailersDue(c, due)
    <2>1. ~c.eof /\ Len(t) <= MaxHead
      <3>1. ~c.eof /\ ~(Len(c.input) > MaxHead)
        BY <1>6, Zenon DEF section_due, TrailersDue
      <3> QED BY <1>3, <1>4, <1>5, <3>1
    <2>2. p = Polled("NeedData", c)
      <3>1. p = wait_for_section(c)
        BY <1>6 DEF read_trailers, TrailersDue
      <3> QED BY <1>3, <2>1, <3>1 DEF wait_for_section, need_data_or_eof
    <2>3. p.kind = "NeedData" /\ p.c = c
      BY <2>2 DEF Polled
    <2>4. Waits(d, e, n, p)
      BY <1>4, <2>3 DEF Waits, Receiving
    <2> QED BY <2>1, <2>3, <2>4 DEF Receipt
  <1>7. ASSUME TrailersDue(c, due) PROVE Receipt(d, e, n, c, p)
    <2>1. PICK s : s = Prefix(t, MaxHead)
      OBVIOUS
    <2>2. /\ s \in Seq(Wires) /\ Len(s) <= Len(t) /\ Len(s) \in Nat
          /\ \A i \in 1..Len(s) : s[i] = t[i]
      BY <1>4, <1>5, <2>1, PrefixIsInitial, LenProperties
    <2>3. Len(s) = IF MaxHead < Len(t) THEN MaxHead ELSE Len(t)
      <3>1. 0 <= (IF MaxHead < Len(t) THEN MaxHead ELSE Len(t))
        BY <1>4, <1>5
      <3> QED BY <1>4, <1>5, <2>1, <3>1, SubSeqProperties DEF Prefix
    <2>4. PICK q : q = parse_trailers(s)
      OBVIOUS
    <2>5. /\ (\A i \in 1..Len(s) : s[i].tok = "field") => q.status = "Partial"
          /\ \A k \in 1..Len(s) : s[k].tok = "crlf" /\ (\A i \in 1..(k - 1) : s[i].tok = "field")
                                  => q.status = "Complete" /\ q.end = k
      BY <2>2, <2>4, TrailersFound
    <2>6. p = IF q.status = "Partial" THEN wait_for_section(c)
              ELSE IF q.status = "Err" THEN Polled("Err", c)
              ELSE finish_peer(Consumed(c, q.end))
      BY <1>3, <1>7, <2>1, <2>4 DEF read_trailers, section, Consumed, TrailersDue
    <2> DEFINE F == {i \in 1..Len(t) : t[i].tok # "field"}
    <2>7. CASE F = {}
      <3>1. \A i \in 1..Len(t) : t[i].tok = "field" /\ d.sym[o + i].tok = "field"
        BY <1>3, <2>7, InputStep
      <3>2. Within(d, o, Len(t))
        BY <1>2, <1>4 DEF Within
      <3>3. d.place[o + Len(t) + 1] = Place("ChunkTrailers", m + Len(t), n) /\ Len(t) < MaxHead
        <4>1. PICK a : a = Len(t)
          OBVIOUS
        <4>2. a \in Nat /\ Within(d, o, a) /\ \A i \in 1..a : d.sym[o + i].tok = "field"
          BY <1>4, <3>1, <3>2, <4>1
        <4>3. d.place[o + a + 1] = Place("ChunkTrailers", m + a, n) /\ a < MaxHead
          <5>1. Ahead(d, rk, o, a, "ChunkTrailers", m, n)
            BY <1>2, <4>2 DEF Ahead
          <5> QED BY <4>2, <5>1, TrailersRun
        <4> QED BY <4>1, <4>3
      <3>4. d.place[e + 1].kind = "ChunkTrailers"
        BY <1>4, <3>3 DEF Place
      <3>5. q.status = "Partial"
        <4>1. \A i \in 1..Len(s) : i \in 1..Len(t)
          BY <1>4, <2>2
        <4> QED BY <2>2, <2>5, <3>1, <4>1
      <3>6. p = need_data_or_eof(c)
        BY <1>3, <1>4, <1>5, <2>6, <3>3, <3>5 DEF wait_for_section
      <3> QED BY <3>4, <3>6, WaitReceipt
    <2>8. CASE F # {}
      <3>1. PICK f \in F : \A y \in F : f <= y
        <4>1. F \subseteq Nat
          OBVIOUS
        <4> HIDE DEF F
        <4> QED BY <2>8, <4>1, LeastExists
      <3>2. f \in 1..Len(t) /\ t[f].tok # "field" /\ \A i \in 1..(f - 1) : t[i].tok = "field"
        <4>1. f \in 1..Len(t)
          OBVIOUS
        <4>2. \A i \in 1..(f - 1) : i \in 1..Len(t) /\ ~(f <= i)
          BY <1>4, <4>1
        <4> QED BY <3>1, <4>1, <4>2
      <3> HIDE DEF F
      <3>3. PICK a : a = f - 1
        OBVIOUS
      <3>4. a \in Nat /\ o + a + 1 = o + f /\ o + f <= e /\ f \in Nat /\ o + f \in Nat
        BY <1>2, <1>4, <3>2, <3>3
      <3>5. Within(d, o, a)
        BY <1>2, <1>4, <3>4 DEF Within
      <3>6. \A i \in 1..a : d.sym[o + i].tok = "field"
        <4>1. \A i \in 1..a : i \in 1..Len(t)
          BY <1>4, <3>2, <3>3
        <4>2. \A i \in 1..a : t[i] = d.sym[o + i]
          BY <1>3, <4>1, InputStep
        <4> QED BY <3>2, <3>3, <4>2
      <3>7. d.place[o + a + 1] = Place("ChunkTrailers", m + a, n) /\ a < MaxHead
        <4>1. a \in Nat /\ Within(d, o, a) /\ \A i \in 1..a : d.sym[o + i].tok = "field"
          BY <3>4, <3>5, <3>6
        <4>2. Ahead(d, rk, o, a, "ChunkTrailers", m, n)
          BY <1>2, <4>1 DEF Ahead
        <4> QED BY <4>1, <4>2, TrailersRun
      <3>8. Passes(d, rk, Place("ChunkTrailers", m + a, n), t[f], d.place[o + f + 1])
        <4>1. Passes(d, rk, d.place[o + f], t[f], d.place[o + f + 1])
          BY <1>3, <3>2, InputStep
        <4> QED BY <3>4, <3>7, <4>1
      <3>9. t[f].tok = "crlf" /\ Tells(d, n + 1, EndItem) /\ d.place[o + f + 1] = Place("Head", 0, n + 1)
        BY <3>2, <3>8, LineStep
      <3>10. f \in 1..Len(s)
        BY <1>4, <1>5, <2>3, <3>2, <3>3, <3>7
      <3>11. q.status = "Complete" /\ q.end = f
        <4>1. \A i \in 1..(f - 1) : i \in 1..Len(s)
          BY <2>2, <3>10
        <4> QED BY <2>2, <2>5, <3>2, <3>9, <3>10, <4>1
      <3>12. PICK b : b = Consumed(c, f)
        OBVIOUS
      <3>13. /\ b \in Connections(Wires) /\ peer_state(b) = "SendBody" /\ b.input = Skip(t, f)
        <4>1. f \in 0..Len(c.input)
          BY <1>3, <3>2
        <4> QED BY <1>2, <1>3, <3>12, <4>1, ConsumedEffect DEF peer_state, Fixtures
      <3>14. p = finish_peer(b)
        BY <2>6, <3>11, <3>12
      <3>15. p.kind = "EndOfMessage" /\ p.c.input = Skip(t, f)
        BY <3>13, <3>14, FinishValue
      <3>16. Reading(d, o + f, p.c.input, e)
        <4>1. f \in 0..Len(t) /\ Reading(d, o, t, e)
          BY <1>3, <3>2 DEF Receiving
        <4> QED BY <1>2, <1>4, <3>15, <4>1, SkipReading
      <3>17. o + f \in d.read..e
        BY <1>2, <1>4, <3>4
      <3>18. Ends(d, e, n, p)
        BY <3>9, <3>16, <3>17 DEF Ends
      <3> QED BY <3>15, <3>18 DEF Receipt
    <2> QED BY <2>7, <2>8
  <1> QED BY <1>6, <1>7

(* Two symbols further.                                                     *)
LEMMA ReceivingSkips ==
    ASSUME NEW d, NEW rk, NEW o, NEW e, NEW n, NEW c, Receiving(d, rk, o, e, n, c), NEW f \in 0..Len(c.input),
           NEW b \in Connections(Wires), b.input = Skip(c.input, f), b.st = c.st, b.role = c.role,
           Stands(d, o + f + 1, b.cycle.reader, n)
    PROVE  Receiving(d, rk, o + f, e, n, b)
  <1>1. /\ o \in Nat /\ e \in Nat /\ n \in Nat /\ d.read <= o /\ e <= d.wrote /\ d \in Flows /\ Runs(d, rk)
        /\ peer_state(c) = "SendBody" /\ Reading(d, o, c.input, e) /\ c.input \in Seq(Wires)
    BY DEF Receiving, Connections
  <1>2. d.read \in Nat
    BY <1>1 DEF Flows
  <1>3. Len(c.input) \in Nat
    BY <1>1, LenProperties
  <1>4. Reading(d, o + f, b.input, e)
    BY <1>1, SkipReading
  <1>5. peer_state(b) = "SendBody"
    BY <1>1 DEF peer_state
  <1>6. o + f \in Nat /\ d.read <= o + f
    BY <1>1, <1>2, <1>3
  <1> QED BY <1>1, <1>4, <1>5, <1>6 DEF Receiving

(* A chunk's size line and what follows it.                                 *)
LEMMA ChunkSizeReceipt ==
    ASSUME NEW d, NEW rk, NEW o, NEW e, NEW n, NEW c, Receiving(d, rk, o, e, n, c), ReaderShape(c),
           NEW r, r = c.cycle.reader, r.kind = "ChunkSize", c.cycle.chunk_extension_bytes <= MaxHead,
           NEW due, NEW p, p = read_chunk_size(c, due)
    PROVE  Receipt(d, e, n, c, p)
  <1>1. PICK t : t = c.input
    OBVIOUS
  <1>2. /\ Len(t) \in Nat /\ o + Len(t) = e /\ o \in d.read..e /\ d.read \in Nat /\ d.wrote \in Nat
        /\ t \in Seq(Wires) /\ (t = <<>> <=> Len(t) = 0)
    BY <1>1, ReceivingEnds
  <1>3. /\ d.place[o + 1] = Place("ChunkSize", r.n, n) /\ c \in Connections(Wires) /\ o \in Nat /\ n \in Nat
        /\ peer_state(c) = "SendBody"
    BY DEF Receiving, Stands
  <1>4. MaxHead \in Nat /\ MaxHead > 0
    BY MaxHeadAssumption
  <1>5. Len(t) >= 1 => t[1].tok = "hex" /\ d.place[o + 2] = Place("SizeLine", t[1].n, n)
    <2> SUFFICES ASSUME Len(t) >= 1 PROVE t[1].tok = "hex" /\ d.place[o + 2] = Place("SizeLine", t[1].n, n)
      OBVIOUS
    <2>1. 1 \in 1..Len(c.input)
      BY <1>1, <1>2
    <2>2. Passes(d, rk, d.place[o + 1], c.input[1], d.place[o + 1 + 1])
      BY <2>1, InputStep
    <2>3. o + 1 + 1 = o + 2
      BY <1>3
    <2>4. Passes(d, rk, Place("ChunkSize", r.n, n), t[1], d.place[o + 2])
      BY <1>1, <1>3, <2>2, <2>3
    <2>5. PICK m, x, z : m = r.n /\ x = t[1] /\ z = d.place[o + 2]
      OBVIOUS
    <2>6. Passes(d, rk, Place("ChunkSize", m, n), x, z)
      BY <2>4, <2>5
    <2>7. x.tok = "hex" /\ z = Place("SizeLine", x.n, n)
      BY <2>6, LineStep
    <2> QED BY <2>5, <2>7
  <1>6. Len(t) >= 2 => /\ t[2].tok = "crlf"
                       /\ d.place[o + 3] = Place(IF t[1].n = 0 THEN "ChunkTrailers" ELSE "ChunkData", t[1].n, n)
    <2> SUFFICES ASSUME Len(t) >= 2
                 PROVE  /\ t[2].tok = "crlf"
                        /\ d.place[o + 3] = Place(IF t[1].n = 0 THEN "ChunkTrailers" ELSE "ChunkData", t[1].n, n)
      OBVIOUS
    <2>1. 2 \in 1..Len(c.input)
      BY <1>1, <1>2
    <2>2. Passes(d, rk, d.place[o + 2], c.input[2], d.place[o + 2 + 1])
      BY <2>1, InputStep
    <2>3. o + 2 + 1 = o + 3
      BY <1>3
    <2>4. Passes(d, rk, Place("SizeLine", t[1].n, n), t[2], d.place[o + 3])
      BY <1>1, <1>2, <1>5, <2>2, <2>3
    <2>5. PICK m, x, z : m = t[1].n /\ x = t[2] /\ z = d.place[o + 3]
      OBVIOUS
    <2>6. Passes(d, rk, Place("SizeLine", m, n), x, z)
      BY <2>4, <2>5
    <2>7. x.tok = "crlf" /\ z = Place(IF m = 0 THEN "ChunkTrailers" ELSE "ChunkData", m, n)
      BY <2>6, LineStep
    <2> QED BY <2>5, <2>7
  <1>7. PICK end : end = find_crlf(t)
    OBVIOUS
  <1>8. /\ (\A i \in 1..Len(t) : t[i].tok \notin {"crlf", "field", "head"}) => end = 0
        /\ \A k \in 1..Len(t) :
              /\ t[k].tok \in {"crlf", "field", "head"}
              /\ \A i \in 1..(k - 1) : t[i].tok \notin {"crlf", "field", "head"}
              => end = k
    BY <1>2, <1>7, LineFound
  <1>9. CASE Len(t) < 2
    <2>1. end = 0
      <3>1. \A i \in 1..Len(t) : i = 1 /\ Len(t) >= 1
        BY <1>2, <1>9
      <3> QED BY <1>5, <1>8, <3>1
    <2>2. p = need_data_or_eof(c)
      <3>1. ~(incomplete_line_len(c.input) > MaxHead)
        <4>1. incomplete_line_len(t) \in Int /\ incomplete_line_len(t) <= Len(t)
          BY <1>2, UnfinishedLine
        <4> QED BY <1>1, <1>2, <1>4, <1>9, <4>1
      <3> QED BY <1>1, <1>7, <2>1, <3>1 DEF read_chunk_size
    <2>3. d.place[e + 1].kind \in {"ChunkSize", "SizeLine"}
      <3>1. CASE Len(t) = 0
        <4>1. e + 1 = o + 1
          BY <1>2, <1>3, <3>1
        <4> QED BY <1>3, <4>1 DEF Place
      <3>2. CASE Len(t) = 1
        <4>1. e + 1 = o + 2 /\ Len(t) >= 1
          BY <1>2, <1>3, <3>2
        <4> QED BY <1>5, <4>1 DEF Place
      <3>3. Len(t) = 0 \/ Len(t) = 1
        <4>1. \A a \in Nat : a < 2 => a = 0 \/ a = 1
          OBVIOUS
        <4>2. Len(t) \in Nat
          BY <1>2
        <4> QED BY <1>9, <4>1, <4>2
      <3> QED BY <3>1, <3>2, <3>3
    <2> QED BY <2>2, <2>3, WaitReceipt
  <1>10. CASE Len(t) >= 2
    <2>1. 2 \in 1..Len(t) /\ 1 \in 1..Len(t) /\ 2 \in 0..Len(t)
      BY <1>2, <1>10
    <2>2. t[1].tok = "hex" /\ t[2].tok = "crlf"
      BY <1>2, <1>5, <1>6, <1>10
    <2>3. end = 2
      <3>1. \A i \in 1..(2 - 1) : i = 1
        OBVIOUS
      <3> QED BY <1>8, <2>1, <2>2, <3>1
    <2>4. PICK size : size = t[1].n
      OBVIOUS
    <2>5. size \in Nat
      <3>1. t[1] \in Wires
        BY <1>2, <2>1, ElementOfSeq
      <3> QED BY <2>2, <2>4, <3>1, WiresOK DEF SymbolsOK
    <2>6. PICK x : x = c.cycle.chunk_extension_bytes
      OBVIOUS
    <2>7. x \in Nat /\ x + 2 - 2 = x /\ ~(x + 2 - 2 > MaxHead) /\ ~(2 - 1 > MaxHead) /\ 2 # 0
      <3>1. x \in Nat
        BY <1>3, <2>6 DEF Connections, Cycles
      <3> QED BY <1>4, <2>6, <3>1
    <2>8. valid_chunk_header(t, 2)
      BY <2>2 DEF valid_chunk_header
    <2>9. PICK r1, r2 : r1 = Reader("ChunkTrailers", 0) /\ r2 = [kind |-> "ChunkData", n |-> size, first |-> TRUE]
      OBVIOUS
    <2>10. PICK b1, b2 : b1 = AfterSize(c, x, r1) /\ b2 = AfterSize(c, x, r2)
      OBVIOUS
    <2>11. p = IF size = 0 THEN read_trailers(b1, due) ELSE read_payload(b2)
      <3> DEFINE extensions == x + end - 2
                 counted == [c EXCEPT !.cycle.chunk_extension_bytes = extensions]
                 rest == [counted EXCEPT !.input = Skip(@, end)]
                 c1 == [rest EXCEPT !.cycle.reader = r1]
                 c2 == [rest EXCEPT !.cycle.reader = r2]
      <3>1. c1 = b1 /\ c2 = b2
        BY <2>3, <2>7, <2>10 DEF AfterSize
      <3> HIDE DEF c1, c2, counted, extensions
      <3>2. p = IF end = 0 THEN IF incomplete_line_len(t) > MaxHead THEN Polled("Err", c) ELSE need_data_or_eof(c)
              ELSE IF end - 1 > MaxHead \/ ~valid_chunk_header(t, end) THEN Polled("Err", c)
              ELSE IF extensions > MaxHead THEN Polled("Err", counted)
              ELSE IF size = 0 THEN read_trailers(c1, due)
              ELSE read_payload(c2)
        BY <1>1, <1>7, <2>4, <2>6, <2>9 DEF read_chunk_size, c1, c2, counted, extensions
      <3>3. ~(extensions > MaxHead)
        BY <2>3, <2>7 DEF extensions
      <3> QED BY <2>3, <2>7, <2>8, <3>1, <3>2, <3>3
    <2>12. r1 \in Readers /\ r2 \in Readers /\ 2 \in 0..Len(c.input)
      BY <1>1, <2>1, <2>5, <2>9 DEF Reader, Readers, ReaderKinds
    <2>13. o + 2 + 1 = o + 3 /\ o + 2 \in Nat
      BY <1>3
    <2>14. CASE size = 0
      <3>1. /\ b1 \in Connections(Wires) /\ b1.input = Skip(c.input, 2) /\ b1.cycle.reader = r1
            /\ b1.st = c.st /\ b1.role = c.role /\ b1.eof = c.eof
        BY <1>3, <2>7, <2>10, <2>12, AfterSizeEffect
      <3>2. Stands(d, o + 2 + 1, b1.cycle.reader, n)
        BY <1>2, <1>6, <1>10, <2>4, <2>9, <2>13, <2>14, <3>1 DEF Stands, Reader
      <3>3. Receiving(d, rk, o + 2, e, n, b1)
        BY <2>12, <3>1, <3>2, ReceivingSkips
      <3>4. p = read_trailers(b1, due) /\ r1.kind = "ChunkTrailers" /\ r1.n \in Nat
        BY <2>9, <2>11, <2>14 DEF Reader
      <3>5. Receipt(d, e, n, b1, p)
        BY <3>1, <3>3, <3>4, TrailersReceipt
      <3> QED BY <2>9, <3>1, <3>5 DEF Receipt, Reader
    <2>15. CASE size # 0
      <3>1. /\ b2 \in Connections(Wires) /\ b2.input = Skip(c.input, 2) /\ b2.cycle.reader = r2
            /\ b2.st = c.st /\ b2.role = c.role /\ b2.eof = c.eof /\ b2.cycle.writer = c.cycle.writer
        BY <1>3, <2>7, <2>10, <2>12, AfterSizeEffect
      <3>2. Stands(d, o + 2 + 1, b2.cycle.reader, n)
        BY <1>2, <1>6, <1>10, <2>4, <2>9, <2>13, <2>15, <3>1 DEF Stands
      <3>3. Receiving(d, rk, o + 2, e, n, b2)
        BY <2>12, <3>1, <3>2, ReceivingSkips
      <3>4. p = read_payload(b2) /\ r2.kind = "ChunkData" /\ r2.n \in Nat /\ r2.n > 0
        BY <2>5, <2>9, <2>11, <2>15
      <3>5. ReaderShape(b2)
        BY <3>1, <3>4 DEF ReaderShape
      <3>6. Receipt(d, e, n, b2, p)
        BY <3>1, <3>3, <3>4, <3>5, PayloadReceipt
      <3> QED BY <3>1, <3>4, <3>6 DEF Receipt
    <2> QED BY <2>14, <2>15
  <1> QED BY <1>2, <1>9, <1>10

(* A chunk's line end and what follows it.                                  *)
LEMMA ChunkEndReceipt ==
    ASSUME NEW d, NEW rk, NEW o, NEW e, NEW n, NEW c, Receiving(d, rk, o, e, n, c), ReaderShape(c),
           NEW r, r = c.cycle.reader, r.kind = "ChunkDataEnd", c.cycle.chunk_extension_bytes <= MaxHead,
           NEW due, NEW p, p = read_chunk_end(c, due)
    PROVE  Receipt(d, e, n, c, p)
  <1>1. PICK t : t = c.input
    OBVIOUS
  <1>2. /\ Len(t) \in Nat /\ o + Len(t) = e /\ o \in d.read..e /\ d.read \in Nat /\ d.wrote \in Nat
        /\ t \in Seq(Wires) /\ (t = <<>> <=> Len(t) = 0)
    BY <1>1, ReceivingEnds
  <1>3. /\ d.place[o + 1] = Place("ChunkDataEnd", r.n, n) /\ c \in Connections(Wires) /\ o \in Nat /\ n \in Nat
        /\ peer_state(c) = "SendBody"
    BY DEF Receiving, Stands
  <1>4. CASE t = <<>>
    <2>1. p = need_data_or_eof(c)
      BY <1>1, <1>4 DEF read_chunk_end
    <2>2. e + 1 = o + 1
      BY <1>2, <1>3, <1>4
    <2>3. d.place[e + 1].kind = "ChunkDataEnd"
      BY <1>3, <2>2 DEF Place
    <2> QED BY <2>1, <2>3, WaitReceipt
  <1>5. CASE t # <<>>
    <2>1. 1 \in 1..Len(c.input) /\ 1 \in 0..Len(c.input)
      BY <1>1, <1>2, <1>5
    <2>2. PICK m, x, z : m = r.n /\ x = t[1] /\ z = d.place[o + 1 + 1]
      OBVIOUS
    <2>3. Passes(d, rk, Place("ChunkDataEnd", m, n), x, z)
      <3>1. Passes(d, rk, d.place[o + 1], c.input[1], d.place[o + 1 + 1])
        BY <2>1, InputStep
      <3> QED BY <1>1, <1>3, <2>2, <3>1
    <2>4. x.tok = "crlf" /\ z = Place("ChunkSize", 0, n)
      BY <2>3, LineStep
    <2>5. PICK b : b = [c EXCEPT !.input = Skip(@, 1), !.cycle.reader = Reader("ChunkSize", 0)]
      OBVIOUS
    <2>6. p = read_chunk_size(b, due)
      BY <1>1, <1>5, <2>2, <2>4, <2>5 DEF read_chunk_end
    <2>7. Skip(c.input, 1) \in Seq(Wires)
      BY <1>1, <1>2, <2>1, SkipLeavesRest
    <2>8. Reader("ChunkSize", 0) \in Readers /\ Reader("ChunkSize", 0).kind = "ChunkSize"
          /\ Reader("ChunkSize", 0).first = FALSE /\ Reader("ChunkSize", 0).n = 0
      BY DEF Reader, Readers, ReaderKinds
    <2>9. /\ b \in Connections(Wires) /\ Reads(c, b) /\ b.input = Skip(c.input, 1)
          /\ b.cycle.reader = Reader("ChunkSize", 0)
          /\ b.cycle.chunk_extension_bytes = c.cycle.chunk_extension_bytes
      BY <1>3, <2>5, <2>7, <2>8 DEF Connections, Cycles, Reads, Fixtures
    <2>10. /\ b.st = c.st /\ b.role = c.role /\ b.eof = c.eof /\ b.cycle.writer = c.cycle.writer
      BY <2>9 DEF Reads, Fixtures
    <2>11. ReaderShape(b)
      BY <2>8, <2>9, <2>10 DEF ReaderShape
    <2>12. Stands(d, o + 1 + 1, b.cycle.reader, n)
      BY <2>2, <2>4, <2>8, <2>9 DEF Stands
    <2>13. Receiving(d, rk, o + 1, e, n, b)
      BY <2>1, <2>9, <2>10, <2>12, ReceivingSkips
    <2>14. Receipt(d, e, n, b, p)
      <3>1. b.cycle.reader.kind = "ChunkSize" /\ b.cycle.chunk_extension_bytes <= MaxHead
        BY <2>8, <2>9
      <3> QED BY <2>6, <2>11, <2>13, <3>1, ChunkSizeReceipt
    <2> QED BY <2>8, <2>9, <2>10, <2>14 DEF Receipt
  <1> QED BY <1>4, <1>5

(* What a poll makes of a body, whatever its framing.                       *)
LEMMA BodyReceipt ==
    ASSUME NEW d, NEW rk, NEW o, NEW e, NEW n, NEW c, Receiving(d, rk, o, e, n, c), Sound(c),
           NEW due, NEW p, p = next_event_inner(c, due)
    PROVE  Receipt(d, e, n, c, p)
  <1>1. /\ c \in Connections(Wires) /\ peer_state(c) = "SendBody" /\ o \in Nat /\ e \in Nat /\ n \in Nat
        /\ Reading(d, o, c.input, e) /\ Stands(d, o + 1, c.cycle.reader, n)
    BY DEF Receiving
  <1>2. PICK r : r = c.cycle.reader
    OBVIOUS
  <1>3. /\ r.kind \in ReaderKinds \ {"Head"} /\ r.n \in Nat /\ ReaderShape(c)
        /\ c.cycle.chunk_extension_bytes <= MaxHead
    BY <1>1, <1>2 DEF Sound, Coherent, ReaderMatches, ExtensionsFit, Connections, Cycles, Readers
  <1>4. p = read_message(c, due)
    BY <1>1 DEF next_event_inner
  <1>5. CASE r.kind = "Fixed" /\ r.n = 0
    <2>1. p = finish_peer(c)
      BY <1>2, <1>4, <1>5 DEF read_message
    <2>2. p.kind = "EndOfMessage" /\ p.c.input = c.input
      BY <1>1, <2>1, FinishValue
    <2>3. d.place[o + 1] = Place("Head", 0, n + 1) /\ Tells(d, n + 1, EndItem)
      BY <1>1, <1>2, <1>5 DEF Stands
    <2>4. o \in d.read..e
      BY ReceivingEnds
    <2>5. Ends(d, e, n, p)
      BY <1>1, <2>2, <2>3, <2>4 DEF Ends
    <2> QED BY <2>2, <2>5 DEF Receipt
  <1>6. CASE r.kind \in {"Fixed", "ChunkData"} /\ r.n # 0
    <2>1. p = read_payload(c)
      BY <1>2, <1>4, <1>6 DEF read_message
    <2>2. r.n > 0
      BY <1>3, <1>6
    <2> QED BY <1>2, <1>3, <1>6, <2>1, <2>2, PayloadReceipt
  <1>7. CASE r.kind = "CloseDelimited"
    <2>1. p = read_close_delimited(c)
      BY <1>2, <1>4, <1>7 DEF read_message
    <2> QED BY <1>2, <1>3, <1>7, <2>1, CloseReceipt
  <1>8. CASE r.kind = "ChunkSize"
    <2>1. p = read_chunk_size(c, due)
      BY <1>2, <1>4, <1>8 DEF read_message
    <2> QED BY <1>2, <1>3, <1>8, <2>1, ChunkSizeReceipt
  <1>9. CASE r.kind = "ChunkDataEnd"
    <2>1. p = read_chunk_end(c, due)
      BY <1>2, <1>4, <1>9 DEF read_message
    <2> QED BY <1>2, <1>3, <1>9, <2>1, ChunkEndReceipt
  <1>10. CASE r.kind = "ChunkTrailers"
    <2>1. p = read_trailers(c, due)
      BY <1>2, <1>4, <1>10 DEF read_message
    <2> QED BY <1>2, <1>3, <1>10, <2>1, TrailersReceipt
  <1>11. r.kind = "ChunkData" => r.n # 0
    BY <1>2, <1>3 DEF ReaderShape
  <1> QED BY <1>3, <1>5, <1>6, <1>7, <1>8, <1>9, <1>10, <1>11 DEF ReaderKinds

(* What is next in the buffer, if anything is, is a head that can be read.  *)
AtHead(c) == c.input # <<>> => /\ c.input[1].tok = "head" /\ c.input[1].h.kind = HeadKind(c)
                               /\ c.input[1].h.syntax = "ok"

(* How a poll before a head ends.                                           *)
HeadReceipt(c, p) ==
    \/ p.kind = "NeedData" /\ p.c = c /\ ~c.eof
    \/ p.kind = "Err" /\ p.c = c /\ c.eof /\ c.input = <<>> /\ peer_state(c) = "SendResponse"
    \/ p = peer_closed(c) /\ c.eof /\ c.input = <<>> /\ peer_state(c) = "Idle"
    \/ c.input # <<>> /\ p = AcceptHead(Consumed(c, 1), c.input[1].h)

(* read_head waits, fails at the end of the transport or takes the head     *)
(* that is next.                                                            *)
LEMMA ReadHeadReceipt ==
    ASSUME NEW c \in Connections(Wires), AtHead(c), NEW due, NEW p, p = read_head(c, due)
    PROVE  \/ c.input = <<>> /\ p = need_data_or_eof(c)
           \/ c.input # <<>> /\ p = Polled("NeedData", c) /\ ~c.eof
           \/ c.input # <<>> /\ p = AcceptHead(Consumed(c, 1), c.input[1].h)
  <1> DEFINE kind == HeadKind(c)
             q == parse_head(section(c), kind, c.lenient)
             h == c.input[q.end].h
             dropped == h.syntax = "dropped"
             d == NoKeepAliveIf(dropped, Consumed(c, q.end))
  <1>2. /\ section(c) \in Seq(Wires) /\ Len(c.input) \in Nat /\ c.input \in Seq(Wires)
        /\ Len(section(c)) \in Nat
        /\ \A i \in 1..Len(section(c)) : section(c)[i] = c.input[i]
    BY PrefixIsInitial, LenProperties, MaxHeadAssumption DEF section, Connections
  <1>3. p = IF ~HeadDue(c, due) \/ q.status = "Partial" THEN wait_for_section(c)
              ELSE IF q.status = "Err" THEN Polled("Err", c)
              ELSE IF c.role = "server" THEN accept_request(d, h)
              ELSE accept_response(d, h)
    BY Zenon DEF read_head, Consumed, HeadDue, HeadKind
  <1>4. /\ section(c) = <<>> => q.status = "Partial"
        /\ /\ section(c) # <<>> /\ section(c)[1].tok = "head" /\ section(c)[1].h.kind = kind /\ section(c)[1].h.syntax = "ok"
           => q.status = "Complete" /\ q.end = 1
    <2> HIDE DEF kind
    <2> QED BY <1>2, HeadFound
  <1>5. Len(section(c)) = IF MaxHead < Len(c.input) THEN MaxHead ELSE Len(c.input)
    BY <1>2, MaxHeadAssumption, SubSeqProperties DEF section, Prefix
  <1>6. 0 <= MaxHead /\ Len(<<>>) = 0 /\ 1 <= MaxHead
    BY EmptySeq, MaxHeadAssumption
  <1> HIDE DEF q
  <1>7. CASE c.input = <<>>
    <2>1. section(c) = <<>>
      BY <1>2, <1>5, <1>6, <1>7, EmptySeq
    <2>2. p = wait_for_section(c)
      <3> HIDE DEF d, h
      <3> QED BY <1>3, <1>4, <2>1
    <2> QED BY <1>6, <1>7, <2>2 DEF wait_for_section
  <1>8. CASE c.input # <<>>
    <2>1. Len(c.input) >= 1 /\ Len(section(c)) >= 1
      BY <1>2, <1>5, <1>6, <1>8, FirstElement
    <2>2. section(c) # <<>> /\ section(c)[1] = c.input[1]
      BY <1>2, <1>6, <2>1
    <2>3. q.status = "Complete" /\ q.end = 1
      BY <1>4, <1>8, <2>2 DEF AtHead
    <2>4. CASE ~HeadDue(c, due)
      <3>1. p = wait_for_section(c)
        <4> HIDE DEF d, h
        <4> QED BY <1>3, <2>4
      <3>2. ~c.eof /\ Len(c.input) <= MaxHead
        <4>1. ~(c.eof \/ Len(c.input) > MaxHead)
          BY <2>4, Zenon DEF HeadDue, section_due
        <4> QED BY <1>2, <4>1, MaxHeadAssumption
      <3> QED BY <1>8, <3>1, <3>2 DEF wait_for_section, need_data_or_eof
    <2>5. CASE HeadDue(c, due)
      <3>1. p = IF c.role = "server" THEN accept_request(d, h) ELSE accept_response(d, h)
        <4> HIDE DEF d, h
        <4> QED BY <1>3, <2>3, <2>5
      <3>2. h = c.input[1].h /\ h.syntax = "ok"
        BY <1>8, <2>3 DEF AtHead
      <3>3. d = Consumed(c, 1)
        BY <2>3, <3>2 DEF NoKeepAliveIf
      <3>4. Consumed(c, 1).role = c.role
        BY <1>2, <2>1, ConsumedEffect DEF Fixtures
      <3> HIDE DEF d, h
      <3> QED BY <1>8, <3>1, <3>2, <3>3, <3>4 DEF AcceptHead
    <2> QED BY <2>4, <2>5
  <1> QED BY <1>7, <1>8

(* A poll before a head does what read_head does.                           *)
LEMMA HeadPollReceipt ==
    ASSUME NEW c \in Connections(Wires), Sound(c), AtHead(c), peer_state(c) \in {"Idle", "SendResponse"},
           NEW due, NEW p, p = next_event_inner(c, due)
    PROVE  HeadReceipt(c, p)
  <1> DEFINE s == peer_state(c)
             idle == s = "Idle" /\ c.eof /\ Len(c.input) <= MaxHead /\ only_empty_lines(c.input)
  <1>1. c.input \in Seq(Wires) /\ Len(c.input) \in Nat /\ Len(<<>>) = 0 /\ 0 <= MaxHead
    BY EmptySeq, LenProperties, MaxHeadAssumption DEF Connections
  <1>2. /\ idle => p = peer_closed(Emptied(c))
        /\ ~idle => p = read_message(c, due)
    BY DEF next_event_inner, Emptied
  <1>3. CASE idle
    <2>1. c.input = <<>>
      <3>1. SUFFICES ASSUME c.input # <<>> PROVE FALSE
        OBVIOUS
      <3>2. 1 \in DOMAIN c.input
        BY <1>1, <3>1, FirstElement
      <3> QED BY <1>3, <3>1, <3>2 DEF only_empty_lines, AtHead
    <2>2. Emptied(c) = c
      BY <2>1 DEF Emptied, Connections
    <2> QED BY <1>2, <1>3, <2>1, <2>2 DEF HeadReceipt
  <1>4. CASE ~idle
    <2>1. c.cycle.reader.kind = "Head"
      BY DEF Sound, ReaderMatches, ReadHead, Reader
    <2>2. p = read_head(c, due)
      BY <1>2, <1>4, <2>1 DEF read_message
    <2>3. CASE c.input = <<>> /\ p = need_data_or_eof(c)
      <3>1. ~(s = "Idle" /\ c.eof)
        <4>1. DOMAIN c.input = {}
          BY <2>3
        <4> QED BY <1>1, <1>4, <2>3, <4>1 DEF only_empty_lines
      <3> QED BY <2>3, <3>1 DEF need_data_or_eof, Polled, HeadReceipt
    <2>4. CASE p = Polled("NeedData", c) /\ ~c.eof
      BY <2>4 DEF Polled, HeadReceipt
    <2> QED BY <2>2, <2>3, <2>4, ReadHeadReceipt DEF HeadReceipt
  <1> QED BY <1>3, <1>4

----------------------------------------------------------------------------
(* Streams: a writer and a reader joined by a flow.                         *)

(* The writer from and the reader to, joined by a flow d: of what was       *)
(* written, to.input and w have not been read; of what was said, q is       *)
(* pending.                                                                 *)
Stream(d, rk, from, to, w, q, broken) ==
    /\ d \in Flows /\ Runs(d, rk) /\ Bounds(d)
    /\ Starts(d, to) /\ Finishing(d, from)
    /\ Carries(d, to.input \o w, q, broken)

(* The types of a flow's fields.                                            *)
LEMMA FlowTypes ==
    ASSUME NEW d \in Flows
    PROVE  /\ d.read \in Nat /\ d.came \in Nat /\ d.wrote \in Nat
           /\ d.told \in Nat /\ d.due \in Nat /\ d.said \in Nat
           /\ \A i \in Nat : d.sym[i] \in Wires /\ d.item[i] \in Items /\ d.place[i] \in Places
           /\ \A i \in Nat : d.place[i].at \in Nat
  BY DEF Flows, Places

(* A writer leaves its reader at most the items it has said.                *)
LEMMA FinishingAt ==
    ASSUME NEW d \in Flows, NEW e, Finishing(d, e)
    PROVE  d.place[d.wrote + 1].at <= d.said
  <1>1. d.said \in Nat /\ d.wrote + 1 \in Nat
    BY FlowTypes
  <1>2. \/ d.place[d.wrote + 1] = WriterPlace(e.cycle.writer, d.said)
        \/ d.place[d.wrote + 1] = Place("Switched", 0, d.said)
        \/ d.place[d.wrote + 1] = Place("Head", 0, d.said)
        \/ d.place[d.wrote + 1] = Place("CloseDelimited", 0, d.said - 1)
    BY DEF Finishing
  <1>3. \/ d.place[d.wrote + 1].at = d.said
        \/ d.place[d.wrote + 1].at = d.said - 1
    BY <1>2 DEF WriterPlace, Place
  <1> QED BY <1>1, <1>3

(* The same flow with other marks.                                          *)
Marked(d, read, came, told, due) ==
    [d EXCEPT !.read = read, !.came = came, !.told = told, !.due = due]

(* The same flow with other marks: symbols, places and items stay.          *)
SameFlow(d, d2) ==
    /\ d2 \in Flows /\ d2.sym = d.sym /\ d2.place = d.place /\ d2.item = d.item
    /\ d2.wrote = d.wrote /\ d2.said = d.said

(* Any marks may be put on a flow.                                          *)
LEMMA Remarked ==
    ASSUME NEW d \in Flows, NEW read \in Nat, NEW came \in Nat, NEW told \in Nat, NEW due \in Nat
    PROVE  \E d2 : /\ SameFlow(d, d2)
                   /\ d2.read = read /\ d2.came = came /\ d2.told = told /\ d2.due = due
  <1>1. PICK d2 : d2 = Marked(d, read, came, told, due)
    OBVIOUS
  <1>2. /\ SameFlow(d, d2)
        /\ d2.read = read /\ d2.came = came /\ d2.told = told /\ d2.due = due
    BY <1>1 DEF Flows, Marked, SameFlow
  <1> QED BY <1>2

(* Where the writer ends and what is told do not depend on the reader's     *)
(* marks.                                                                   *)
LEMMA SameFlowKeeps ==
    ASSUME NEW d \in Flows, NEW d2, SameFlow(d, d2)
    PROVE  /\ \A e : Finishing(d, e) => Finishing(d2, e)
           /\ \A i, x : Tells(d, i, x) <=> Tells(d2, i, x)
           /\ \A rk : d.read <= d2.read /\ Runs(d, rk) => Runs(d2, rk)
           /\ \A x : d2.read = d.read /\ d2.told = d.told /\ Starts(d, x) => Starts(d2, x)
  <1>1. \A i, x : Tells(d, i, x) <=> Tells(d2, i, x)
    BY DEF SameFlow, Tells
  <1>2. ASSUME NEW e, Finishing(d, e) PROVE Finishing(d2, e)
    BY <1>1, <1>2 DEF SameFlow, Finishing
  <1>3. ASSUME NEW rk, d.read <= d2.read, Runs(d, rk) PROVE Runs(d2, rk)
    <2>1. /\ d.read \in Nat /\ d2.read \in Nat /\ d.wrote \in Nat /\ d2.wrote = d.wrote
          /\ d2.place = d.place /\ d2.sym = d.sym
      BY FlowTypes DEF SameFlow
    <2>2. ASSUME NEW i \in (d2.read + 1)..d2.wrote
          PROVE  Passes(d2, rk, d2.place[i], d2.sym[i], d2.place[i + 1])
      <3>1. i \in (d.read + 1)..d.wrote
        BY <1>3, <2>1
      <3>2. Passes(d, rk, d.place[i], d.sym[i], d.place[i + 1])
        BY <1>3, <3>1 DEF Runs
      <3>3. \A q, x, z : Passes(d, rk, q, x, z) => Passes(d2, rk, q, x, z)
        BY <1>1 DEF Passes, PassesHead, PassesByte, PassesLine, Enters
      <3> QED BY <2>1, <3>2, <3>3
    <2>3. ASSUME NEW i \in (d2.read + 1)..(d2.wrote + 1), NEW j \in (d2.read + 1)..(d2.wrote + 1), i <= j
          PROVE  d2.place[i].at <= d2.place[j].at
      <3>1. i \in (d.read + 1)..(d.wrote + 1) /\ j \in (d.read + 1)..(d.wrote + 1)
        BY <1>3, <2>1
      <3>2. d.place[i].at <= d.place[j].at
        BY <1>3, <2>3, <3>1 DEF Runs
      <3> QED BY <2>1, <3>2
    <2> QED BY <2>2, <2>3 DEF Runs
  <1>4. ASSUME NEW x, d2.read = d.read, d2.told = d.told, Starts(d, x) PROVE Starts(d2, x)
    BY <1>1, <1>4 DEF SameFlow, Starts
  <1> QED BY <1>1, <1>2, <1>3, <1>4

(* A flow that grows leaves its reader where it stands.                     *)
LEMMA GrownStarts ==
    ASSUME NEW d \in Flows, NEW d2, NEW g \in Seq(Wires), NEW r \in Seq(Items), Grown(d, d2, g, r),
           d.read <= d.wrote, NEW x, Starts(d, x)
    PROVE  Starts(d2, x)
  <1>1. d.read + 1 \in 1..(d.wrote + 1) /\ Len(r) \in Nat /\ Len(g) \in Nat
    BY FlowTypes, LenProperties
  <1>2. d2.place[d2.read + 1] = d.place[d.read + 1] /\ d2.told = d.told
    BY <1>1 DEF Grown
  <1>3. \A i, y : Tells(d, i, y) => Tells(d2, i, y)
    <2> TAKE i, y
    <2> HAVE Tells(d, i, y)
    <2>1. i \in 1..d.said /\ d.item[i] = y
      BY DEF Tells
    <2>2. i \in 1..d2.said
      BY <1>1, <2>1, FlowTypes DEF Grown
    <2>3. d2.item[i] = y
      BY <2>1 DEF Grown
    <2> QED BY <2>2, <2>3 DEF Tells
  <1> QED BY <1>2, <1>3 DEF Starts

(* t is what f holds after o.                                               *)
Follows(t, f, o) == \A i \in 1..Len(t) : t[i] = f[o + i]

(* Two parts of what f holds, one after the other.                          *)
LEMMA FollowsJoin ==
    ASSUME NEW X, NEW t \in Seq(X), NEW g \in Seq(X), NEW f, NEW o \in Nat, NEW o2,
           Follows(t, f, o), Follows(g, f, o2), o2 = o + Len(t)
    PROVE  Len(t \o g) = Len(t) + Len(g) /\ Follows(t \o g, f, o)
  <1> DEFINE u == t \o g
  <1>1. Len(t) \in Nat /\ Len(g) \in Nat
    BY LenProperties
  <1>2. /\ Len(u) = Len(t) + Len(g)
        /\ \A i \in 1..(Len(t) + Len(g)) : u[i] = IF i <= Len(t) THEN t[i] ELSE g[i - Len(t)]
    BY ConcatProperties
  <1> HIDE DEF u
  <1>3. ASSUME NEW i \in 1..Len(u) PROVE u[i] = f[o + i]
    <2>1. CASE i <= Len(t)
      <3>1. i \in 1..Len(t)
        BY <1>1, <1>2, <2>1
      <3>2. u[i] = t[i] /\ t[i] = f[o + i]
        BY <1>2, <2>1, <3>1 DEF Follows
      <3> QED BY <3>2
    <2>2. CASE i > Len(t)
      <3> DEFINE k == i - Len(t)
      <3>1. k \in 1..Len(g) /\ o + i = o2 + k
        BY <1>1, <1>2, <2>2
      <3>2. u[i] = g[k]
        BY <1>1, <1>2, <2>2
      <3> HIDE DEF k
      <3>3. g[k] = f[o2 + k]
        BY <3>1 DEF Follows
      <3> QED BY <3>1, <3>2, <3>3
    <2> QED BY <1>1, <1>2, <2>1, <2>2
  <1> QED BY <1>2, <1>3 DEF u, Follows

(* Joining symbols to an input is associative.                              *)
LEMMA JoinAssoc ==
    ASSUME NEW X, NEW b \in Seq(X), NEW c \in Seq(X), NEW to, to.input \in Seq(X)
    PROVE  to.input \o (b \o c) = (to.input \o b) \o c
  <1>1. PICK a : a = to.input
    OBVIOUS
  <1>2. a \in Seq(X)
    BY <1>1
  <1>3. a \o (b \o c) = (a \o b) \o c
    BY <1>2, ConcatAssociative
  <1> QED BY <1>1, <1>3

(* Carries, in the form in which parts of a sequence can be joined.         *)
LEMMA CarriesFollows ==
    ASSUME NEW d, NEW t, NEW q, NEW broken
    PROVE  Carries(d, t, q, broken) <=>
              /\ Len(t) = d.came - d.read /\ Follows(t, d.sym, d.read)
              /\ Len(q) = d.due - d.told /\ Follows(q, d.item, d.told)
              /\ ~broken => d.came = d.wrote /\ d.due = d.said
  BY DEF Carries, Follows

(* A part of what f holds, where f2 holds the same.                         *)
LEMMA FollowsSame ==
    ASSUME NEW t, Len(t) \in Nat, NEW f, NEW f2, NEW o \in Nat, NEW m \in Nat, o + Len(t) <= m,
           \A i \in 1..m : f2[i] = f[i], Follows(t, f, o)
    PROVE  Follows(t, f2, o)
  <1> SUFFICES ASSUME NEW i \in 1..Len(t) PROVE t[i] = f2[o + i]
    BY DEF Follows
  <1>1. o + i \in 1..m
    OBVIOUS
  <1>2. t[i] = f[o + i]
    BY DEF Follows
  <1> QED BY <1>1, <1>2

(* The difference of two numbers, added back.                               *)
LEMMA DifferenceAdds ==
    ASSUME NEW y \in Nat, NEW z \in Nat, NEW n, n = y - z
    PROVE  z + n = y
  OBVIOUS

(* What r adds where it is not lost.                                        *)
Added(q, r, broken) == IF broken THEN q ELSE q \o r

(* A stream whose writer writes g and says r is a stream again; what a cut  *)
(* takes is written and does not come.                                      *)
LEMMA StreamWrites ==
    ASSUME NEW d, NEW rk, NEW from, NEW from2, NEW to, NEW w \in Seq(Wires), NEW q \in Seq(Items), NEW broken,
           to.input \in Seq(Wires), Stream(d, rk, from, to, w, q, broken),
           NEW g \in Seq(Wires), NEW r \in Seq(Items), Writes(rk, from, from2, g, r)
    PROVE  \E d2 : /\ Grown(d, d2, g, r)
                   /\ Stream(d2, rk, from2, to, Added(w, g, broken), Added(q, r, broken), broken)
  <1> DEFINE t == to.input \o w
  <1>1. /\ d \in Flows /\ Runs(d, rk) /\ Bounds(d) /\ Starts(d, to) /\ Finishing(d, from)
        /\ Carries(d, t, q, broken)
    BY DEF Stream
  <1>2. /\ d.read \in Nat /\ d.came \in Nat /\ d.wrote \in Nat
        /\ d.told \in Nat /\ d.due \in Nat /\ d.said \in Nat
        /\ Len(g) \in Nat /\ Len(r) \in Nat
    BY <1>1, FlowTypes, LenProperties
  <1>3. /\ d.read <= d.came /\ d.came <= d.wrote /\ d.told <= d.due /\ d.due <= d.said
        /\ d.place[d.came + 1].at <= d.due
    BY <1>1 DEF Bounds
  <1>31. d.read <= d.came /\ d.came <= d.wrote /\ d.told <= d.due /\ d.due <= d.said
    BY <1>3
  <1>4. d.read <= d.wrote
    BY <1>2, <1>3
  <1>5. PICK d1 : Grown(d, d1, g, r) /\ Runs(d1, rk) /\ Finishing(d1, from2) /\ d1.read <= d1.wrote
    BY <1>1, <1>4 DEF Writes
  <1>6. /\ d1 \in Flows /\ d1.read = d.read /\ d1.told = d.told
        /\ d1.wrote = d.wrote + Len(g) /\ d1.said = d.said + Len(r)
        /\ \A i \in 1..d.wrote : d1.sym[i] = d.sym[i]
        /\ \A i \in 1..(d.wrote + 1) : d1.place[i] = d.place[i]
        /\ \A i \in 1..d.said : d1.item[i] = d.item[i]
        /\ \A i \in 1..Len(g) : d1.sym[d.wrote + i] = g[i]
        /\ \A i \in 1..Len(r) : d1.item[d.said + i] = r[i]
    BY <1>5 DEF Grown
  <1>61. /\ d1 \in Flows /\ d1.read = d.read /\ d1.told = d.told
         /\ d1.wrote = d.wrote + Len(g) /\ d1.said = d.said + Len(r)
    BY <1>6
  <1>7. PICK came : came = IF broken THEN d.came ELSE d1.wrote
    OBVIOUS
  <1>8. PICK due : due = IF broken THEN d.due ELSE d1.said
    OBVIOUS
  <1>9. came \in Nat /\ due \in Nat /\ d1.read \in Nat /\ d1.told \in Nat
    BY <1>2, <1>6, <1>7, <1>8
  <1>10. PICK d2 : d2 = Marked(d1, d1.read, came, d1.told, due)
    OBVIOUS
  <1>101. SameFlow(d1, d2) /\ d2.read = d1.read /\ d2.came = came /\ d2.told = d1.told /\ d2.due = due
    BY <1>61, <1>9, <1>10 DEF Flows, Marked, SameFlow
  <1>11. SameFlow(d1, d2) /\ d2.read = d.read /\ d2.came = came /\ d2.told = d.told /\ d2.due = due
    BY <1>101, <1>61
  <1>12. /\ d2 \in Flows /\ d2.sym = d1.sym /\ d2.place = d1.place /\ d2.item = d1.item
         /\ d2.wrote = d1.wrote /\ d2.said = d1.said
    BY <1>11 DEF SameFlow
  <1>13. Grown(d, d2, g, r)
    BY <1>6, <1>11, <1>12 DEF Grown
  <1>14. Starts(d2, to)
    BY <1>1, <1>4, <1>13, GrownStarts
  <1>15. Runs(d2, rk)
    <2>1. d1.read <= d2.read
      BY <1>6, <1>9, <1>11
    <2> QED BY <2>1, <1>5, <1>6, <1>11, SameFlowKeeps
  <1>16. Finishing(d2, from2)
    BY <1>5, <1>6, <1>11, SameFlowKeeps
  <1>17. Bounds(d2)
    <2>1. d2.read <= d2.came /\ d2.came <= d2.wrote /\ d2.told <= d2.due /\ d2.due <= d2.said
      <3>1. /\ d2.read = d.read /\ d2.told = d.told /\ d2.wrote = d.wrote + Len(g) /\ d2.said = d.said + Len(r)
            /\ d2.came = came /\ d2.due = due
        BY <1>61, <1>11, <1>12
      <3>2. came \in {d.came, d.wrote + Len(g)} /\ due \in {d.due, d.said + Len(r)}
        BY <1>7, <1>8, <1>61
      <3>3. d.read <= d.wrote + Len(g) /\ d.came <= d.wrote + Len(g)
        BY <1>2, <1>31
      <3>4. d.told <= d.said + Len(r) /\ d.due <= d.said + Len(r)
        BY <1>2, <1>31
      <3>5. CASE broken
        BY <3>1, <3>3, <3>4, <3>5, <1>7, <1>8, <1>31
      <3>6. CASE ~broken
        BY <3>1, <3>3, <3>4, <3>6, <1>2, <1>7, <1>8, <1>61
      <3> QED BY <3>5, <3>6
    <2>2. d2.place[d2.came + 1].at <= d2.due
      <3>1. CASE broken
        <4>1. d.came + 1 \in 1..(d.wrote + 1)
          BY <1>2, <1>3
        <4>2. d2.place[d.came + 1] = d.place[d.came + 1]
          BY <4>1, <1>6, <1>12
        <4> QED BY <3>1, <4>2, <1>3, <1>7, <1>8, <1>11
      <3>2. CASE ~broken
        <4>1. d2.place[d2.wrote + 1].at <= d2.said
          BY <1>12, <1>16, FinishingAt
        <4> QED BY <3>2, <4>1, <1>7, <1>8, <1>11, <1>12
      <3> QED BY <3>1, <3>2
    <2> QED BY <2>1, <2>2 DEF Bounds
  <1>18. /\ t \in Seq(Wires) /\ Len(t) \in Nat /\ Len(q) \in Nat
         /\ Len(t) = d.came - d.read /\ Follows(t, d.sym, d.read)
         /\ Len(q) = d.due - d.told /\ Follows(q, d.item, d.told)
         /\ ~broken => d.came = d.wrote /\ d.due = d.said
    BY <1>1, CarriesFollows, ConcatProperties, LenProperties
  <1>19. to.input \o Added(w, g, broken) = Added(t, g, broken)
    <2>1. PICK x : x = to.input
      OBVIOUS
    <2>2. x \in Seq(Wires)
      BY <2>1
    <2>3. x \o (w \o g) = (x \o w) \o g
      BY <2>2, ConcatAssociative
    <2>4. to.input \o (w \o g) = t \o g
      BY <2>1, <2>3
    <2> QED BY <2>4 DEF Added
  <1> HIDE DEF t
  <1>181. /\ Len(t) \in Nat /\ Len(q) \in Nat /\ Len(t) = d.came - d.read /\ Len(q) = d.due - d.told
    BY <1>18
  <1>20. Follows(t, d2.sym, d.read) /\ Follows(q, d2.item, d.told)
    <2>1. d.read + Len(t) <= d.wrote /\ d.told + Len(q) <= d.said
      <3>1. d.read + Len(t) = d.came
        BY <1>2, <1>181, DifferenceAdds
      <3>2. d.told + Len(q) = d.due
        BY <1>2, <1>181, DifferenceAdds
      <3> QED BY <3>1, <3>2, <1>31
    <2>2. \A i \in 1..d.wrote : d2.sym[i] = d.sym[i]
      <3>1. \A i \in 1..d.wrote : d1.sym[i] = d.sym[i]
        BY <1>6
      <3>2. d2.sym = d1.sym
        BY <1>12
      <3> QED BY <3>1, <3>2, Zenon
    <2>3. \A i \in 1..d.said : d2.item[i] = d.item[i]
      <3>1. \A i \in 1..d.said : d1.item[i] = d.item[i]
        BY <1>6
      <3>2. d2.item = d1.item
        BY <1>12
      <3> QED BY <3>1, <3>2, Zenon
    <2>4. Follows(t, d2.sym, d.read)
      BY <1>2, <1>18, <2>1, <2>2, FollowsSame
    <2> QED BY <1>2, <1>18, <2>1, <2>3, <2>4, FollowsSame
  <1>21. Carries(d2, Added(t, g, broken), Added(q, r, broken), broken)
    <2>1. CASE broken
      BY <2>1, <1>7, <1>8, <1>11, <1>18, <1>20, CarriesFollows DEF Added
    <2>2. CASE ~broken
      <3>1. Follows(g, d2.sym, d.wrote) /\ Follows(r, d2.item, d.said)
        BY <1>6, <1>12 DEF Follows
      <3>2. d.wrote = d.read + Len(t) /\ d.said = d.told + Len(q)
        BY <2>2, <1>2, <1>18
      <3>3. PICK tg : tg = t \o g
        OBVIOUS
      <3>4. PICK qr : qr = q \o r
        OBVIOUS
      <3>5. Len(tg) = Len(t) + Len(g) /\ Follows(tg, d2.sym, d.read)
        BY <3>1, <3>2, <3>3, <1>2, <1>18, <1>20, FollowsJoin
      <3>6. Len(qr) = Len(q) + Len(r) /\ Follows(qr, d2.item, d.told)
        BY <3>1, <3>2, <3>4, <1>2, <1>18, <1>20, FollowsJoin
      <3>7. d2.came = d2.wrote /\ d2.due = d2.said
        BY <2>2, <1>7, <1>8, <1>11, <1>12
      <3>8. /\ d2.read = d.read /\ d2.told = d.told /\ d2.wrote = d.wrote + Len(g) /\ d2.said = d.said + Len(r)
        BY <1>61, <1>11, <1>12
      <3>9. d.wrote + Len(g) - d.read = Len(t) + Len(g)
        BY <3>2, <1>2, <1>181
      <3>10. d.said + Len(r) - d.told = Len(q) + Len(r)
        BY <3>2, <1>2, <1>181
      <3>11. Len(tg) = d2.came - d2.read
        BY <3>5, <3>7, <3>8, <3>9, <1>2, <1>181
      <3>12. Len(qr) = d2.due - d2.told
        BY <3>6, <3>7, <3>8, <3>10, <1>2, <1>181
      <3>13. Carries(d2, tg, qr, broken)
        BY <3>5, <3>6, <3>7, <3>8, <3>11, <3>12, CarriesFollows
      <3> QED BY <2>2, <3>3, <3>4, <3>13 DEF Added
    <2> QED BY <2>1, <2>2
  <1> QED BY <1>12, <1>13, <1>14, <1>15, <1>16, <1>17, <1>19, <1>21 DEF Stream

(* The reader stands where it stood, the writer has said what it had.       *)
SameStart(x, x2) ==
    /\ x2.role = x.role
    /\ \/ peer_state(x2) = peer_state(x) /\ x2.cycle.reader = x.cycle.reader
       \/ peer_state(x) # "SendBody" /\ peer_state(x2) # "SendBody"

(* The writer left its reader where it leaves it now.                       *)
SameFinish(e, e2) ==
    /\ e2.role = e.role
    /\ \/ local_state(e2) = local_state(e) /\ e2.cycle.writer = e.cycle.writer
       \/ /\ local_state(e) # "SendBody" /\ local_state(e2) # "SendBody"
          /\ e.role = "server" => /\ local_state(e) # "SwitchedProtocol" /\ local_state(e2) # "SwitchedProtocol"
                                  /\ e.st.server \in {"MustClose", "Closed"} => e2.st.server \in {"MustClose", "Closed"}

(* A reader that stands where it stood has the same stream.                 *)
LEMMA StreamReader ==
    ASSUME NEW d, NEW rk, NEW from, NEW to, NEW to2, NEW w, NEW q, NEW broken,
           Stream(d, rk, from, to, w, q, broken), SameStart(to, to2), to2.input = to.input
    PROVE  Stream(d, rk, from, to2, w, q, broken)
  <1>1. Starts(d, to2)
    BY DEF Stream, SameStart, Starts
  <1> QED BY <1>1 DEF Stream

(* A writer that has written nothing more has the same stream.              *)
LEMMA StreamWriter ==
    ASSUME NEW d, NEW rk, NEW from, NEW from2, NEW to, NEW w, NEW q, NEW broken,
           Stream(d, rk, from, to, w, q, broken), SameFinish(from, from2)
    PROVE  Stream(d, rk, from2, to, w, q, broken)
  <1>1. from2.role = from.role
    BY DEF SameFinish
  <1>2. CASE local_state(from2) = local_state(from) /\ from2.cycle.writer = from.cycle.writer
    <2>1. from.role = "server" => from2.st.server = from.st.server
      BY <1>1, <1>2 DEF local_state, state
    <2>2. Finishing(d, from2)
      BY <1>1, <1>2, <2>1 DEF Stream, Finishing
    <2> QED BY <2>2 DEF Stream
  <1>3. CASE ~(local_state(from2) = local_state(from) /\ from2.cycle.writer = from.cycle.writer)
    <2>1. /\ local_state(from) # "SendBody" /\ local_state(from2) # "SendBody"
          /\ from.role = "server" =>
                /\ local_state(from) # "SwitchedProtocol" /\ local_state(from2) # "SwitchedProtocol"
                /\ from.st.server \in {"MustClose", "Closed"} => from2.st.server \in {"MustClose", "Closed"}
      BY <1>3 DEF SameFinish
    <2>2. Finishing(d, from2)
      BY <1>1, <2>1 DEF Stream, Finishing
    <2> QED BY <2>2 DEF Stream
  <1> QED BY <1>2, <1>3

(* Bytes that were under way are in the reader's buffer.                    *)
LEMMA StreamDelivered ==
    ASSUME NEW d, NEW rk, NEW from, NEW to, NEW to2, NEW w \in Seq(Wires), NEW q, NEW broken,
           to.input \in Seq(Wires), Stream(d, rk, from, to, w, q, broken), SameStart(to, to2),
           to2.input = to.input \o w
    PROVE  Stream(d, rk, from, to2, <<>>, q, broken)
  <1>1. Starts(d, to2)
    BY DEF Stream, SameStart, Starts
  <1>2. PICK x : x = to.input
    OBVIOUS
  <1>3. x \in Seq(Wires)
    BY <1>2
  <1>4. x \o w \in Seq(Wires)
    BY <1>3, ConcatProperties
  <1>5. (x \o w) \o <<>> = x \o w
    BY <1>4, EmptyJoins
  <1>6. to2.input \o <<>> = to.input \o w
    BY <1>2, <1>5
  <1> QED BY <1>1, <1>6 DEF Stream

(* A flow of which nothing is unread is a flow for any request.             *)
LEMMA StreamAnew ==
    ASSUME NEW d, NEW rk, NEW from, NEW to, NEW w, NEW q, NEW broken,
           Stream(d, rk, from, to, w, q, broken), d.read = d.wrote, NEW rk2
    PROVE  Stream(d, rk2, from, to, w, q, broken)
  <1>1. d \in Flows /\ d.read \in Nat /\ d.wrote \in Nat
    BY FlowTypes DEF Stream
  <1>2. \A i \in (d.read + 1)..d.wrote : FALSE
    BY <1>1
  <1>3. Runs(d, rk2)
    BY <1>2 DEF Runs, Stream
  <1> QED BY <1>3 DEF Stream

(* Of what is under way some is lost.                                       *)
LEMMA StreamCut ==
    ASSUME NEW d, NEW rk, NEW from, NEW to, NEW w \in Seq(Wires), NEW q, NEW broken, NEW broken2,
           to.input \in Seq(Wires), Stream(d, rk, from, to, w, q, broken), broken2,
           NEW n \in 0..Len(w)
    PROVE  \E d2 : SameFlow(d, d2) /\ d2.read = d.read /\ Stream(d2, rk, from, to, Prefix(w, n), q, broken2)
  <1>1. PICK x : x = to.input
    OBVIOUS
  <1>2. PICK v : v = Prefix(w, n)
    OBVIOUS
  <1>3. x \in Seq(Wires) /\ Len(w) \in Nat /\ n \in Nat /\ n <= Len(w) /\ Len(x) \in Nat
    BY <1>1, LenProperties
  <1>4. v \in Seq(Wires) /\ Len(v) = n /\ \A i \in 1..n : v[i] = w[i]
    <2>1. v = SubSeq(w, 1, n)
      BY <1>2, <1>3 DEF Prefix
    <2> QED BY <1>3, <2>1, SubSeqProperties
  <1>5. /\ d \in Flows /\ Runs(d, rk) /\ Bounds(d) /\ Starts(d, to) /\ Finishing(d, from)
        /\ Carries(d, x \o w, q, broken)
    BY <1>1 DEF Stream
  <1>6. /\ d.read \in Nat /\ d.came \in Nat /\ d.wrote \in Nat
        /\ d.told \in Nat /\ d.due \in Nat /\ d.said \in Nat
    BY <1>5, FlowTypes
  <1>7. /\ Len(x \o w) = Len(x) + Len(w)
        /\ \A i \in 1..(Len(x) + Len(w)) : (x \o w)[i] = IF i <= Len(x) THEN x[i] ELSE w[i - Len(x)]
    BY <1>3, ConcatProperties
  <1>8. /\ Len(x \o v) = Len(x) + n
        /\ \A i \in 1..(Len(x) + n) : (x \o v)[i] = IF i <= Len(x) THEN x[i] ELSE v[i - Len(x)]
    BY <1>3, <1>4, ConcatProperties
  <1>9. PICK a : a = x \o w
    OBVIOUS
  <1>10. PICK b : b = x \o v
    OBVIOUS
  <1>11. \A i \in 1..(Len(x) + n) : b[i] = a[i]
    <2> TAKE i \in 1..(Len(x) + n)
    <2>1. i \in 1..(Len(x) + Len(w))
      BY <1>3
    <2>2. CASE i <= Len(x)
      BY <1>7, <1>8, <1>9, <1>10, <2>1, <2>2
    <2>3. CASE i > Len(x)
      <3>1. i - Len(x) \in 1..n
        BY <1>3, <2>3
      <3>2. v[i - Len(x)] = w[i - Len(x)]
        BY <1>4, <3>1
      <3> QED BY <1>3, <1>7, <1>8, <1>9, <1>10, <2>1, <2>3, <3>2
    <2> QED BY <1>3, <2>2, <2>3
  <1>12. Len(a) = Len(x) + Len(w) /\ Len(b) = Len(x) + n
    BY <1>7, <1>8, <1>9, <1>10
  <1>13. /\ Len(a) = d.came - d.read /\ \A i \in 1..Len(a) : a[i] = d.sym[d.read + i]
         /\ Len(q) = d.due - d.told /\ \A i \in 1..Len(q) : q[i] = d.item[d.told + i]
    BY <1>5, <1>9 DEF Carries
  <1>14. PICK came : came = d.read + Len(x) + n
    OBVIOUS
  <1>15. /\ came \in Nat /\ d.read <= came /\ came <= d.came /\ Len(b) = came - d.read
         /\ d.came <= d.wrote
    <2>1. Len(x) + Len(w) = d.came - d.read /\ d.came <= d.wrote
      BY <1>5, <1>12, <1>13 DEF Bounds
    <2>2. Len(b) = Len(x) + n
      BY <1>12
    <2>3. came \in Nat /\ d.read <= came /\ came <= d.came
      <3>1. d.read + (Len(x) + Len(w)) = d.came
        BY <2>1, <1>3, <1>6
      <3>2. d.read + Len(x) + n <= d.read + (Len(x) + Len(w))
        BY <1>3, <1>6
      <3>3. d.read + Len(x) + n \in Nat /\ d.read <= d.read + Len(x) + n
        BY <1>3, <1>6
      <3> QED BY <3>1, <3>2, <3>3, <1>14
    <2>4. came - d.read = Len(x) + n
      BY <1>3, <1>6, <1>14
    <2> QED BY <2>1, <2>2, <2>3, <2>4
  <1>16. PICK d2 : d2 = Marked(d, d.read, came, d.told, d.due)
    OBVIOUS
  <1>17. SameFlow(d, d2) /\ d2.read = d.read /\ d2.came = came /\ d2.told = d.told /\ d2.due = d.due
    BY <1>5, <1>6, <1>15, <1>16 DEF Flows, Marked, SameFlow
  <1>18. Runs(d2, rk) /\ Starts(d2, to) /\ Finishing(d2, from)
    <2>1. d.read <= d2.read
      BY <1>6, <1>17
    <2> QED BY <1>5, <1>17, <2>1, SameFlowKeeps
  <1>19. Bounds(d2)
    <2>1. /\ d2.read <= d2.came /\ d2.came <= d2.wrote
          /\ d2.told <= d2.due /\ d2.due <= d2.said
      BY <1>5, <1>6, <1>15, <1>17 DEF SameFlow, Bounds
    <2>2. d2.place[d2.came + 1].at <= d2.due
      <3>1. /\ came + 1 \in (d.read + 1)..(d.wrote + 1) /\ d.came + 1 \in (d.read + 1)..(d.wrote + 1)
            /\ came + 1 <= d.came + 1
        <4>1. came \in Nat /\ d.read <= came /\ came <= d.came /\ d.came <= d.wrote
          BY <1>15
        <4> QED BY <1>6, <4>1, SMTT(60)
      <3>2. d.place[came + 1].at <= d.place[d.came + 1].at
        BY <1>5, <3>1 DEF Runs
      <3>3. d.place[d.came + 1].at <= d.due
        BY <1>5 DEF Bounds
      <3>4. d.place[came + 1].at \in Nat /\ d.place[d.came + 1].at \in Nat
        BY <1>5, <1>6, <1>15, FlowTypes, SMTT(60)
      <3> QED BY <1>6, <1>17, <3>2, <3>3, <3>4 DEF SameFlow
    <2> QED BY <2>1, <2>2 DEF Bounds
  <1>20. Carries(d2, b, q, broken2)
    <2>1. /\ d2.sym = d.sym /\ d2.item = d.item /\ d2.read = d.read /\ d2.told = d.told
          /\ d2.came = came /\ d2.due = d.due
      BY <1>17 DEF SameFlow
    <2>2. Len(b) = d2.came - d2.read /\ Len(q) = d2.due - d2.told
      BY <2>1, <1>13, <1>15
    <2>3. \A i \in 1..Len(b) : b[i] = d2.sym[d2.read + i]
      <3> TAKE i \in 1..Len(b)
      <3>1. i \in 1..(Len(x) + n) /\ i \in 1..Len(a)
        BY <1>3, <1>12
      <3> QED BY <1>11, <1>13, <2>1, <3>1
    <2>4. \A i \in 1..Len(q) : q[i] = d2.item[d2.told + i]
      BY <1>13, <2>1
    <2> QED BY <2>2, <2>3, <2>4 DEF Carries
  <1>21. Carries(d2, to.input \o Prefix(w, n), q, broken2)
    BY <1>1, <1>2, <1>10, <1>20
  <1>22. Stream(d2, rk, from, to, Prefix(w, n), q, broken2)
    BY <1>17, <1>18, <1>19, <1>21 DEF Stream, SameFlow
  <1> QED BY <1>17, <1>22

(* A part of what f holds, split in two.                                    *)
LEMMA FollowsSplit ==
    ASSUME NEW X, NEW t \in Seq(X), NEW g \in Seq(X), NEW f, NEW o \in Nat, Follows(t \o g, f, o)
    PROVE  /\ Len(t \o g) = Len(t) + Len(g)
           /\ Follows(t, f, o) /\ \A o2 : o2 = o + Len(t) => Follows(g, f, o2)
  <1>1. PICK u : u = t \o g
    OBVIOUS
  <1>2. Len(t) \in Nat /\ Len(g) \in Nat
    BY LenProperties
  <1>3. /\ Len(u) = Len(t) + Len(g)
        /\ \A i \in 1..(Len(t) + Len(g)) : u[i] = IF i <= Len(t) THEN t[i] ELSE g[i - Len(t)]
    BY <1>1, ConcatProperties
  <1>4. \A i \in 1..Len(u) : u[i] = f[o + i]
    BY <1>1 DEF Follows
  <1>5. Follows(t, f, o)
    <2> SUFFICES ASSUME NEW i \in 1..Len(t) PROVE t[i] = f[o + i]
      BY DEF Follows
    <2>1. i \in 1..Len(u) /\ i <= Len(t) /\ i \in 1..(Len(t) + Len(g))
      BY <1>2, <1>3
    <2> QED BY <1>3, <1>4, <2>1
  <1>6. ASSUME NEW o2, o2 = o + Len(t) PROVE Follows(g, f, o2)
    <2> SUFFICES ASSUME NEW i \in 1..Len(g) PROVE g[i] = f[o2 + i]
      BY DEF Follows
    <2>1. PICK k : k = Len(t) + i
      OBVIOUS
    <2>2. /\ k \in 1..Len(u) /\ k \in 1..(Len(t) + Len(g)) /\ ~(k <= Len(t)) /\ k - Len(t) = i /\ o + k = o2 + i
      BY <1>2, <1>3, <1>6, <2>1
    <2>3. u[k] = g[i] /\ u[k] = f[o + k]
      BY <1>3, <1>4, <2>2
    <2> QED BY <2>2, <2>3
  <1> QED BY <1>1, <1>3, <1>5, <1>6

(* Where x stands when it has read up to o and told n items.                *)
StartsAt(d, o, n, x) == IF peer_state(x) = "SendBody" THEN Stands(d, o + 1, x.cycle.reader, n)
                        ELSE d.place[o + 1] = Place("Head", 0, n)

(* The reader to goes on to o, as to2, and tells n items more.              *)
GoesOn(d, to, to2, o, n) ==
    /\ o \in d.read..(d.read + Len(to.input)) /\ Reading(d, o, to2.input, d.read + Len(to.input))
    /\ n \in Nat /\ StartsAt(d, o, d.told + n, to2)
    /\ to.input \in Seq(Wires) /\ to2.input \in Seq(Wires)

(* A reader that goes on to o and tells n items tells the ones that are     *)
(* pending, and has a stream again.                                         *)
LEMMA StreamSkips ==
    ASSUME NEW d, NEW rk, NEW from, NEW to, NEW to2, NEW w \in Seq(Wires), NEW q \in Seq(Items), NEW broken,
           Stream(d, rk, from, to, w, q, broken), NEW o, NEW n, GoesOn(d, to, to2, o, n)
    PROVE  /\ n <= Len(q) /\ \A i \in 1..n : q[i] = d.item[d.told + i]
           /\ \E d2 : /\ SameFlow(d, d2) /\ d2.read = o /\ d2.told = d.told + n
                      /\ Stream(d2, rk, from, to2, w, Skip(q, n), broken)
  <1>1. PICK x : x = to.input
    OBVIOUS
  <1>2. PICK y : y = to2.input
    OBVIOUS
  <1>3. x \in Seq(Wires) /\ y \in Seq(Wires) /\ Len(x) \in Nat /\ Len(y) \in Nat /\ Len(w) \in Nat /\ Len(q) \in Nat
    <2>1. x \in Seq(Wires) /\ y \in Seq(Wires)
      BY <1>1, <1>2 DEF GoesOn
    <2> QED BY <2>1, LenProperties
  <1>4. /\ d \in Flows /\ Runs(d, rk) /\ Bounds(d) /\ Finishing(d, from) /\ Carries(d, x \o w, q, broken)
    BY <1>1 DEF Stream
  <1>5. /\ d.read \in Nat /\ d.came \in Nat /\ d.wrote \in Nat
        /\ d.told \in Nat /\ d.due \in Nat /\ d.said \in Nat
    BY <1>4, FlowTypes
  <1>6. d.read <= d.came /\ d.came <= d.wrote /\ d.told <= d.due /\ d.due <= d.said
    BY <1>4 DEF Bounds
  <1>7. /\ Len(x \o w) = d.came - d.read /\ Follows(x \o w, d.sym, d.read)
        /\ Len(q) = d.due - d.told /\ Follows(q, d.item, d.told)
        /\ ~broken => d.came = d.wrote /\ d.due = d.said
    BY <1>4, CarriesFollows
  <1>71. PICK e : e = d.read + Len(x)
    OBVIOUS
  <1>72. PICK m : m = d.told + n
    OBVIOUS
  <1>73. /\ o \in d.read..e /\ Reading(d, o, y, e) /\ n \in Nat /\ StartsAt(d, o, m, to2)
    BY <1>1, <1>2, <1>71, <1>72 DEF GoesOn
  <1>75. n \in Nat
    BY <1>73
  <1>74. e \in Nat /\ m \in Nat
    BY <1>3, <1>5, <1>71, <1>72, <1>75, SMTT(60)
  <1>76. o \in d.read..e
    BY <1>73
  <1>8. Len(x \o w) = Len(x) + Len(w) /\ \A o2 : o2 = d.read + Len(x) => Follows(w, d.sym, o2)
    BY <1>3, <1>5, <1>7, FollowsSplit
  <1>81. Len(x) + Len(w) = d.came - d.read
    BY <1>7, <1>8
  <1>9. Follows(w, d.sym, e)
    BY <1>71, <1>8
  <1>10. e + Len(w) = d.came /\ e <= d.came
    <2>1. Len(x) \in Nat /\ Len(w) \in Nat /\ d.came \in Nat /\ d.read \in Nat
      BY <1>3, <1>5
    <2>2. e + Len(w) = d.came
      BY <2>1, <1>71, <1>81
    <2> QED BY <2>1, <2>2, <1>74
  <1>11. o \in Nat /\ d.read <= o /\ o <= e
    BY <1>5, <1>76, <1>74
  <1>12. o + Len(y) = e /\ Follows(y, d.sym, o)
    BY <1>73 DEF Reading, Follows
  <1>121. Len(y) = e - o
    BY <1>3, <1>11, <1>12, <1>74
  <1>13. PICK t2 : t2 = y \o w
    OBVIOUS
  <1>14. Len(t2) = Len(y) + Len(w) /\ Follows(t2, d.sym, o)
    BY <1>3, <1>9, <1>11, <1>12, <1>13, FollowsJoin
  <1>15. Len(t2) = d.came - o
    <2>1. Len(y) = e - o /\ e + Len(w) = d.came
      BY <1>121, <1>10
    <2>2. Len(t2) = Len(y) + Len(w)
      BY <1>14
    <2>3. e - o + Len(w) = d.came - o
      BY <2>1, <1>3, <1>5, <1>11, <1>74
    <2> QED BY <2>1, <2>2, <2>3
  <1>16. m <= d.due
    <2>1. d.place[o + 1].at \in {m, m + 1}
      BY <1>73 DEF StartsAt, Stands, Place
    <2>2. o + 1 \in (d.read + 1)..(d.wrote + 1) /\ d.came + 1 \in (d.read + 1)..(d.wrote + 1) /\ o + 1 <= d.came + 1
      <3>1. o <= d.came
        BY <1>5, <1>10, <1>11, <1>74
      <3>2. o + 1 \in (d.read + 1)..(d.wrote + 1)
        BY <3>1, <1>5, <1>6, <1>11
      <3>3. d.came + 1 \in (d.read + 1)..(d.wrote + 1) /\ o + 1 <= d.came + 1
        BY <3>1, <1>5, <1>6, <1>11
      <3> QED BY <3>2, <3>3
    <2>3. d.place[o + 1].at <= d.place[d.came + 1].at /\ d.place[d.came + 1].at <= d.due
      BY <1>4, <2>2 DEF Runs, Bounds
    <2>4. d.place[o + 1].at \in Nat /\ d.place[d.came + 1].at \in Nat
      <3>1. o + 1 \in Nat /\ d.came + 1 \in Nat
        BY <1>5, <1>11
      <3> QED BY <1>4, <3>1, FlowTypes
    <2>5. d.place[o + 1].at <= d.due
      <3>1. PICK a : a = d.place[o + 1].at
        OBVIOUS
      <3>2. PICK b : b = d.place[d.came + 1].at
        OBVIOUS
      <3>3. a \in Nat /\ b \in Nat /\ a <= b /\ b <= d.due
        BY <3>1, <3>2, <2>3, <2>4
      <3>4. a <= d.due
        BY <3>3, <1>5
      <3> QED BY <3>1, <3>4
    <2> QED BY <1>5, <1>74, <2>1, <2>5
  <1>17. n <= Len(q)
    <2>1. Len(q) = d.due - d.told
      BY <1>7
    <2> QED BY <2>1, <1>3, <1>5, <1>16, <1>72, <1>75
  <1>18. \A i \in 1..n : q[i] = d.item[d.told + i]
    <2> TAKE i \in 1..n
    <2>1. Len(q) \in Nat /\ i \in 1..n
      BY <1>3
    <2>2. i \in 1..Len(q)
      BY <1>17, <1>75, <2>1
    <2> QED BY <1>7, <2>2 DEF Follows
  <1>19. PICK q2 : q2 = Skip(q, n)
    OBVIOUS
  <1>20. n \in 0..Len(q)
    BY <1>3, <1>17, <1>75
  <1>21. Len(q2) = Len(q) - n /\ \A i \in 1..(Len(q) - n) : q2[i] = q[i + n]
    BY <1>19, <1>20, SkipLeavesRest
  <1>22. Len(q2) = d.due - m
    <2>1. Len(q) = d.due - d.told /\ Len(q2) = Len(q) - n
      BY <1>7, <1>21
    <2> QED BY <2>1, <1>3, <1>5, <1>72, <1>75
  <1>23. Follows(q2, d.item, m)
    <2> SUFFICES ASSUME NEW i \in 1..Len(q2) PROVE q2[i] = d.item[m + i]
      BY DEF Follows
    <2>1. PICK k : k = i + n
      OBVIOUS
    <2>2. i \in 1..(Len(q) - n) /\ k \in 1..Len(q) /\ d.told + k = m + i
      <3>1. Len(q2) = Len(q) - n
        BY <1>21
      <3> QED BY <3>1, <1>3, <1>5, <1>17, <1>72, <1>75, <2>1
    <2>3. q2[i] = q[k] /\ q[k] = d.item[d.told + k]
      BY <1>7, <1>21, <2>1, <2>2 DEF Follows
    <2> QED BY <2>2, <2>3
  <1>24. PICK d2 : d2 = Marked(d, o, d.came, m, d.due)
    OBVIOUS
  <1>25. SameFlow(d, d2) /\ d2.read = o /\ d2.came = d.came /\ d2.told = m /\ d2.due = d.due
    BY <1>4, <1>5, <1>11, <1>74, <1>24 DEF Flows, Marked, SameFlow
  <1>26. Runs(d2, rk) /\ Finishing(d2, from) /\ \A i, z : Tells(d, i, z) <=> Tells(d2, i, z)
    <2>1. d.read <= d2.read
      BY <1>11, <1>25
    <2> QED BY <1>4, <1>25, <2>1, SameFlowKeeps
  <1>27. Starts(d2, to2)
    <2>1. d2.place = d.place
      BY <1>25 DEF SameFlow
    <2> QED BY <1>25, <1>26, <1>73, <2>1 DEF Starts, StartsAt, Stands
  <1>28. Bounds(d2)
    <2>1. d2.wrote = d.wrote /\ d2.said = d.said /\ d2.place = d.place
      BY <1>25 DEF SameFlow
    <2>2. d.place[d.came + 1].at <= d.due
      BY <1>4 DEF Bounds
    <2>3. o <= d.came
      BY <1>5, <1>74, <1>10, <1>11
    <2> QED BY <1>6, <1>16, <1>25, <2>1, <2>2, <2>3 DEF Bounds
  <1>29. Carries(d2, t2, q2, broken)
    <2>1. d2.wrote = d.wrote /\ d2.said = d.said /\ d2.sym = d.sym /\ d2.item = d.item
      BY <1>25 DEF SameFlow
    <2> QED BY <1>7, <1>14, <1>15, <1>22, <1>23, <1>25, <2>1, CarriesFollows
  <1>30. Stream(d2, rk, from, to2, w, q2, broken)
    BY <1>2, <1>13, <1>25, <1>26, <1>27, <1>28, <1>29 DEF Stream, SameFlow
  <1> QED BY <1>17, <1>18, <1>19, <1>25, <1>30, <1>72

----------------------------------------------------------------------------
(* A poll amid a body tells what its stream says.                           *)

(* A head among the symbols tells its item.                                 *)
LEMMA HeadTells ==
    ASSUME NEW d, NEW rk, NEW q, NEW x, NEW z, Passes(d, rk, q, x, z), x.tok = "head"
    PROVE  PassesHead(d, rk, q, x, z)
  <1>1. ~PassesByte(d, q, x, z)
    BY DEF PassesByte, Symbol
  <1>2. ~PassesLine(d, q, x, z)
    BY DEF PassesLine
  <1> QED BY <1>1, <1>2 DEF Passes

(* Content begins after the items told before it.                           *)
LEMMA EntersOn ==
    ASSUME NEW d, NEW f, NEW at \in Nat, NEW z, Enters(d, f, at, z)
    PROVE  z.at \in Nat /\ at <= z.at
  <1>1. z.at \in {at, at + 1}
    BY DEF Enters, Place
  <1> QED BY <1>1

(* There is no head between what was read and o.                            *)
NoHeads(d, o) == \A i \in (d.read + 1)..o : d.sym[i].tok # "head"

(* What tells no head has none.                                             *)
LEMMA NoHeadBetween ==
    ASSUME NEW d \in Flows, NEW rk, Runs(d, rk), NEW to, Starts(d, to), NEW to2,
           NEW o \in Nat, d.read <= o, o <= d.wrote, NEW n \in Nat, NEW m \in Nat, m = d.told + n,
           StartsAt(d, o, m, to2), \A i \in 1..n : d.item[d.told + i] \in {ByteItem, EndItem}
    PROVE  NoHeads(d, o)
  <1> SUFFICES ASSUME NEW i \in (d.read + 1)..o, d.sym[i].tok = "head" PROVE FALSE
    BY DEF NoHeads
  <1>1. /\ d.read \in Nat /\ d.wrote \in Nat /\ d.told \in Nat /\ d.said \in Nat
    BY FlowTypes
  <1>2. i \in Nat /\ d.read < i /\ i <= o /\ i <= d.wrote
    BY <1>1
  <1>3. Passes(d, rk, d.place[i], d.sym[i], d.place[i + 1])
    BY <1>2, StepOf
  <1>4. PassesHead(d, rk, d.place[i], d.sym[i], d.place[i + 1])
    BY <1>3, HeadTells
  <1>5. PICK a : a = d.place[i].at
    OBVIOUS
  <1>6. PICK b : b = d.place[i + 1].at
    OBVIOUS
  <1>7. PICK s : s = d.place[d.read + 1].at
    OBVIOUS
  <1>8. PICK t : t = d.place[o + 1].at
    OBVIOUS
  <1>9. a \in Nat /\ b \in Nat /\ s \in Nat /\ t \in Nat
    <2>1. i \in Nat /\ i + 1 \in Nat /\ d.read + 1 \in Nat /\ o + 1 \in Nat
      BY <1>1, <1>2
    <2> QED BY <2>1, <1>5, <1>6, <1>7, <1>8, FlowTypes
  <1>10. s \in {d.told, d.told + 1}
    BY <1>7 DEF Starts, Place
  <1>11. t = m \/ (t = m + 1 /\ Tells(d, m + 1, EndItem))
    BY <1>8 DEF StartsAt, Stands, Place
  <1>12. s <= a /\ b <= t
    <2>1. /\ d.read + 1 \in (d.read + 1)..(d.wrote + 1) /\ i \in (d.read + 1)..(d.wrote + 1) /\ d.read + 1 <= i
          /\ i + 1 \in (d.read + 1)..(d.wrote + 1) /\ o + 1 \in (d.read + 1)..(d.wrote + 1) /\ i + 1 <= o + 1
      BY <1>1, <1>2
    <2>2. d.place[d.read + 1].at <= d.place[i].at
      BY <2>1 DEF Runs
    <2>3. d.place[i + 1].at <= d.place[o + 1].at
      BY <2>1 DEF Runs
    <2> QED BY <2>2, <2>3, <1>5, <1>6, <1>7, <1>8
  <1>13. Tells(d, a + 1, HeadItem(d.sym[i].h)) /\ a + 1 <= b
    <2>1. Tells(d, a + 1, HeadItem(d.sym[i].h)) /\ Enters(d, Content(d.sym[i].h, rk), a + 1, d.place[i + 1])
      BY <1>4, <1>5 DEF PassesHead
    <2>2. PICK f : f = Content(d.sym[i].h, rk)
      OBVIOUS
    <2>3. PICK a1 : a1 = a + 1
      OBVIOUS
    <2>4. a1 \in Nat /\ Enters(d, f, a1, d.place[i + 1])
      BY <2>1, <2>2, <2>3, <1>9
    <2>5. a1 <= d.place[i + 1].at
      BY <2>4, EntersOn
    <2> QED BY <2>1, <2>3, <2>5, <1>6
  <1>14. d.item[a + 1] = HeadItem(d.sym[i].h) /\ d.item[a + 1] \notin {ByteItem, EndItem}
    <2>1. d.item[a + 1] = HeadItem(d.sym[i].h)
      BY <1>13 DEF Tells
    <2>2. HeadItem(d.sym[i].h) \notin {ByteItem, EndItem}
      BY DEF HeadItem, ByteItem, EndItem
    <2> QED BY <2>1, <2>2
  <1>15. d.told <= a /\ a + 1 <= t
    <2>1. a + 1 <= b
      BY <1>13
    <2> QED BY <1>1, <1>9, <1>10, <1>12, <2>1
  <1>16. CASE a + 1 <= m
    <2>1. PICK k : k = a + 1 - d.told
      OBVIOUS
    <2>2. k \in 1..n /\ d.told + k = a + 1
      BY <1>1, <1>9, <1>15, <1>16, <2>1
    <2>3. d.item[d.told + k] \in {ByteItem, EndItem}
      BY <2>2
    <2> QED BY <1>14, <2>2, <2>3
  <1>17. CASE ~(a + 1 <= m)
    <2>1. a + 1 = m + 1 /\ t = m + 1
      BY <1>9, <1>11, <1>15, <1>17
    <2>2. Tells(d, m + 1, EndItem)
      BY <1>11, <2>1
    <2>3. d.item[a + 1] = EndItem
      BY <2>1, <2>2 DEF Tells
    <2> QED BY <1>14, <2>3
  <1> QED BY <1>16, <1>17

(* A prefix is what agrees with the sequence as far as it goes.             *)
LEMMA PrefixIs ==
    ASSUME NEW X, NEW q \in Seq(X), NEW s \in Seq(X), Len(s) <= Len(q), \A i \in 1..Len(s) : q[i] = s[i]
    PROVE  Prefix(q, Len(s)) = s
  <1>1. PICK n : n = Len(s)
    OBVIOUS
  <1>2. n \in Nat /\ Len(q) \in Nat /\ n <= Len(q)
    BY <1>1, LenProperties
  <1>3. PICK t : t = SubSeq(q, 1, n)
    OBVIOUS
  <1>4. Prefix(q, n) = t
    BY <1>2, <1>3 DEF Prefix
  <1>5. t \in Seq(X) /\ Len(t) = n /\ \A i \in 1..n : t[i] = q[i]
    BY <1>2, <1>3, SubSeqProperties
  <1>6. \A i \in 1..Len(t) : t[i] = s[i]
    BY <1>1, <1>5
  <1>7. t = s
    BY <1>1, <1>5, <1>6, SeqEqual
  <1> QED BY <1>1, <1>4, <1>7

(* What a poll amid a body does to the connection, the reader aside.        *)
BodyPolled(c, p) ==
    /\ p.c \in Connections(Wires) /\ Fixtures(c, p.c) /\ SameExchange(c, p.c)
    /\ p.kind = "EndOfMessage" =>
          /\ p.c.st = process_event(c.st, peer(c.role), StateEvent("EndOfMessage"))
          /\ Accepts(c.st, peer(c.role), StateEvent("EndOfMessage"))
    /\ p.kind = "Data" => p.c.st = c.st /\ ~p.c.cycle.waiting_for_continue
    /\ p.kind # "EndOfMessage" => p.c.st = c.st
    /\ p.kind # "Data" => p.c.cycle.waiting_for_continue = c.cycle.waiting_for_continue

(* What a step of reading a body does to the connection.                    *)
LEMMA BodyStepPolls ==
    ASSUME NEW c \in Connections(Wires), NEW p, BodyStep(Wires, c, p)
    PROVE  BodyPolled(c, p)
  <1>1. p.c \in Connections(Wires)
    BY DEF BodyStep
  <1>2. CASE Idles(c, p)
    BY <1>1, <1>2 DEF Idles, BodyPolled, Fixtures, SameExchange
  <1>3. CASE Finishes(c, p)
    <2>1. /\ p.c.cycle.request_kind = c.cycle.request_kind
          /\ p.c.cycle.upgrade_proposals = c.cycle.upgrade_proposals
          /\ p.c.cycle.continue_before_upgrade = c.cycle.continue_before_upgrade
          /\ p.c.cycle.waiting_for_continue = c.cycle.waiting_for_continue
      <3>1. p.c.cycle = [c.cycle EXCEPT !.reader = ReadHead]
        BY <1>3 DEF Finishes
      <3>2. c.cycle \in Cycles
        BY DEF Connections
      <3> QED BY <3>1, <3>2 DEF Cycles
    <2>2. p.kind = "EndOfMessage" /\ Fixtures(c, p.c)
      BY <1>3 DEF Finishes
    <2>3. /\ p.c.st = process_event(c.st, peer(c.role), StateEvent("EndOfMessage"))
          /\ Accepts(c.st, peer(c.role), StateEvent("EndOfMessage"))
      BY <1>3 DEF Finishes
    <2> QED BY <1>1, <2>1, <2>2, <2>3 DEF BodyPolled, SameExchange
  <1>4. CASE TakesPayload(c, p, Len(c.input))
    <2>1. p.kind = "Data" /\ Reads(c, p.c) /\ ~p.c.cycle.waiting_for_continue
      BY <1>4 DEF TakesPayload
    <2> QED BY <1>1, <2>1 DEF BodyPolled, Reads, SameExchange
  <1> QED BY <1>2, <1>3, <1>4 DEF BodyStep

(* The same for a poll amid a body.                                         *)
LEMMA BodyPollStep ==
    ASSUME NEW c \in Connections(Wires), Sound(c), c.held = 0, peer_state(c) = "SendBody", NEW due,
           NEW p, p = next_event_inner(c, due)
    PROVE  BodyPolled(c, p)
  <1>1. PollStep(Wires, c, p)
    BY WiresOK, NextEventInnerEffect
  <1>2. CASE BodyStep(Wires, c, p)
    BY <1>2, BodyStepPolls
  <1>3. CASE ChunkStep(Wires, c, p)
    <2>1. PICK d \in Connections(Wires) : Chunking(c, d) /\ BodyStep(Wires, d, p)
      BY <1>3 DEF ChunkStep
    <2>2. BodyPolled(d, p)
      BY <2>1, BodyStepPolls
    <2>3. Reads(c, d) /\ d.cycle.waiting_for_continue = c.cycle.waiting_for_continue
      BY <2>1 DEF Chunking
    <2>4. d.role = c.role /\ d.st = c.st
      BY <2>3 DEF Reads, Fixtures
    <2>5. p.c \in Connections(Wires) /\ Fixtures(c, p.c) /\ SameExchange(c, p.c)
      BY <2>2, <2>3 DEF Reads, Fixtures, SameExchange, BodyPolled
    <2> QED BY <2>2, <2>3, <2>4, <2>5 DEF BodyPolled
  <1>4. CASE Closes(c, p) /\ p.c \in Connections(Wires)
    BY <1>4, CloseKeeps
  <1> QED BY <1>1, <1>2, <1>3, <1>4 DEF PollStep

(* The end of the transport, as a reader sees it.                           *)
EofMeans(c, w, from, broken) == c.eof => w = <<>> /\ (broken \/ local_state(from) = "Closed")

(* The reader of a stream amid a body reads what the flow holds.            *)
LEMMA StreamReceives ==
    ASSUME NEW d, NEW rk, NEW from, NEW c \in Connections(Wires), NEW w \in Seq(Wires), NEW q, NEW broken,
           Stream(d, rk, from, c, w, q, broken), peer_state(c) = "SendBody",
           NEW e, e = d.read + Len(c.input)
    PROVE  /\ Receiving(d, rk, d.read, e, d.told, c) /\ e \in Nat /\ d.read <= e /\ e <= d.came
           /\ w = <<>> => e = d.came
           /\ c.input \in Seq(Wires)
  <1>1. PICK x : x = c.input
    OBVIOUS
  <1>2. x \in Seq(Wires) /\ Len(x) \in Nat /\ Len(w) \in Nat
    <2>1. x \in Seq(Wires)
      BY <1>1 DEF Connections
    <2> QED BY <2>1, LenProperties
  <1>3. d \in Flows /\ Runs(d, rk) /\ Bounds(d) /\ Starts(d, c) /\ Carries(d, x \o w, q, broken)
    BY <1>1 DEF Stream
  <1>4. /\ d.read \in Nat /\ d.came \in Nat /\ d.wrote \in Nat
        /\ d.told \in Nat /\ d.due \in Nat /\ d.said \in Nat
    BY <1>3, FlowTypes
  <1>5. d.came <= d.wrote
    BY <1>3 DEF Bounds
  <1>6. Len(x \o w) = d.came - d.read /\ Follows(x \o w, d.sym, d.read)
    BY <1>3, CarriesFollows
  <1>7. Len(x \o w) = Len(x) + Len(w) /\ Follows(x, d.sym, d.read)
    BY <1>2, <1>4, <1>6, FollowsSplit
  <1>8. Len(x) + Len(w) = d.came - d.read
    BY <1>6, <1>7
  <1>9. e = d.read + Len(x)
    BY <1>1
  <1>10. e \in Nat /\ d.read <= e /\ e <= d.came /\ e <= d.wrote
    <2>1. PICK a : a = Len(x)
      OBVIOUS
    <2>2. PICK b : b = Len(w)
      OBVIOUS
    <2>3. PICK y : y = d.came
      OBVIOUS
    <2>31. PICK z : z = d.read
      OBVIOUS
    <2>32. a \in Nat /\ b \in Nat /\ y \in Nat /\ z \in Nat
      BY <2>1, <2>2, <2>3, <2>31, <1>2, <1>4
    <2>33. a + b = y - z /\ e = z + a
      BY <2>1, <2>2, <2>3, <2>31, <1>8, <1>9
    <2>34. e \in Nat /\ z <= e /\ e <= y
      BY <2>32, <2>33
    <2>4. e \in Nat /\ d.read <= e
      BY <2>31, <2>34
    <2>5. e <= d.came
      BY <2>3, <2>34
    <2>6. e <= d.wrote
      BY <2>4, <2>5, <1>4, <1>5
    <2> QED BY <2>4, <2>5, <2>6
  <1>11. w = <<>> => e = d.came
    <2>1. ASSUME w = <<>> PROVE e = d.came
      <3>1. Len(w) = 0
        BY <2>1
      <3> QED BY <3>1, <1>2, <1>4, <1>8, <1>9
    <2> QED BY <2>1
  <1>12. Reading(d, d.read, c.input, e)
    BY <1>1, <1>7, <1>9 DEF Reading, Follows
  <1>13. Stands(d, d.read + 1, c.cycle.reader, d.told)
    BY <1>3 DEF Starts, Stands
  <1>14. Receiving(d, rk, d.read, e, d.told, c)
    BY <1>3, <1>4, <1>10, <1>12, <1>13 DEF Receiving
  <1>15. c.input \in Seq(Wires)
    BY <1>1, <1>2
  <1> QED BY <1>10, <1>11, <1>14, <1>15

(* The reader of d has gone on without passing a head, and told n more      *)
(* items.                                                                   *)
Went(d, d2, n) == /\ SameFlow(d, d2) /\ d.read <= d2.read /\ NoHeads(d, d2.read) /\ d2.told = d.told + n

(* The stream goes on by n items to the reader to2.                         *)
GoesTo(d, rk, from, to2, w, q, broken, n) ==
    \E d2 : Went(d, d2, n) /\ Stream(d2, rk, from, to2, w, Skip(q, n), broken)

(* A reader that goes on amid a body passes no head, and tells the items    *)
(* that are pending.                                                        *)
LEMMA StreamGoes ==
    ASSUME NEW d, NEW rk, NEW from, NEW to, NEW to2, NEW w \in Seq(Wires), NEW q \in Seq(Items), NEW broken,
           Stream(d, rk, from, to, w, q, broken), NEW o, NEW n, GoesOn(d, to, to2, o, n),
           \A i \in 1..n : d.item[d.told + i] \in {ByteItem, EndItem}
    PROVE  /\ n <= Len(q) /\ \A i \in 1..n : q[i] = d.item[d.told + i]
           /\ \E d2 : /\ Went(d, d2, n) /\ d2.read = o
                      /\ Stream(d2, rk, from, to2, w, Skip(q, n), broken)
  <1>1. /\ n <= Len(q) /\ \A i \in 1..n : q[i] = d.item[d.told + i]
        /\ \E d2 : /\ SameFlow(d, d2) /\ d2.read = o /\ d2.told = d.told + n
                   /\ Stream(d2, rk, from, to2, w, Skip(q, n), broken)
    BY StreamSkips
  <1>2. PICK d2 : /\ SameFlow(d, d2) /\ d2.read = o /\ d2.told = d.told + n
                  /\ Stream(d2, rk, from, to2, w, Skip(q, n), broken)
    BY <1>1
  <1>3. d \in Flows /\ Runs(d, rk) /\ Starts(d, to)
    BY DEF Stream
  <1>4. d.read \in Nat /\ d.wrote \in Nat /\ d.told \in Nat
    BY <1>3, FlowTypes
  <1>5. d2 \in Flows /\ d2.wrote = d.wrote /\ Bounds(d2)
    BY <1>2 DEF Stream, SameFlow
  <1>6. d2.read <= d2.wrote /\ d2.read \in Nat
    <2>1. d2.read \in Nat /\ d2.came \in Nat /\ d2.wrote \in Nat
      BY <1>5, FlowTypes
    <2>2. d2.read <= d2.came /\ d2.came <= d2.wrote
      BY <1>5 DEF Bounds
    <2> QED BY <2>1, <2>2
  <1>7. o \in Nat /\ o <= d.wrote
    BY <1>2, <1>5, <1>6
  <1>8. n \in Nat /\ d.read <= o
    <2>1. PICK e : e = d.read + Len(to.input)
      OBVIOUS
    <2>2. o \in d.read..e /\ n \in Nat
      BY <2>1 DEF GoesOn
    <2> QED BY <2>2
  <1>9. PICK m : m = d.told + n
    OBVIOUS
  <1>10. m \in Nat /\ StartsAt(d, o, m, to2)
    BY <1>4, <1>8, <1>9 DEF GoesOn
  <1>11. NoHeads(d, o)
    BY <1>3, <1>7, <1>8, <1>9, <1>10, NoHeadBetween
  <1>12. Went(d, d2, n)
    BY <1>2, <1>8, <1>11 DEF Went
  <1> QED BY <1>1, <1>2, <1>12

(* The poll needs more bytes and tells nothing.                             *)
WaitNews(d, rk, from, w, q, broken, p) ==
    p.kind = "NeedData" /\ GoesTo(d, rk, from, p.c, w, q, broken, 0)

(* The poll gives bytes, and they are the next items.                       *)
DataNews(d, rk, from, w, q, broken, p) ==
    /\ p.kind = "Data" /\ p.count \in Nat \ {0} /\ Bytes(p.count) = Prefix(q, p.count)
    /\ d.read < d.wrote
    /\ GoesTo(d, rk, from, p.c, w, q, broken, p.count)

(* The poll ends the message, and its end is the next item.                 *)
EndNews(d, rk, from, w, q, broken, p) ==
    /\ p.kind = "EndOfMessage" /\ <<EndItem>> = Prefix(q, 1)
    /\ GoesTo(d, rk, from, p.c, w, q, broken, 1)

(* The end of the transport ends a close-delimited body; it is the last     *)
(* item unless the transport was cut.                                       *)
CloseNews(c, q, broken, p) ==
    /\ p.kind = "EndOfMessage" /\ c.cycle.reader.kind = "CloseDelimited" /\ c.eof
    /\ ~broken => q = <<EndItem>>

(* The poll fails, which only the end of a cut transport makes it do.       *)
FailNews(c, broken, p) == p.kind = "Err" /\ c.eof /\ broken

(* What a poll of a body tells: the next items that the peer sent.          *)
BodyNews(d, rk, from, c, w, q, broken, p) ==
    \/ WaitNews(d, rk, from, w, q, broken, p)
    \/ DataNews(d, rk, from, w, q, broken, p)
    \/ EndNews(d, rk, from, w, q, broken, p)
    \/ CloseNews(c, q, broken, p)
    \/ FailNews(c, broken, p)

(* A poll that waits has a stream to wait for.                              *)
LEMMA WaitPollNews ==
    ASSUME NEW d, NEW rk, NEW from, NEW c \in Connections(Wires), NEW w \in Seq(Wires), NEW q \in Seq(Items),
           NEW broken, Stream(d, rk, from, c, w, q, broken), peer_state(c) = "SendBody",
           NEW e, e = d.read + Len(c.input), NEW p, p.kind = "NeedData", BodyPolled(c, p), Waits(d, e, d.told, p)
    PROVE  WaitNews(d, rk, from, w, q, broken, p)
  <1>1. PICK o \in d.read..e : Reading(d, o, p.c.input, e) /\ Stands(d, o + 1, p.c.cycle.reader, d.told)
    BY DEF Waits
  <1>2. d \in Flows /\ d.told \in Nat
    <2>1. d \in Flows
      BY DEF Stream
    <2> QED BY <2>1, FlowTypes
  <1>3. p.c \in Connections(Wires) /\ peer_state(p.c) = "SendBody"
    BY DEF BodyPolled, Fixtures, peer_state
  <1>4. c.input \in Seq(Wires) /\ p.c.input \in Seq(Wires)
    BY <1>3 DEF Connections
  <1>5. StartsAt(d, o, d.told, p.c)
    BY <1>1, <1>3 DEF StartsAt
  <1>51. d.told + 0 = d.told
    BY <1>2
  <1>6. GoesOn(d, c, p.c, o, 0)
    BY <1>1, <1>4, <1>5, <1>51 DEF GoesOn
  <1>7. \A i \in 1..0 : d.item[d.told + i] \in {ByteItem, EndItem}
    OBVIOUS
  <1>8. \E d2 : Went(d, d2, 0) /\ d2.read = o /\ Stream(d2, rk, from, p.c, w, Skip(q, 0), broken)
    BY <1>6, <1>7, StreamGoes
  <1>9. GoesTo(d, rk, from, p.c, w, q, broken, 0)
    BY <1>8 DEF GoesTo
  <1> QED BY <1>9 DEF WaitNews

(* A poll that ends the message has read its end.                           *)
LEMMA EndPollNews ==
    ASSUME NEW d, NEW rk, NEW from, NEW c \in Connections(Wires), NEW w \in Seq(Wires), NEW q \in Seq(Items),
           NEW broken, Stream(d, rk, from, c, w, q, broken), Lawful(c.st), c.role \in Roles,
           NEW e, e = d.read + Len(c.input), NEW p, p.kind = "EndOfMessage", BodyPolled(c, p), Ends(d, e, d.told, p)
    PROVE  EndNews(d, rk, from, w, q, broken, p)
  <1>1. PICK o \in d.read..e : /\ Reading(d, o, p.c.input, e) /\ Tells(d, d.told + 1, EndItem)
                               /\ d.place[o + 1] = Place("Head", 0, d.told + 1)
    BY DEF Ends
  <1>2. d \in Flows /\ d.told \in Nat
    <2>1. d \in Flows
      BY DEF Stream
    <2> QED BY <2>1, FlowTypes
  <1>3. p.c \in Connections(Wires) /\ peer_state(p.c) # "SendBody"
    <2>1. /\ p.c \in Connections(Wires) /\ p.c.role = c.role
          /\ p.c.st = process_event(c.st, peer(c.role), StateEvent("EndOfMessage"))
          /\ Accepts(c.st, peer(c.role), StateEvent("EndOfMessage"))
      BY DEF BodyPolled, Fixtures
    <2>2. peer(c.role) \in Roles
      BY DEF peer, Roles
    <2>3. state(p.c.st, peer(c.role)) \in {"Done", "MightSwitchProtocol", "SwitchedProtocol", "MustClose"}
      BY <2>1, <2>2, EndEffect
    <2> QED BY <2>1, <2>3 DEF peer_state
  <1>4. c.input \in Seq(Wires) /\ p.c.input \in Seq(Wires)
    BY <1>3 DEF Connections
  <1>5. StartsAt(d, o, d.told + 1, p.c)
    BY <1>1, <1>3 DEF StartsAt
  <1>6. GoesOn(d, c, p.c, o, 1)
    BY <1>1, <1>4, <1>5 DEF GoesOn
  <1>61. d.item[d.told + 1] = EndItem
    BY <1>1 DEF Tells
  <1>7. \A i \in 1..1 : d.item[d.told + i] \in {ByteItem, EndItem}
    <2> SUFFICES ASSUME NEW i \in 1..1 PROVE d.item[d.told + i] \in {ByteItem, EndItem}
      OBVIOUS
    <2>1. i = 1
      OBVIOUS
    <2>2. d.item[d.told + i] = EndItem
      BY ONLY <2>1, <1>61
    <2> QED BY <2>2
  <1>8. /\ 1 <= Len(q) /\ \A i \in 1..1 : q[i] = d.item[d.told + i]
        /\ \E d2 : Went(d, d2, 1) /\ d2.read = o /\ Stream(d2, rk, from, p.c, w, Skip(q, 1), broken)
    <2>1. PICK n : n = 1
      OBVIOUS
    <2>20. GoesOn(d, c, p.c, o, n)
      BY <2>1, <1>6
    <2>2. \A i \in 1..n : d.item[d.told + i] \in {ByteItem, EndItem}
      BY <2>1, <1>7
    <2>3. /\ n <= Len(q) /\ \A i \in 1..n : q[i] = d.item[d.told + i]
          /\ \E d2 : Went(d, d2, n) /\ d2.read = o /\ Stream(d2, rk, from, p.c, w, Skip(q, n), broken)
      BY <2>20, <2>2, StreamGoes
    <2> QED BY <2>1, <2>3
  <1>9. GoesTo(d, rk, from, p.c, w, q, broken, 1)
    BY <1>8 DEF GoesTo
  <1>10. Prefix(q, 1) = <<EndItem>>
    <2>1. q[1] = EndItem
      BY <1>8, <1>61
    <2>2. PICK t : t = <<EndItem>>
      OBVIOUS
    <2>3. EndItem \in Items
      BY DEF Items
    <2>4. t \in Seq(Items)
      <3>1. \A x \in Items : <<x>> \in Seq(Items)
        OBVIOUS
      <3> QED BY <2>2, <2>3, <3>1
    <2>41. Len(t) = 1 /\ t[1] = EndItem
      BY <2>2
    <2>42. \A i \in 1..Len(t) : q[i] = t[i]
      BY <2>1, <2>41
    <2>5. Prefix(q, Len(t)) = t
      BY <1>8, <2>4, <2>41, <2>42, PrefixIs
    <2> QED BY <2>2, <2>41, <2>5
  <1> QED BY <1>9, <1>10 DEF EndNews

(* A poll that gives bytes has read them.                                   *)
LEMMA DataPollNews ==
    ASSUME NEW d, NEW rk, NEW from, NEW c \in Connections(Wires), NEW w \in Seq(Wires), NEW q \in Seq(Items),
           NEW broken, Stream(d, rk, from, c, w, q, broken), peer_state(c) = "SendBody",
           NEW e, e = d.read + Len(c.input), e \in Nat, e <= d.wrote,
           NEW p, p.kind = "Data", BodyPolled(c, p), Gives(d, e, d.told, p),
           NEW q2, q2.kind = "Data", q2.count = p.count, q2.c = Consumed(p.c, p.count)
    PROVE  DataNews(d, rk, from, w, q, broken, q2)
  <1>1. PICK o \in d.read..e : /\ p.count \in 1..(e - o) /\ Reading(d, o, p.c.input, e)
                               /\ \A i \in 1..p.count : Tells(d, d.told + i, ByteItem)
                               /\ Stands(d, o + p.count + 1, p.c.cycle.reader, d.told + p.count)
    BY DEF Gives
  <1>2. d \in Flows /\ d.told \in Nat /\ d.read \in Nat /\ d.wrote \in Nat
    <2>1. d \in Flows
      BY DEF Stream
    <2> QED BY <2>1, FlowTypes
  <1>3. p.c \in Connections(Wires) /\ peer_state(p.c) = "SendBody"
    BY DEF BodyPolled, Fixtures, peer_state
  <1>4. PICK n : n = p.count
    OBVIOUS
  <1>41. o \in Nat /\ d.read <= o /\ o <= e
    BY <1>1, <1>2
  <1>42. n \in 1..(e - o)
    BY <1>1, <1>4
  <1>5. n \in Nat /\ n >= 1 /\ o + n \in Nat /\ o + n <= e /\ d.read <= o + n /\ n <= e - o
    BY <1>2, <1>41, <1>42
  <1>6. PICK y : y = p.c.input
    OBVIOUS
  <1>7. y \in Seq(Wires) /\ Len(y) \in Nat
    <2>1. y \in Seq(Wires)
      BY <1>3, <1>6 DEF Connections
    <2> QED BY <2>1, LenProperties
  <1>8. o + Len(y) = e /\ \A i \in 1..Len(y) : y[i] = d.sym[o + i]
    BY <1>1, <1>6 DEF Reading
  <1>9. Len(y) = e - o /\ n \in 0..Len(y)
    <2>1. PICK a : a = Len(y)
      OBVIOUS
    <2>2. a \in Nat /\ o + a = e
      BY <2>1, <1>7, <1>8
    <2>3. a = e - o
      BY <2>2, <1>41
    <2> QED BY <2>1, <2>2, <2>3, <1>5
  <1>10. /\ q2.c \in Connections(Wires) /\ q2.c.st = p.c.st /\ q2.c.cycle = p.c.cycle /\ Fixtures(p.c, q2.c)
         /\ q2.c.input = Skip(p.c.input, n) /\ Len(q2.c.input) = Len(p.c.input) - n
    <2>1. n \in 0..Len(p.c.input)
      BY <1>6, <1>9
    <2>2. PICK g : g = q2.c
      OBVIOUS
    <2>3. g = Consumed(p.c, n)
      BY <1>4, <2>2
    <2>4. PICK b \in Connections(Wires) : b = p.c
      BY <1>3
    <2>5. n \in 0..Len(b.input) /\ g = Consumed(b, n)
      BY <2>1, <2>3, <2>4
    <2>6. /\ g \in Connections(Wires) /\ g.st = b.st /\ g.cycle = b.cycle /\ Fixtures(b, g)
          /\ g.input = Skip(b.input, n) /\ Len(g.input) = Len(b.input) - n
      BY <2>5, ConsumedEffect
    <2> QED BY <2>2, <2>4, <2>6
  <1>11. peer_state(q2.c) = "SendBody" /\ q2.c.cycle.reader = p.c.cycle.reader
    BY <1>3, <1>10 DEF peer_state, Fixtures
  <1>12. PICK z : z = q2.c.input
    OBVIOUS
  <1>13. z \in Seq(Wires) /\ Len(z) = Len(y) - n /\ \A i \in 1..(Len(y) - n) : z[i] = y[i + n]
    BY <1>6, <1>7, <1>9, <1>10, <1>12, SkipLeavesRest
  <1>14. o + n + Len(z) = e
    <2>1. PICK a : a = Len(y)
      OBVIOUS
    <2>2. PICK b : b = Len(z)
      OBVIOUS
    <2>3. a \in Nat /\ a = e - o /\ b = a - n
      BY <2>1, <2>2, <1>7, <1>9, <1>13
    <2>4. o + n + b = e
      BY <2>3, <1>41, <1>5
    <2> QED BY <2>2, <2>4
  <1>15. \A i \in 1..Len(z) : z[i] = d.sym[o + n + i]
    <2> SUFFICES ASSUME NEW i \in 1..Len(z) PROVE z[i] = d.sym[o + n + i]
      OBVIOUS
    <2>1. PICK a : a = Len(y)
      OBVIOUS
    <2>2. a \in Nat /\ n <= a /\ Len(z) = a - n /\ i \in 1..(a - n)
      BY <2>1, <1>7, <1>9, <1>13
    <2>3. i + n \in 1..a /\ i \in Nat
      BY <2>2, <1>5
    <2>4. z[i] = y[i + n] /\ y[i + n] = d.sym[o + (i + n)]
      BY <2>1, <2>2, <2>3, <1>8, <1>13
    <2>5. o + (i + n) = o + n + i
      BY <2>3, <1>5, <1>41
    <2> QED BY <2>4, <2>5
  <1>16. Reading(d, o + n, q2.c.input, e)
    BY <1>12, <1>14, <1>15 DEF Reading
  <1>17. StartsAt(d, o + n, d.told + n, q2.c)
    BY <1>1, <1>4, <1>11 DEF StartsAt
  <1>18. o + n \in d.read..(d.read + Len(c.input))
    BY <1>2, <1>5
  <1>19. c.input \in Seq(Wires) /\ q2.c.input \in Seq(Wires)
    BY <1>10 DEF Connections
  <1>20. GoesOn(d, c, q2.c, o + n, n)
    BY <1>5, <1>16, <1>17, <1>18, <1>19 DEF GoesOn
  <1>21. \A i \in 1..n : d.item[d.told + i] = ByteItem
    BY <1>1, <1>4 DEF Tells
  <1>22. \A i \in 1..n : d.item[d.told + i] \in {ByteItem, EndItem}
    BY <1>21
  <1>23. /\ n <= Len(q) /\ \A i \in 1..n : q[i] = d.item[d.told + i]
         /\ \E d2 : Went(d, d2, n) /\ d2.read = o + n /\ Stream(d2, rk, from, q2.c, w, Skip(q, n), broken)
    BY <1>20, <1>22, StreamGoes
  <1>24. GoesTo(d, rk, from, q2.c, w, q, broken, n)
    BY <1>23 DEF GoesTo
  <1>25. Bytes(n) = Prefix(q, n)
    <2>1. PICK t : t = Bytes(n)
      OBVIOUS
    <2>2. ByteItem \in Items
      BY DEF Items
    <2>3. t \in Seq(Items)
      BY <2>1, <2>2, <1>5, RunOfSymbols DEF Bytes
    <2>4. Len(t) = n /\ \A i \in 1..n : t[i] = ByteItem
      BY <2>1, <1>5 DEF Bytes
    <2>5. \A i \in 1..n : q[i] = ByteItem
      BY <1>21, <1>23
    <2>6. Len(t) <= Len(q) /\ \A i \in 1..Len(t) : q[i] = t[i]
      BY <2>4, <2>5, <1>23
    <2>7. Prefix(q, Len(t)) = t
      BY <2>3, <2>6, PrefixIs
    <2> QED BY <2>1, <2>4, <2>7
  <1>26. d.read < d.wrote
    <2>1. d.read < o + n /\ o + n <= d.wrote
      BY <1>2, <1>5, <1>41
    <2> QED BY <2>1, <1>2, <1>5
  <1> QED BY <1>4, <1>5, <1>24, <1>25, <1>26 DEF DataNews

(* With nothing under way, what came is in the buffer.                      *)
LEMMA StreamCame ==
    ASSUME NEW d, NEW rk, NEW from, NEW c \in Connections(Wires), NEW w \in Seq(Wires), NEW q, NEW broken,
           Stream(d, rk, from, c, w, q, broken), peer_state(c) = "SendBody", w = <<>>
    PROVE  d.came = d.read + Len(c.input)
  <1>1. PICK e : e = d.read + Len(c.input)
    OBVIOUS
  <1> QED BY <1>1, StreamReceives

(* The end of a transport that was not cut is the end that the server has   *)
(* said.                                                                    *)
LEMMA ClosePollNews ==
    ASSUME NEW d, NEW rk, NEW from, NEW c \in Connections(Wires), NEW w \in Seq(Wires), NEW q \in Seq(Items),
           NEW broken, Stream(d, rk, from, c, w, q, broken), peer_state(c) = "SendBody", EofMeans(c, w, from, broken),
           c.eof, c.cycle.reader.kind = "CloseDelimited", c.input = <<>>, NEW p, p.kind = "EndOfMessage"
    PROVE  CloseNews(c, q, broken, p)
  <1>1. SUFFICES ASSUME ~broken PROVE q = <<EndItem>>
    BY DEF CloseNews
  <1>2. w = <<>> /\ local_state(from) = "Closed"
    BY <1>1 DEF EofMeans
  <1>3. PICK e : e = d.read + Len(c.input)
    OBVIOUS
  <1>4. e = d.came
    BY <1>2, <1>3, StreamCame
  <1>5. d \in Flows /\ Finishing(d, from) /\ Starts(d, c) /\ Carries(d, c.input \o w, q, broken)
    BY DEF Stream
  <1>6. /\ d.read \in Nat /\ d.came \in Nat /\ d.wrote \in Nat
        /\ d.told \in Nat /\ d.due \in Nat /\ d.said \in Nat
    BY <1>5, FlowTypes
  <1>7. Len(c.input) = 0
    OBVIOUS
  <1>8. d.read = d.came
    BY <1>3, <1>4, <1>6, <1>7
  <1>9. d.came = d.wrote /\ d.due = d.said
    BY <1>1, <1>5, CarriesFollows
  <1>10. d.place[d.read + 1] = Place("CloseDelimited", c.cycle.reader.n, d.told)
    BY <1>5 DEF Starts
  <1>11. \/ d.place[d.wrote + 1] = Place("Head", 0, d.said)
         \/ d.place[d.wrote + 1] = Place("CloseDelimited", 0, d.said - 1) /\ Tells(d, d.said, EndItem)
    BY <1>2, <1>5 DEF Finishing
  <1>12. d.wrote + 1 = d.read + 1
    BY <1>8, <1>9
  <1>13. d.told = d.said - 1 /\ Tells(d, d.said, EndItem)
    BY <1>10, <1>11, <1>12 DEF Place
  <1>14. d.said = d.told + 1 /\ d.item[d.said] = EndItem
    <2>1. d.item[d.said] = EndItem
      BY <1>13 DEF Tells
    <2>2. d.said = d.told + 1
      BY <1>6, <1>13
    <2> QED BY <2>1, <2>2
  <1>15. Len(q) = d.due - d.told /\ \A i \in 1..Len(q) : q[i] = d.item[d.told + i]
    BY <1>5 DEF Carries
  <1>16. Len(q) = 1
    BY <1>6, <1>9, <1>14, <1>15
  <1>17. q[1] = d.item[d.told + 1]
    <2>1. 1 \in 1..Len(q)
      BY <1>16
    <2> QED BY <1>15, <2>1
  <1>18. q[1] = EndItem
    BY <1>14, <1>17
  <1>19. PICK x \in Items : x = EndItem
    BY DEF Items
  <1>20. q = <<x>>
    BY <1>16, <1>18, <1>19
  <1> QED BY <1>19, <1>20

(* A transport that was not cut does not end amid a message.                *)
LEMMA FailPollNews ==
    ASSUME NEW d, NEW rk, NEW from, NEW c \in Connections(Wires), NEW w \in Seq(Wires), NEW q \in Seq(Items),
           NEW broken, Stream(d, rk, from, c, w, q, broken), peer_state(c) = "SendBody", EofMeans(c, w, from, broken),
           c.eof, NEW e, e = d.read + Len(c.input), Fails(d, e), NEW p, p.kind = "Err"
    PROVE  FailNews(c, broken, p)
  <1>1. SUFFICES ASSUME ~broken PROVE FALSE
    BY DEF FailNews
  <1>2. w = <<>> /\ local_state(from) = "Closed"
    BY <1>1 DEF EofMeans
  <1>4. e = d.came
    BY <1>2, StreamReceives
  <1>5. d \in Flows /\ Finishing(d, from) /\ Carries(d, c.input \o w, q, broken)
    BY DEF Stream
  <1>9. d.came = d.wrote
    BY <1>1, <1>5, CarriesFollows
  <1>11. \/ d.place[d.wrote + 1] = Place("Head", 0, d.said)
         \/ d.place[d.wrote + 1] = Place("CloseDelimited", 0, d.said - 1)
    BY <1>2, <1>5 DEF Finishing
  <1>12. d.place[e + 1].kind \in {"Head", "CloseDelimited"}
    BY <1>4, <1>9, <1>11 DEF Place
  <1> QED BY <1>12 DEF Fails

(* Every poll amid a body tells the next items that the peer sent, unless   *)
(* the transport was cut.                                                   *)
LEMMA BodyPollNews ==
    ASSUME NEW d, NEW rk, NEW from, NEW c \in Connections(Wires), NEW w \in Seq(Wires), NEW q \in Seq(Items),
           NEW broken, Stream(d, rk, from, c, w, q, broken), peer_state(c) = "SendBody", EofMeans(c, w, from, broken),
           Sound(c), c.held = 0, NEW due, NEW p, p = next_event(c, due)
    PROVE  BodyNews(d, rk, from, c, w, q, broken, p)
  <1>1. PICK p0 : p0 = next_event_inner(c, due)
    OBVIOUS
  <1>2. Concludes(c, p0, p)
    BY <1>1, NextEventConcludes
  <1>3. PICK e : e = d.read + Len(c.input)
    OBVIOUS
  <1>4. Receiving(d, rk, d.read, e, d.told, c) /\ e \in Nat /\ e <= d.came
    BY <1>3, StreamReceives
  <1>5. Receipt(d, e, d.told, c, p0)
    <2>1. PICK r : r = d.read
      OBVIOUS
    <2>2. PICK t : t = d.told
      OBVIOUS
    <2>3. Receiving(d, rk, r, e, t, c)
      BY <2>1, <2>2, <1>4
    <2>4. Receipt(d, e, t, c, p0)
      BY <2>3, <1>1, BodyReceipt
    <2> QED BY <2>2, <2>4
  <1>6. BodyPolled(c, p0)
    BY <1>1, BodyPollStep
  <1>7. Lawful(c.st) /\ c.role \in Roles
    BY DEF Sound, Coherent, Connections
  <1>8. CASE p0.kind = "NeedData" /\ Waits(d, e, d.told, p0)
    <2>1. p = p0
      BY <1>2, <1>8 DEF Concludes
    <2>2. WaitNews(d, rk, from, w, q, broken, p)
      BY <2>1, <1>3, <1>6, <1>8, WaitPollNews
    <2> QED BY <2>2 DEF BodyNews
  <1>9. CASE p0.kind = "Err" /\ c.eof /\ Fails(d, e)
    <2>1. p.kind = "Err"
      BY <1>2, <1>9 DEF Concludes
    <2>2. FailNews(c, broken, p)
      BY <2>1, <1>3, <1>9, FailPollNews
    <2> QED BY <2>2 DEF BodyNews
  <1>10. CASE p0.kind = "Data" /\ Gives(d, e, d.told, p0)
    <2>1. p.kind = "Data" /\ p.count = p0.count /\ p.c = Consumed(p0.c, p0.count)
      BY <1>2, <1>10 DEF Concludes
    <2>2. e <= d.wrote
      <3>1. d \in Flows /\ Bounds(d)
        BY DEF Stream
      <3>2. d.came <= d.wrote /\ d.came \in Nat /\ d.wrote \in Nat
        BY <3>1, FlowTypes DEF Bounds
      <3> QED BY <3>2, <1>4
    <2>3. DataNews(d, rk, from, w, q, broken, p)
      BY <2>1, <2>2, <1>3, <1>4, <1>6, <1>10, DataPollNews
    <2> QED BY <2>3 DEF BodyNews
  <1>11. CASE p0.kind = "EndOfMessage" /\ Ends(d, e, d.told, p0)
    <2>1. p = p0
      BY <1>2, <1>11 DEF Concludes
    <2>2. EndNews(d, rk, from, w, q, broken, p)
      BY <2>1, <1>3, <1>6, <1>7, <1>11, EndPollNews
    <2> QED BY <2>2 DEF BodyNews
  <1>12. CASE p0.kind = "EndOfMessage" /\ c.cycle.reader.kind = "CloseDelimited" /\ c.eof /\ c.input = <<>>
    <2>1. p.kind = "EndOfMessage"
      BY <1>2, <1>12 DEF Concludes
    <2>2. CloseNews(c, q, broken, p)
      BY <2>1, <1>12, ClosePollNews
    <2> QED BY <2>2 DEF BodyNews
  <1> QED BY <1>5, <1>8, <1>9, <1>10, <1>11, <1>12 DEF Receipt

----------------------------------------------------------------------------
(* A poll before a head takes the head that its stream has next.            *)

(* The heads that are written and not read, by position.                    *)
HeadsOf(d) == {i \in (d.read + 1)..d.wrote : d.sym[i].tok = "head"}

(* The head the reader reads next.                                          *)
NextHead(d) == d.sym[d.read + 1].h

(* The first symbol the reader has is the head d says is next.              *)
HeadNext(d, rk, c, q) ==
    /\ c.input[1] = d.sym[d.read + 1] /\ d.sym[d.read + 1].tok = "head" /\ NextHead(d) \in MessageHeads
    /\ d.read + 1 \in HeadsOf(d)
    /\ Prefix(q, 1) = <<HeadItem(NextHead(d))>>
    /\ Enters(d, Content(NextHead(d), rk), d.told + 1, d.place[d.read + 2])

(* A reader that is not in a body and has input has a head before it.       *)
LEMMA HeadIsNext ==
    ASSUME NEW d, NEW rk, NEW from, NEW c \in Connections(Wires), NEW w \in Seq(Wires), NEW q \in Seq(Items),
           NEW broken, Stream(d, rk, from, c, w, q, broken), peer_state(c) # "SendBody", c.input # <<>>
    PROVE  HeadNext(d, rk, c, q)
  <1>1. PICK x : x = c.input
    OBVIOUS
  <1>2. x \in Seq(Wires) /\ Len(x) \in Nat /\ Len(w) \in Nat /\ Len(q) \in Nat
    <2>1. x \in Seq(Wires)
      BY <1>1 DEF Connections
    <2> QED BY <2>1, LenProperties
  <1>3. d \in Flows /\ Runs(d, rk) /\ Bounds(d) /\ Starts(d, c) /\ Carries(d, x \o w, q, broken)
    BY <1>1 DEF Stream
  <1>4. /\ d.read \in Nat /\ d.came \in Nat /\ d.wrote \in Nat
        /\ d.told \in Nat /\ d.due \in Nat /\ d.said \in Nat
    BY <1>3, FlowTypes
  <1>5. d.came <= d.wrote
    BY <1>3 DEF Bounds
  <1>6. Len(x \o w) = d.came - d.read /\ Follows(x \o w, d.sym, d.read)
    BY <1>3, CarriesFollows
  <1>7. Len(x \o w) = Len(x) + Len(w) /\ Follows(x, d.sym, d.read)
    BY <1>2, <1>4, <1>6, FollowsSplit
  <1>8. x # <<>>
    BY <1>1
  <1>9. Len(x) >= 1
    BY <1>2, <1>8, FirstElement
  <1>10. x[1] = d.sym[d.read + 1]
    <2>1. 1 \in 1..Len(x)
      BY <1>2, <1>9
    <2> QED BY <1>7, <2>1 DEF Follows
  <1>11. d.read + 1 <= d.came
    <2>1. PICK a : a = Len(x)
      OBVIOUS
    <2>2. PICK b : b = Len(w)
      OBVIOUS
    <2>3. a \in Nat /\ b \in Nat /\ a + b = d.came - d.read /\ a >= 1
      BY <2>1, <2>2, <1>2, <1>6, <1>7, <1>9
    <2> QED BY <2>3, <1>4
  <1>12. d.read + 1 \in (d.read + 1)..d.wrote
    BY <1>4, <1>5, <1>11
  <1>13. PICK i : i = d.read + 1
    OBVIOUS
  <1>14. i \in Nat /\ i + 1 = d.read + 2 /\ i \in (d.read + 1)..d.wrote
    BY <1>4, <1>12, <1>13
  <1>15. Passes(d, rk, d.place[i], d.sym[i], d.place[i + 1])
    BY <1>3, <1>14 DEF Runs
  <1>16. d.place[i] = Place("Head", 0, d.told)
    BY <1>3, <1>13 DEF Starts
  <1>17. d.place[i].kind = "Head" /\ d.place[i].at = d.told
    BY <1>16 DEF Place
  <1>18. PassesHead(d, rk, d.place[i], d.sym[i], d.place[i + 1])
    BY <1>15, <1>17 DEF Passes, PassesByte, PassesLine
  <1>19. /\ d.sym[i].tok = "head" /\ Tells(d, d.told + 1, HeadItem(d.sym[i].h))
         /\ Enters(d, Content(d.sym[i].h, rk), d.told + 1, d.place[i + 1])
    BY <1>17, <1>18 DEF PassesHead
  <1>20. d.sym[i].h \in MessageHeads
    <2>1. d.sym[i] \in Wires
      BY <1>3, <1>14, FlowTypes
    <2> QED BY <2>1, <1>19, WiresOK DEF SymbolsOK
  <1>21. i \in HeadsOf(d)
    BY <1>14, <1>19 DEF HeadsOf
  <1>22. d.told + 1 <= d.due
    <2>1. PICK z : z = d.place[i + 1]
      OBVIOUS
    <2>2. PICK t : t = d.told + 1
      OBVIOUS
    <2>3. t \in Nat /\ Enters(d, Content(d.sym[i].h, rk), t, z)
      BY <2>1, <2>2, <1>4, <1>19
    <2>4. z.at \in Nat /\ t <= z.at
      BY <2>3, EntersOn
    <2>5. i + 1 \in (d.read + 1)..(d.wrote + 1) /\ d.came + 1 \in (d.read + 1)..(d.wrote + 1) /\ i + 1 <= d.came + 1
      <3>1. i + 1 \in (d.read + 1)..(d.wrote + 1)
        BY <1>4, <1>5, <1>11, <1>13
      <3>2. d.came + 1 \in (d.read + 1)..(d.wrote + 1)
        BY <1>4, <1>5, <1>11
      <3>3. i + 1 <= d.came + 1
        BY <1>4, <1>11, <1>13
      <3> QED BY <3>1, <3>2, <3>3
    <2>6. d.place[i + 1].at <= d.place[d.came + 1].at
      BY <1>3, <2>5 DEF Runs
    <2>7. d.place[d.came + 1].at <= d.due
      BY <1>3 DEF Bounds
    <2>8. PICK b : b = d.place[d.came + 1].at
      OBVIOUS
    <2>9. b \in Nat
      <3>1. d.came + 1 \in Nat
        BY <1>4
      <3> QED BY <2>8, <3>1, <1>3, FlowTypes
    <2>10. z.at <= b /\ b <= d.due
      BY <2>1, <2>6, <2>7, <2>8
    <2>11. PICK a : a = z.at
      OBVIOUS
    <2>12. a \in Nat /\ t <= a /\ a <= b /\ b <= d.due
      BY <2>4, <2>10, <2>11
    <2>13. t <= d.due
      BY <2>3, <2>9, <2>12, <1>4
    <2> QED BY <2>2, <2>13
  <1>23. Len(q) = d.due - d.told /\ \A j \in 1..Len(q) : q[j] = d.item[d.told + j]
    BY <1>3 DEF Carries
  <1>24. Len(q) >= 1 /\ q[1] = HeadItem(d.sym[i].h)
    <2>1. Len(q) >= 1
      BY <1>2, <1>4, <1>22, <1>23
    <2>2. 1 \in 1..Len(q)
      BY <1>2, <2>1
    <2>3. q[1] = d.item[d.told + 1]
      BY <1>23, <2>2
    <2> QED BY <2>1, <2>3, <1>19 DEF Tells
  <1>25. Prefix(q, 1) = <<HeadItem(d.sym[i].h)>>
    <2>1. PICK h \in MessageHeads : h = d.sym[i].h
      BY <1>20
    <2>2. PICK t : t = <<HeadItem(h)>>
      OBVIOUS
    <2>3. t \in Seq(Items)
      BY <2>2, OneEach
    <2>4. Len(t) = 1 /\ t[1] = HeadItem(h)
      BY <2>2
    <2>5. Len(t) <= Len(q) /\ \A j \in 1..Len(t) : q[j] = t[j]
      BY <2>1, <2>4, <1>24
    <2>6. Prefix(q, Len(t)) = t
      BY <2>3, <2>5, PrefixIs
    <2> QED BY <2>1, <2>2, <2>4, <2>6
  <1>26. c.input[1] = d.sym[i]
    BY <1>1, <1>10, <1>13
  <1> QED BY <1>13, <1>14, <1>19, <1>20, <1>21, <1>25, <1>26 DEF HeadNext, NextHead

(* Where content of each framing begins.                                    *)
LEMMA EntersIs ==
    ASSUME NEW d, NEW f, NEW t, NEW z, Enters(d, f, t, z)
    PROVE  /\ f = NoFraming => z = Place("Head", 0, t)
           /\ f = Chunked => z = Place("ChunkSize", 0, t)
           /\ f = CloseDelimited => z = Place("CloseDelimited", 0, t)
           /\ f = Fixed(0) => Tells(d, t + 1, EndItem) /\ z = Place("Head", 0, t + 1)
           /\ \A n : f = Fixed(n) /\ n # 0 => z = Place("Fixed", n, t)
  BY DEF Enters, NoFraming, Fixed, Chunked, CloseDelimited, None

(* The reader that the content of a head calls for.                         *)
ReadsContent(e, f) ==
    IF peer_state(e) = "SendBody" THEN /\ e.cycle.reader = StartReader(f)
                                       /\ f = Chunked \/ f = CloseDelimited \/ \E n \in Nat : f = Fixed(n)
    ELSE f = NoFraming

(* The stream goes on by a head, to the end e.                              *)
HeadGoes(d, rk, from, e, w, q, broken) ==
    \E d2 : /\ SameFlow(d, d2) /\ d2.read = d.read + 1 /\ d2.told = d.told + 1
            /\ Stream(d2, rk, from, e, w, Skip(q, 1), broken)

(* A reader that takes the next head, and then reads the content that head  *)
(* calls for, has a stream again.                                           *)
LEMMA HeadStreamGoes ==
    ASSUME NEW d, NEW rk, NEW from, NEW c \in Connections(Wires), NEW w \in Seq(Wires), NEW q \in Seq(Items),
           NEW broken, Stream(d, rk, from, c, w, q, broken), peer_state(c) # "SendBody", c.input # <<>>,
           NEW f, f = Content(NextHead(d), rk),
           NEW e \in Connections(Wires), e.input = Skip(c.input, 1), ReadsContent(e, f)
    PROVE  HeadGoes(d, rk, from, e, w, q, broken)
  <1>1. HeadNext(d, rk, c, q)
    BY HeadIsNext
  <1>2. Enters(d, f, d.told + 1, d.place[d.read + 2])
    BY <1>1 DEF HeadNext
  <1>3. d \in Flows
    BY DEF Stream
  <1>4. d.read \in Nat /\ d.told \in Nat
    BY <1>3, FlowTypes
  <1>5. PICK o : o = d.read + 1
    OBVIOUS
  <1>6. PICK t : t = d.told + 1
    OBVIOUS
  <1>7. o + 1 = d.read + 2
    BY <1>4, <1>5
  <1>8. PICK z : z = d.place[o + 1]
    OBVIOUS
  <1>9. Enters(d, f, t, z)
    BY <1>2, <1>6, <1>7, <1>8
  <1>10. StartsAt(d, o, t, e)
    <2>1. CASE peer_state(e) # "SendBody"
      <3>1. f = NoFraming
        BY <2>1 DEF ReadsContent
      <3>2. z = Place("Head", 0, t)
        BY <3>1, <1>9, EntersIs
      <3> QED BY <2>1, <3>2, <1>8 DEF StartsAt
    <2>2. CASE peer_state(e) = "SendBody"
      <3>1. e.cycle.reader = StartReader(f) /\ (f = Chunked \/ f = CloseDelimited \/ \E n \in Nat : f = Fixed(n))
        BY <2>2 DEF ReadsContent
      <3>2. Stands(d, o + 1, StartReader(f), t)
        <4>1. CASE f = Chunked
          <5>1. StartReader(f).kind = "ChunkSize" /\ StartReader(f).n = 0
            BY <4>1 DEF StartReader, Reader, Chunked
          <5>2. z = Place("ChunkSize", 0, t)
            BY <4>1, <1>9, EntersIs
          <5> QED BY <5>1, <5>2, <1>8 DEF Stands
        <4>2. CASE f = CloseDelimited
          <5>1. StartReader(f).kind = "CloseDelimited" /\ StartReader(f).n = 0
            BY <4>2 DEF StartReader, Reader, Chunked, CloseDelimited
          <5>2. z = Place("CloseDelimited", 0, t)
            BY <4>2, <1>9, EntersIs
          <5> QED BY <5>1, <5>2, <1>8 DEF Stands
        <4>3. ASSUME NEW n \in Nat, f = Fixed(n) PROVE Stands(d, o + 1, StartReader(f), t)
          <5>1. StartReader(f).kind = "Fixed" /\ StartReader(f).n = n
            BY <4>3 DEF StartReader, Reader, Chunked, Fixed
          <5>2. n = 0 => Tells(d, t + 1, EndItem) /\ z = Place("Head", 0, t + 1)
            BY <4>3, <1>9, EntersIs
          <5>3. n # 0 => z = Place("Fixed", n, t)
            BY <4>3, <1>9, EntersIs
          <5> QED BY <5>1, <5>2, <5>3, <1>8 DEF Stands
        <4> QED BY <3>1, <4>1, <4>2, <4>3
      <3> QED BY <2>2, <3>1, <3>2 DEF StartsAt
    <2> QED BY <2>1, <2>2
  <1>11. PICK x : x = c.input
    OBVIOUS
  <1>12. x \in Seq(Wires) /\ Len(x) \in Nat /\ Len(x) >= 1
    <2>1. x \in Seq(Wires) /\ x # <<>>
      BY <1>11 DEF Connections
    <2> QED BY <2>1, LenProperties, FirstElement
  <1>13. PICK y : y = e.input
    OBVIOUS
  <1>14. y \in Seq(Wires) /\ Len(y) = Len(x) - 1 /\ \A i \in 1..(Len(x) - 1) : y[i] = x[i + 1]
    <2>1. PICK k : k = 1
      OBVIOUS
    <2>2. k \in 0..Len(x) /\ y = Skip(x, k)
      BY <2>1, <1>11, <1>12, <1>13
    <2>3. y \in Seq(Wires) /\ Len(y) = Len(x) - k /\ \A i \in 1..(Len(x) - k) : y[i] = x[i + k]
      BY <2>2, <1>12, SkipLeavesRest
    <2> QED BY <2>1, <2>3
  <1>15. PICK b : b = d.read + Len(x)
    OBVIOUS
  <1>16. Follows(x, d.sym, d.read)
    <2>1. Carries(d, x \o w, q, broken)
      BY <1>11 DEF Stream
    <2>2. Follows(x \o w, d.sym, d.read)
      BY <2>1, CarriesFollows
    <2> QED BY <2>2, <1>4, <1>12, FollowsSplit
  <1>17. Reading(d, o, y, b)
    <2>1. o + Len(y) = b
      <3>1. PICK a : a = Len(x)
        OBVIOUS
      <3>2. a \in Nat /\ Len(y) = a - 1 /\ b = d.read + a
        BY <3>1, <1>12, <1>14, <1>15
      <3> QED BY <3>2, <1>4, <1>5
    <2>2. ASSUME NEW i \in 1..Len(y) PROVE y[i] = d.sym[o + i]
      <3>1. PICK a : a = Len(x)
        OBVIOUS
      <3>2. a \in Nat /\ Len(y) = a - 1 /\ i \in 1..(a - 1)
        BY <3>1, <1>12, <1>14
      <3>3. i + 1 \in 1..a /\ i \in Nat
        BY <3>2
      <3>4. y[i] = x[i + 1] /\ x[i + 1] = d.sym[d.read + (i + 1)]
        BY <3>1, <3>2, <3>3, <1>14, <1>16 DEF Follows
      <3>5. d.read + (i + 1) = o + i
        <4>1. PICK r : r = d.read
          OBVIOUS
        <4>2. r \in Nat /\ o = r + 1
          BY <4>1, <1>4, <1>5
        <4>3. r + (i + 1) = o + i
          BY <4>2, <3>3
        <4> QED BY <4>1, <4>3
      <3> QED BY <3>4, <3>5
    <2> QED BY <2>1, <2>2 DEF Reading
  <1>18. o \in d.read..b
    <2>1. PICK a : a = Len(x)
      OBVIOUS
    <2>2. a \in Nat /\ a >= 1 /\ b = d.read + a
      BY <2>1, <1>12, <1>15
    <2> QED BY <2>2, <1>4, <1>5
  <1>19. GoesOn(d, c, e, o, 1)
    <2>1. o \in d.read..(d.read + Len(c.input)) /\ Reading(d, o, e.input, d.read + Len(c.input))
      BY <1>11, <1>13, <1>15, <1>17, <1>18
    <2>2. c.input \in Seq(Wires) /\ e.input \in Seq(Wires)
      BY <1>11, <1>12, <1>13, <1>14
    <2> QED BY <2>1, <2>2, <1>6, <1>10 DEF GoesOn
  <1>20. \E d2 : /\ SameFlow(d, d2) /\ d2.read = o /\ d2.told = d.told + 1
                 /\ Stream(d2, rk, from, e, w, Skip(q, 1), broken)
    <2>1. PICK k : k = 1
      OBVIOUS
    <2>2. GoesOn(d, c, e, o, k)
      BY <2>1, <1>19
    <2>3. \E d2 : /\ SameFlow(d, d2) /\ d2.read = o /\ d2.told = d.told + k
                  /\ Stream(d2, rk, from, e, w, Skip(q, k), broken)
      BY <2>2, StreamSkips
    <2> QED BY <2>1, <2>3
  <1> QED BY <1>5, <1>20 DEF HeadGoes

----------------------------------------------------------------------------
(* Heads under way.                                                         *)

(* The heads under way are heads of messages.                               *)
LEMMA HeadsTyped ==
    ASSUME NEW d \in Flows
    PROVE  \A i \in HeadsOf(d) : /\ i \in Nat /\ d.read + 1 <= i /\ i <= d.wrote
                                 /\ d.sym[i].tok = "head" /\ d.sym[i].h \in MessageHeads
  <1>1. d.read \in Nat /\ d.wrote \in Nat
    BY FlowTypes
  <1>2. SUFFICES ASSUME NEW i \in HeadsOf(d)
                 PROVE  /\ i \in Nat /\ d.read + 1 <= i /\ i <= d.wrote
                        /\ d.sym[i].tok = "head" /\ d.sym[i].h \in MessageHeads
    OBVIOUS
  <1>3. i \in (d.read + 1)..d.wrote /\ d.sym[i].tok = "head"
    BY <1>2 DEF HeadsOf
  <1>4. i \in Nat /\ d.read + 1 <= i /\ i <= d.wrote
    BY <1>1, <1>3
  <1>5. d.sym[i] \in Wires
    BY <1>4, FlowTypes
  <1> QED BY <1>3, <1>4, <1>5, WiresOK DEF SymbolsOK

(* The same heads are under way.                                            *)
SameHeads(d, d2) == HeadsOf(d2) = HeadsOf(d) /\ \A i \in HeadsOf(d) : d2.sym[i] = d.sym[i]

(* A mark that the reader does not set leaves the heads under way.          *)
LEMMA CutHeads ==
    ASSUME NEW d \in Flows, NEW d2, SameFlow(d, d2), d2.read = d.read
    PROVE  SameHeads(d, d2)
  BY DEF SameFlow, SameHeads, HeadsOf

(* A reader that passes no head leaves them too.                            *)
LEMMA ReadHeads ==
    ASSUME NEW d \in Flows, NEW d2, SameFlow(d, d2), d.read <= d2.read, d2.read <= d2.wrote, NoHeads(d, d2.read)
    PROVE  SameHeads(d, d2) /\ (d.read = d.wrote => d2.read = d2.wrote)
  <1>1. d2 \in Flows /\ d2.sym = d.sym /\ d2.wrote = d.wrote
    BY DEF SameFlow
  <1>2. d.read \in Nat /\ d.wrote \in Nat /\ d2.read \in Nat
    BY <1>1, FlowTypes
  <1>3. HeadsOf(d2) = HeadsOf(d)
    <2>1. ASSUME NEW i \in HeadsOf(d2) PROVE i \in HeadsOf(d)
      <3>1. i \in (d2.read + 1)..d.wrote /\ d.sym[i].tok = "head"
        BY <1>1, <2>1 DEF HeadsOf
      <3>2. i \in (d.read + 1)..d.wrote
        BY <1>2, <3>1
      <3> QED BY <3>1, <3>2 DEF HeadsOf
    <2>2. ASSUME NEW i \in HeadsOf(d) PROVE i \in HeadsOf(d2)
      <3>1. i \in (d.read + 1)..d.wrote /\ d.sym[i].tok = "head"
        BY <2>2 DEF HeadsOf
      <3>2. i \notin (d.read + 1)..d2.read
        BY <3>1 DEF NoHeads
      <3>3. i \in (d2.read + 1)..d.wrote
        BY <1>2, <3>1, <3>2
      <3> QED BY <1>1, <3>1, <3>3 DEF HeadsOf
    <2> QED BY <2>1, <2>2
  <1>4. d.read = d.wrote => d2.read = d2.wrote
    BY <1>1, <1>2
  <1> QED BY <1>1, <1>3, <1>4 DEF SameHeads

(* The reader takes the head that comes next.                               *)
LEMMA TakenHeads ==
    ASSUME NEW d \in Flows, NEW d2, SameFlow(d, d2), d2.read = d.read + 1
    PROVE  /\ HeadsOf(d2) = HeadsOf(d) \ {d.read + 1}
           /\ \A i \in HeadsOf(d2) : d2.sym[i] = d.sym[i] /\ d.read + 1 < i
  <1>1. d2 \in Flows /\ d2.sym = d.sym /\ d2.wrote = d.wrote
    BY DEF SameFlow
  <1>2. d.read \in Nat /\ d.wrote \in Nat /\ d2.read \in Nat
    BY <1>1, FlowTypes
  <1>3. ASSUME NEW i \in HeadsOf(d2) PROVE i \in HeadsOf(d) /\ i # d.read + 1 /\ d.read + 1 < i
    <2>1. i \in (d2.read + 1)..d.wrote /\ d.sym[i].tok = "head"
      BY <1>1, <1>3 DEF HeadsOf
    <2>2. i \in (d.read + 1)..d.wrote /\ d.read + 1 < i
      BY <1>2, <2>1
    <2>3. i # d.read + 1
      BY <1>2, <2>1
    <2> QED BY <2>1, <2>2, <2>3 DEF HeadsOf
  <1>4. ASSUME NEW i \in HeadsOf(d), i # d.read + 1 PROVE i \in HeadsOf(d2)
    <2>1. i \in (d.read + 1)..d.wrote /\ d.sym[i].tok = "head"
      BY <1>4 DEF HeadsOf
    <2>2. i \in (d2.read + 1)..d.wrote
      BY <1>2, <1>4, <2>1
    <2> QED BY <1>1, <2>1, <2>2 DEF HeadsOf
  <1> QED BY <1>1, <1>3, <1>4

(* There is no head among the symbols g.                                    *)
Headless(g) == \A i \in 1..Len(g) : g[i].tok # "head"

(* To write no head leaves them too.                                        *)
LEMMA GrownHeads ==
    ASSUME NEW d \in Flows, NEW d2, NEW g \in Seq(Wires), NEW r \in Seq(Items), Grown(d, d2, g, r), Headless(g)
    PROVE  SameHeads(d, d2)
  <1>1. d2 \in Flows /\ d2.read = d.read /\ d2.wrote = d.wrote + Len(g) /\ Len(g) \in Nat
    BY LenProperties DEF Grown
  <1>2. d.read \in Nat /\ d.wrote \in Nat /\ d2.wrote \in Nat
    BY <1>1, FlowTypes
  <1>3. (\A i \in 1..d.wrote : d2.sym[i] = d.sym[i]) /\ \A i \in 1..Len(g) : d2.sym[d.wrote + i] = g[i]
    BY DEF Grown
  <1>4. ASSUME NEW i \in HeadsOf(d) PROVE i \in HeadsOf(d2) /\ d2.sym[i] = d.sym[i]
    <2>1. i \in (d.read + 1)..d.wrote /\ d.sym[i].tok = "head"
      BY <1>4 DEF HeadsOf
    <2>2. i \in 1..d.wrote /\ i \in (d2.read + 1)..d2.wrote
      BY <1>1, <1>2, <2>1
    <2>3. d2.sym[i] = d.sym[i]
      BY <1>3, <2>2
    <2> QED BY <2>1, <2>2, <2>3 DEF HeadsOf
  <1>5. ASSUME NEW i \in HeadsOf(d2) PROVE i \in HeadsOf(d)
    <2>1. i \in (d2.read + 1)..d2.wrote /\ d2.sym[i].tok = "head"
      BY <1>5 DEF HeadsOf
    <2>2. ASSUME i > d.wrote PROVE FALSE
      <3>1. PICK k : k = i - d.wrote
        OBVIOUS
      <3>2. i \in Nat /\ i <= d.wrote + Len(g)
        BY <1>1, <1>2, <2>1
      <3>3. k \in 1..Len(g) /\ d.wrote + k = i
        BY <1>1, <1>2, <2>2, <3>1, <3>2
      <3>4. d2.sym[i] = g[k]
        BY <1>3, <3>3
      <3> QED BY <2>1, <3>3, <3>4 DEF Headless
    <2>3. i \in (d.read + 1)..d.wrote /\ i \in 1..d.wrote
      BY <1>1, <1>2, <2>1, <2>2
    <2>4. d2.sym[i] = d.sym[i]
      BY <1>3, <2>3
    <2> QED BY <2>1, <2>3, <2>4 DEF HeadsOf
  <1> QED BY <1>4, <1>5 DEF SameHeads

(* A head is written.                                                       *)
LEMMA GrownHead ==
    ASSUME NEW d \in Flows, NEW d2, NEW h \in MessageHeads, NEW r \in Seq(Items), NEW g, g = <<HeadOf(h)>>,
           Grown(d, d2, g, r), d.read <= d.wrote
    PROVE  /\ d2.wrote = d.wrote + 1 /\ d2.sym[d2.wrote] = HeadOf(h) /\ HeadOf(h).tok = "head" /\ HeadOf(h).h = h
           /\ HeadsOf(d2) = HeadsOf(d) \cup {d2.wrote}
           /\ \A i \in HeadsOf(d) : d2.sym[i] = d.sym[i] /\ i < d2.wrote
  <1>1. Len(g) = 1 /\ g[1] = HeadOf(h)
    OBVIOUS
  <1>2. d2 \in Flows /\ d2.read = d.read /\ d2.wrote = d.wrote + 1
    BY <1>1 DEF Grown
  <1>3. d.read \in Nat /\ d.wrote \in Nat /\ d2.wrote \in Nat
    BY <1>2, FlowTypes
  <1>4. (\A i \in 1..d.wrote : d2.sym[i] = d.sym[i]) /\ \A i \in 1..Len(g) : d2.sym[d.wrote + i] = g[i]
    BY DEF Grown
  <1>5. d2.sym[d2.wrote] = HeadOf(h)
    <2>1. 1 \in 1..Len(g)
      BY <1>1
    <2>2. d2.sym[d.wrote + 1] = g[1]
      BY <1>4, <2>1
    <2> QED BY <1>1, <1>2, <2>2
  <1>6. HeadOf(h).tok = "head" /\ HeadOf(h).h = h
    BY DEF HeadOf
  <1>7. ASSUME NEW i \in HeadsOf(d) PROVE i \in HeadsOf(d2) /\ d2.sym[i] = d.sym[i] /\ i < d2.wrote
    <2>1. i \in (d.read + 1)..d.wrote /\ d.sym[i].tok = "head"
      BY <1>7 DEF HeadsOf
    <2>2. i \in 1..d.wrote /\ i \in (d2.read + 1)..d2.wrote /\ i < d2.wrote
      BY <1>2, <1>3, <2>1
    <2>3. d2.sym[i] = d.sym[i]
      BY <1>4, <2>2
    <2> QED BY <2>1, <2>2, <2>3 DEF HeadsOf
  <1>8. d2.wrote \in HeadsOf(d2)
    <2>1. d2.wrote \in (d2.read + 1)..d2.wrote
      BY <1>2, <1>3
    <2> QED BY <2>1, <1>5, <1>6 DEF HeadsOf
  <1>9. ASSUME NEW i \in HeadsOf(d2), i # d2.wrote PROVE i \in HeadsOf(d)
    <2>1. i \in (d2.read + 1)..d2.wrote /\ d2.sym[i].tok = "head"
      BY <1>9 DEF HeadsOf
    <2>2. i \in (d.read + 1)..d.wrote /\ i \in 1..d.wrote
      BY <1>2, <1>3, <1>9, <2>1
    <2>3. d2.sym[i] = d.sym[i]
      BY <1>4, <2>2
    <2> QED BY <2>1, <2>2, <2>3 DEF HeadsOf
  <1> QED BY <1>2, <1>5, <1>6, <1>7, <1>8, <1>9

(* The symbols of bodies are no heads.                                      *)
LEMMA SymbolsHeadless ==
    ASSUME NEW g \in Seq(WireSymbols)
    PROVE  Headless(g)
  <1>1. \A x \in WireSymbols : x.tok # "head"
    BY DEF WireSymbols, Symbol, Hex
  <1>2. \A i \in 1..Len(g) : g[i] \in WireSymbols
    OBVIOUS
  <1> QED BY <1>1, <1>2 DEF Headless

(* send_data writes no head.                                                *)
LEMMA DataHeadless ==
    ASSUME NEW c, NEW n \in Nat, NEW r, r = send_data(c, n)
    PROVE  Headless(r.wire)
  BY WireTyped, SymbolsHeadless

(* end_of_message writes no head.                                           *)
LEMMA EndHeadless ==
    ASSUME NEW c, NEW Y, NEW trailers \in Seq(Y), NEW r, r = end_of_message(c, trailers)
    PROVE  Headless(r.wire)
  <1>1. /\ <<>> \in Seq(WireSymbols) /\ <<Symbol("crlf")>> \in Seq(WireSymbols)
        /\ \A n \in Nat : <<Hex(n), Symbol("crlf")>> \in Seq(WireSymbols)
    BY DEF WireSymbols
  <1>3. \A s, t \in Seq(WireSymbols) : s \o t \in Seq(WireSymbols)
    BY ConcatProperties
  <1>6. Trailer(trailers) \in Seq(WireSymbols)
    <2>1. Trailer(trailers) = [i \in 1..Len(trailers) |-> Symbol("field")] /\ Len(trailers) \in Nat
      BY LenProperties DEF Trailer
    <2>2. Symbol("field") \in WireSymbols
      BY DEF WireSymbols
    <2> QED BY <2>1, <2>2, RunOfSymbols
  <1>7. last_chunk(trailers) \in Seq(WireSymbols)
    BY <1>1, <1>3, <1>6 DEF last_chunk
  <1>8. r.wire \in Seq(WireSymbols)
    BY <1>1, <1>7 DEF end_of_message, Sent, Refused
  <1> QED BY <1>8, SymbolsHeadless

(* At the start of a message the next symbol written is a head.             *)
LEMMA HeadComes ==
    ASSUME NEW d \in Flows, NEW rk, Runs(d, rk), d.place[d.read + 1].kind = "Head", d.read < d.wrote
    PROVE  d.read + 1 \in HeadsOf(d)
  <1>1. d.read \in Nat /\ d.wrote \in Nat
    BY FlowTypes
  <1>2. PICK i : i = d.read + 1
    OBVIOUS
  <1>3. i \in (d.read + 1)..d.wrote
    BY <1>1, <1>2
  <1>4. Passes(d, rk, d.place[i], d.sym[i], d.place[i + 1])
    BY <1>3 DEF Runs
  <1>5. d.sym[i].tok = "head"
    BY <1>2, <1>4 DEF Passes, PassesByte, PassesLine, PassesHead
  <1> QED BY <1>2, <1>3, <1>5 DEF HeadsOf

(* Between messages, with no head under way, nothing is.                    *)
LEMMA HeadlessEmpty ==
    ASSUME NEW d, NEW rk, NEW from, NEW to, NEW w, NEW q, NEW broken,
           Stream(d, rk, from, to, w, q, broken), peer_state(to) # "SendBody", HeadsOf(d) = {}
    PROVE  d.read = d.wrote
  <1>1. d \in Flows /\ Runs(d, rk) /\ Bounds(d) /\ Starts(d, to)
    BY DEF Stream
  <1>2. d.read \in Nat /\ d.came \in Nat /\ d.wrote \in Nat
    BY <1>1, FlowTypes
  <1>3. d.read <= d.wrote
    <2>1. d.read <= d.came /\ d.came <= d.wrote
      BY <1>1 DEF Bounds
    <2> QED BY <1>2, <2>1
  <1>4. d.place[d.read + 1].kind = "Head"
    BY <1>1 DEF Starts, Place
  <1>5. ~(d.read < d.wrote)
    BY <1>1, <1>4, HeadComes
  <1> QED BY <1>2, <1>3, <1>5

(* The types of a stream's marks.                                           *)
LEMMA StreamOrder ==
    ASSUME NEW d, NEW rk, NEW from, NEW to, NEW w, NEW q, NEW broken, Stream(d, rk, from, to, w, q, broken)
    PROVE  d \in Flows /\ d.read <= d.wrote /\ d.read \in Nat /\ d.wrote \in Nat
  <1>1. d \in Flows /\ Bounds(d)
    BY DEF Stream
  <1>2. d.read \in Nat /\ d.came \in Nat /\ d.wrote \in Nat
    BY <1>1, FlowTypes
  <1>3. d.read <= d.came /\ d.came <= d.wrote
    BY <1>1 DEF Bounds
  <1> QED BY <1>1, <1>2, <1>3

(* A stream with nothing left stands where its writer does.                 *)
LEMMA EmptyStream ==
    ASSUME NEW d, NEW rk, NEW from, NEW to, NEW w, NEW q, NEW broken,
           Stream(d, rk, from, to, w, q, broken), peer_state(to) # "SendBody", d.read = d.wrote
    PROVE  /\ local_state(from) = "SendBody" /\ from.cycle.writer.kind # "Head" => from.cycle.writer = Fixed(0)
           /\ local_state(from) = "Closed" /\ ~broken /\ q \in Seq(Items) => q = <<>>
  <1>1. d \in Flows /\ Starts(d, to) /\ Finishing(d, from) /\ Carries(d, to.input \o w, q, broken)
    BY DEF Stream
  <1>2. d.told \in Nat /\ d.due \in Nat /\ d.said \in Nat
    BY <1>1, FlowTypes
  <1>3. d.place[d.wrote + 1] = Place("Head", 0, d.told)
    BY <1>1 DEF Starts
  <1>4. local_state(from) = "SendBody" /\ from.cycle.writer.kind # "Head" => from.cycle.writer = Fixed(0)
    <2>1. SUFFICES ASSUME local_state(from) = "SendBody", from.cycle.writer.kind # "Head", from.cycle.writer # Fixed(0)
                   PROVE FALSE
      OBVIOUS
    <2>2. d.place[d.wrote + 1] = WriterPlace(from.cycle.writer, d.said)
      BY <1>1, <2>1 DEF Finishing
    <2>3. WriterPlace(from.cycle.writer, d.said).kind # "Head"
      BY <2>1 DEF WriterPlace, Place
    <2>4. Place("Head", 0, d.told).kind = "Head"
      BY DEF Place
    <2> QED BY <1>3, <2>2, <2>3, <2>4
  <1>5. ASSUME local_state(from) = "Closed", ~broken, q \in Seq(Items) PROVE q = <<>>
    <2>1. \/ d.place[d.wrote + 1] = Place("Head", 0, d.said)
          \/ d.place[d.wrote + 1] = Place("CloseDelimited", 0, d.said - 1)
      BY <1>1, <1>5 DEF Finishing
    <2>2. d.told = d.said
      BY <1>3, <2>1 DEF Place
    <2>3. d.due = d.said /\ Len(q) = d.due - d.told
      BY <1>1, <1>5, CarriesFollows
    <2>4. Len(q) = 0
      BY <1>2, <2>2, <2>3
    <2> QED BY <1>5, <2>4
  <1> QED BY <1>4, <1>5

----------------------------------------------------------------------------
(* The phases of an exchange, and what the heads under way say.             *)

(* The client's cycle has its request.                                      *)
Asked(c) == c.cycle.request_kind # None

(* The server has read the request of the client's cycle, where the client  *)
(* is a cycles further than the server.                                     *)
Begun(s, a) == a = -1 \/ (a = 0 /\ s.cycle.request_kind # None)

(* The server has answered so that the connection persists, and the rest of *)
(* the request is in its buffer.                                            *)
Persists(s) == WordKept(s, "persist")

(* The states of its peer in which the client still reads the stream: not   *)
(* once it has failed, closed or switched.                                  *)
Follow == {"Idle", "SendResponse", "SendBody", "Done"}

(* The client alone.                                                        *)
ClientPhase(c) ==
    /\ ~Asked(c) => /\ c.st.client \in {"Idle", "MustClose", "Closed"}
                    /\ c.st.server \in {"Idle", "MustClose", "Closed", "Error"}
                    /\ ~c.cycle.waiting_for_continue
                    /\ c.st.client = "Idle" /\ c.st.server = "Idle" => c.st.keep_alive \/ c.eof
    /\ Asked(c) => c.st.client # "Idle" /\ c.st.server # "Idle"

(* The server alone: before the request it is idle or closing, after it     *)
(* never idle.                                                              *)
ServerPhase(s) ==
    /\ s.cycle.request_kind = None => /\ s.st.client \in {"Idle", "MustClose", "Closed", "Error"}
                                      /\ s.st.server \in {"Idle", "MustClose", "Closed"}
                                      /\ s.st.client = "Idle" => s.st.server = "Idle"
    /\ s.cycle.request_kind # None => s.st.client # "Idle" /\ s.st.server # "Idle"

(* The cycles of the two: the ends are at most one cycle apart; the one     *)
(* that is behind has said nothing that forbids reuse; amid one exchange    *)
(* they know the same request; no client switches before the server does.   *)
SharedPhase(c, s, a) ==
    /\ a \in {-1, 0, 1}
    /\ Begun(s, a) => Asked(c)
    /\ ~Begun(s, a) => c.st.server \in {"Idle", "SendResponse", "MustClose", "Closed", "Error"}
    /\ a = -1 => s.cycle.request_kind = None /\ (c.st.keep_alive \/ c.eof)
    /\ a = 1 => /\ s.cycle.request_kind # None /\ Persists(s)
                /\ s.st.server = "SendBody" => s.cycle.writer = Fixed(0)
    /\ Begun(s, a) /\ a = 0 => /\ s.cycle.request_kind = c.cycle.request_kind
                               /\ s.st.keep_alive /\ s.st.server # "SwitchedProtocol" => c.st.keep_alive \/ c.eof
    /\ c.st.keep_alive /\ c.st.server \in {"SendBody", "Done"} => a = -1 \/ Persists(s)
    /\ c.st.server = "SwitchedProtocol" => s.st.server = "SwitchedProtocol"

(* The phases of both ends.                                                 *)
Phase(c, s, a) == ClientPhase(c) /\ ServerPhase(s) /\ SharedPhase(c, s, a)

(* A request under way is one that the server will accept, and the client's *)
(* cycle holds what the head says.                                          *)
GoodRequest(c, h) ==
    /\ h.kind = "request" /\ h.syntax = "ok" /\ Requestable(h, RequestFraming(h))
    /\ c.cycle.request_kind = RequestKind(h.method) /\ c.cycle.upgrade_proposals = Upgrades(h)
    /\ c.cycle.continue_before_upgrade <=> (expects_continue(h, RequestFraming(h)) /\ Upgrades(h) # {})
    /\ c.cycle.waiting_for_continue => expects_continue(h, RequestFraming(h))
    /\ persistent(h) => c.st.keep_alive \/ c.eof

(* A client that waits for 100 (Continue) has written nothing after the     *)
(* head of its request.                                                     *)
WaitsAfterHead(c, d) == c.cycle.waiting_for_continue => d.read = d.wrote \/ d.sym[d.wrote].tok = "head"

(* What is under way to the server: the head of the client's request as     *)
(* long as the server has not read it, and no other head.                   *)
UpMarks(c, s, d, a) ==
    /\ \A i, j \in HeadsOf(d) : i = j
    /\ (HeadsOf(d) # {}) <=> (Asked(c) /\ ~Begun(s, a))
    /\ \A i \in HeadsOf(d) : GoodRequest(c, d.sym[i].h)
    /\ WaitsAfterHead(c, d)

(* What the server's answer under way says of the server, after exchange    *)
(* number a.                                                                *)
Switching(c, s, d, i, h) ==
    h.status = 101 => /\ valid_upgrade_response(c, h) /\ s.st.server = "SwitchedProtocol"
                      /\ c.cycle.continue_before_upgrade =>
                            \E j \in HeadsOf(d) : j < i /\ d.sym[j].h.status = 100

(* A response that ends the exchange of heads: 101 or a final one.          *)
Final(h) == h.status = 101 \/ ~is_informational(h.status)

(* A final response under way has a framing for this client; one that opens *)
(* a tunnel has switched the server; and client and server will decide      *)
(* alike whether the connection is reused.                                  *)
Answered(c, s, a, h) ==
    ~is_informational(h.status) =>
        /\ FinalFraming(c, h) # FramingError
        /\ opens_tunnel(c, h.status) => s.st.server = "SwitchedProtocol"
        /\ ~opens_tunnel(c, h.status) =>
              /\ s.st.keep_alive \/ a = -1 => AsksReuse(h, c.cycle.request_kind)
              /\ AsksReuse(h, c.cycle.request_kind) => a = -1 \/ Persists(s)

(* A response under way is one that the client will accept, and the final   *)
(* one is the last.                                                         *)
GoodResponse(c, s, d, a, i, h) ==
    /\ h.kind = "response" /\ h.syntax = "ok"
    /\ is_informational(h.status) => ResponseFraming(h) # FramingError
    /\ Switching(c, s, d, i, h)
    /\ Final(h) => s.st.server # "SendResponse" /\ \A j \in HeadsOf(d) : j <= i
    /\ Answered(c, s, a, h)

(* A 100 response is under way.                                             *)
ContinueUnderWay(d) == \E j \in HeadsOf(d) : d.sym[j].h.status = 100

(* A response that ends the client's wait is under way.                     *)
AnswerUnderWay(d) == \E j \in HeadsOf(d) : d.sym[j].h.status = 100 \/ ~is_informational(d.sym[j].h.status)

(* Before the server's final response both ends know the same upgrade       *)
(* proposals; a 100 response that only the server has recorded is under     *)
(* way.                                                                     *)
Proposals(c, s, d, a) ==
    Begun(s, a) /\ a = 0 /\ s.st.server = "SendResponse" =>
        /\ s.cycle.upgrade_proposals = c.cycle.upgrade_proposals
        /\ c.cycle.continue_before_upgrade /\ ~s.cycle.continue_before_upgrade => ContinueUnderWay(d)

(* A client that still waits for 100 (Continue), once the server has its    *)
(* request, either waits for a server that knows, or the answer that ends   *)
(* the wait is under way.                                                   *)
WaitsKnown(c, s, d, a) ==
    c.cycle.waiting_for_continue /\ Begun(s, a) =>
        (a = 0 /\ s.cycle.waiting_for_continue) \/ AnswerUnderWay(d)

(* What is under way to the client: responses it will accept, nothing       *)
(* before the server has the request, and no head once the client has read  *)
(* the final one.                                                           *)
DownMarks(c, s, d, a) ==
    /\ ~Begun(s, a) => d.read = d.wrote
    /\ c.st.server # "SendResponse" => HeadsOf(d) = {}
    /\ \A i \in HeadsOf(d) : GoodResponse(c, s, d, a, i, d.sym[i].h)
    /\ c.st.server \in {"SendBody", "Done"} /\ a = 0 => s.st.server # "SendResponse"
    /\ Proposals(c, s, d, a)
    /\ WaitsKnown(c, s, d, a)

(* How the state of the peer may change in a client by a call that reads no *)
(* head.                                                                    *)
ServerPart(x, y) ==
    \/ y = x
    \/ x = "SendBody" /\ y = "Done"
    \/ x \in {"Idle", "SendBody", "Done", "MustClose", "Closed"} /\ y \in {"MustClose", "Closed"}

(* A step of the client that neither sends a head, reads one nor begins a   *)
(* cycle.                                                                   *)
ClientStep(c, e) ==
    /\ SameExchange(c, e)
    /\ e.cycle.waiting_for_continue => c.cycle.waiting_for_continue
    /\ e.st.keep_alive => c.st.keep_alive
    /\ c.st.keep_alive \/ c.eof => e.st.keep_alive \/ e.eof
    /\ c.eof => e.eof
    /\ ServerPart(c.st.server, e.st.server)
    /\ e.st.client = "Idle" => c.st.client = "Idle"
    /\ c.st.client \in {"Idle", "MustClose", "Closed"} => e.st.client \in {"Idle", "MustClose", "Closed"}

(* The same for the server.                                                 *)
ServerStep(s, e) ==
    /\ SameExchange(s, e)
    /\ e.st.keep_alive => s.st.keep_alive
    /\ Persists(s) => Persists(e)
    /\ ServerPart(s.st.server, e.st.server)
    /\ e.st.server = "SendBody" /\ s.cycle.writer = Fixed(0) => e.cycle.writer = Fixed(0)
    /\ e.st.client = "Idle" => s.st.client = "Idle" /\ e.st.server = s.st.server
    /\ s.st.client \in {"Idle", "MustClose", "Closed", "Error"} =>
          e.st.client \in {"Idle", "MustClose", "Closed", "Error"}

(* Such a step of the client keeps the phases.                              *)
LEMMA ClientStepPhase ==
    ASSUME NEW c, NEW s, NEW a, NEW e, Phase(c, s, a), ClientStep(c, e)
    PROVE  Phase(e, s, a)
  <1>1. Asked(e) <=> Asked(c)
    BY DEF ClientStep, SameExchange, Asked
  <1>2. ClientPhase(e)
    BY <1>1 DEF Phase, ClientPhase, ClientStep, ServerPart
  <1>3. SharedPhase(e, s, a)
    <2>1. Begun(s, a) => Asked(e)
      BY <1>1 DEF Phase, SharedPhase
    <2>2. ~Begun(s, a) => e.st.server \in {"Idle", "SendResponse", "MustClose", "Closed", "Error"}
      BY DEF Phase, SharedPhase, ClientStep, ServerPart
    <2>3. a = -1 => s.cycle.request_kind = None /\ (e.st.keep_alive \/ e.eof)
      BY DEF Phase, SharedPhase, ClientStep
    <2>4. Begun(s, a) /\ a = 0 => /\ s.cycle.request_kind = e.cycle.request_kind
                                  /\ s.st.keep_alive /\ s.st.server # "SwitchedProtocol" => e.st.keep_alive \/ e.eof
      BY DEF Phase, SharedPhase, ClientStep, SameExchange
    <2>5. e.st.keep_alive /\ e.st.server \in {"SendBody", "Done"} => a = -1 \/ Persists(s)
      BY DEF Phase, SharedPhase, ClientStep, ServerPart
    <2>6. e.st.server = "SwitchedProtocol" => s.st.server = "SwitchedProtocol"
      BY DEF Phase, SharedPhase, ClientStep, ServerPart
    <2> QED BY <2>1, <2>2, <2>3, <2>4, <2>5, <2>6 DEF Phase, SharedPhase
  <1> QED BY <1>2, <1>3 DEF Phase

(* Such a step of the server keeps the phases.                              *)
LEMMA ServerStepPhase ==
    ASSUME NEW c, NEW s, NEW a, NEW e, Phase(c, s, a), ServerStep(s, e)
    PROVE  Phase(c, e, a) /\ (Begun(e, a) <=> Begun(s, a))
  <1>1. Begun(e, a) <=> Begun(s, a)
    BY DEF ServerStep, SameExchange, Begun
  <1>2. ServerPhase(e)
    BY DEF Phase, ServerPhase, ServerStep, ServerPart, SameExchange
  <1>3. SharedPhase(c, e, a)
    <2>1. a = -1 => e.cycle.request_kind = None /\ (c.st.keep_alive \/ c.eof)
      BY DEF Phase, SharedPhase, ServerStep, SameExchange
    <2>2. a = 1 => /\ e.cycle.request_kind # None /\ Persists(e)
                   /\ e.st.server = "SendBody" => e.cycle.writer = Fixed(0)
      BY DEF Phase, SharedPhase, ServerStep, SameExchange, ServerPart
    <2>3. Begun(s, a) /\ a = 0 => /\ e.cycle.request_kind = c.cycle.request_kind
                                  /\ e.st.keep_alive /\ e.st.server # "SwitchedProtocol" => c.st.keep_alive \/ c.eof
      BY DEF Phase, SharedPhase, ServerStep, SameExchange, ServerPart
    <2>4. c.st.keep_alive /\ c.st.server \in {"SendBody", "Done"} => a = -1 \/ Persists(e)
      BY DEF Phase, SharedPhase, ServerStep
    <2>5. c.st.server = "SwitchedProtocol" => e.st.server = "SwitchedProtocol"
      BY DEF Phase, SharedPhase, ServerStep, ServerPart
    <2> QED BY <1>1, <2>1, <2>2, <2>3, <2>4, <2>5 DEF Phase, SharedPhase
  <1> QED BY <1>1, <1>2, <1>3 DEF Phase

(* The marks of the two directions when the heads under way stay the same.  *)
LEMMA ClientStepUp ==
    ASSUME NEW c, NEW s, NEW a, NEW e, NEW d, NEW d2, UpMarks(c, s, d, a), ClientStep(c, e), SameHeads(d, d2),
           WaitsAfterHead(e, d2)
    PROVE  UpMarks(e, s, d2, a)
  <1>1. Asked(e) <=> Asked(c)
    BY DEF ClientStep, SameExchange, Asked
  <1>2. ASSUME NEW h, GoodRequest(c, h)
        PROVE  GoodRequest(e, h)
    BY <1>2 DEF GoodRequest, ClientStep, SameExchange
  <1>3. \A i \in HeadsOf(d2) : i \in HeadsOf(d) /\ d2.sym[i] = d.sym[i]
    BY DEF SameHeads
  <1>4. \A i \in HeadsOf(d2) : GoodRequest(e, d2.sym[i].h)
    BY <1>2, <1>3 DEF UpMarks
  <1> QED BY <1>1, <1>3, <1>4 DEF UpMarks, SameHeads

(* It keeps what is under way to the server.                                *)
LEMMA ServerStepUp ==
    ASSUME NEW c, NEW s, NEW a, NEW e, NEW a2, NEW d, NEW d2, UpMarks(c, s, d, a), SameHeads(d, d2),
           Begun(e, a2) <=> Begun(s, a), WaitsAfterHead(c, d2)
    PROVE  UpMarks(c, e, d2, a2)
  <1>3. \A i \in HeadsOf(d2) : i \in HeadsOf(d) /\ d2.sym[i] = d.sym[i]
    BY DEF SameHeads
  <1>4. \A i \in HeadsOf(d2) : GoodRequest(c, d2.sym[i].h)
    BY <1>3 DEF UpMarks
  <1> QED BY <1>3, <1>4 DEF UpMarks, SameHeads

(* With the same heads the same answers are under way.                      *)
LEMMA SameUnderWay ==
    ASSUME NEW d, NEW d2, SameHeads(d, d2)
    PROVE  /\ ContinueUnderWay(d) => ContinueUnderWay(d2)
           /\ AnswerUnderWay(d) => AnswerUnderWay(d2)
           /\ \A i \in HeadsOf(d2) : i \in HeadsOf(d) /\ d2.sym[i] = d.sym[i]
  <1>1. \A i \in HeadsOf(d2) : i \in HeadsOf(d) /\ d2.sym[i] = d.sym[i]
    BY DEF SameHeads
  <1>2. ASSUME ContinueUnderWay(d) PROVE ContinueUnderWay(d2)
    BY <1>2 DEF SameHeads, ContinueUnderWay
  <1>3. ASSUME AnswerUnderWay(d) PROVE AnswerUnderWay(d2)
    BY <1>3 DEF SameHeads, AnswerUnderWay
  <1> QED BY <1>1, <1>2, <1>3

(* The responses under way stay acceptable when the client's exchange       *)
(* stays.                                                                   *)
LEMMA ClientStepResponse ==
    ASSUME NEW c, NEW s, NEW a, NEW e, NEW d, NEW d2, SameExchange(c, e), SameHeads(d, d2),
           NEW i, NEW h, GoodResponse(c, s, d, a, i, h)
    PROVE  GoodResponse(e, s, d2, a, i, h)
  <1>1. Switching(e, s, d2, i, h)
    <2> SUFFICES ASSUME h.status = 101
                 PROVE  /\ valid_upgrade_response(e, h) /\ s.st.server = "SwitchedProtocol"
                        /\ e.cycle.continue_before_upgrade =>
                              \E j \in HeadsOf(d2) : j < i /\ d2.sym[j].h.status = 100
      BY DEF Switching
    <2>1. valid_upgrade_response(e, h) /\ s.st.server = "SwitchedProtocol"
      BY DEF GoodResponse, Switching, valid_upgrade_response, SameExchange
    <2>2. ASSUME e.cycle.continue_before_upgrade
          PROVE  \E j \in HeadsOf(d2) : j < i /\ d2.sym[j].h.status = 100
      <3>1. \E j \in HeadsOf(d) : j < i /\ d.sym[j].h.status = 100
        BY <2>2 DEF GoodResponse, Switching, SameExchange
      <3> QED BY <3>1 DEF SameHeads
    <2> QED BY <2>1, <2>2
  <1>2. Final(h) => s.st.server # "SendResponse" /\ \A j \in HeadsOf(d2) : j <= i
    BY DEF GoodResponse, SameHeads
  <1>3. Answered(e, s, a, h)
    <2>1. FinalFraming(e, h) = FinalFraming(c, h) /\ (opens_tunnel(e, h.status) <=> opens_tunnel(c, h.status))
      BY DEF FinalFraming, opens_tunnel, response_has_no_body, SameExchange
    <2> QED BY <2>1 DEF GoodResponse, Answered, SameExchange
  <1> QED BY <1>1, <1>2, <1>3 DEF GoodResponse

(* A step of the client keeps what is under way to it.                      *)
LEMMA ClientStepDown ==
    ASSUME NEW c, NEW s, NEW a, NEW e, NEW d, NEW d2, DownMarks(c, s, d, a), ClientStep(c, e), SameHeads(d, d2),
           d.read = d.wrote => d2.read = d2.wrote
    PROVE  DownMarks(e, s, d2, a)
  <1>0. SameExchange(c, e)
    BY DEF ClientStep
  <1>1. \A i \in HeadsOf(d2) : i \in HeadsOf(d) /\ d2.sym[i] = d.sym[i]
    BY SameUnderWay
  <1>2. \A i \in HeadsOf(d2) : GoodResponse(e, s, d2, a, i, d2.sym[i].h)
    BY <1>0, <1>1, ClientStepResponse DEF DownMarks
  <1>3. e.st.server # "SendResponse" => HeadsOf(d2) = {}
    BY DEF DownMarks, ClientStep, ServerPart, SameHeads
  <1>4. e.st.server \in {"SendBody", "Done"} /\ a = 0 => s.st.server # "SendResponse"
    BY DEF DownMarks, ClientStep, ServerPart
  <1>5. Proposals(e, s, d2, a)
    BY <1>0, SameUnderWay DEF DownMarks, Proposals, SameExchange
  <1>6. WaitsKnown(e, s, d2, a)
    BY SameUnderWay DEF DownMarks, WaitsKnown, ClientStep
  <1> QED BY <1>2, <1>3, <1>4, <1>5, <1>6 DEF DownMarks

(* They stay acceptable after a step of the server.                         *)
LEMMA ServerStepResponse ==
    ASSUME NEW c, NEW s, NEW a, NEW e, NEW d, NEW d2, ServerStep(s, e), SameHeads(d, d2),
           NEW i, NEW h, GoodResponse(c, s, d, a, i, h)
    PROVE  GoodResponse(c, e, d2, a, i, h)
  <1>1. Switching(c, e, d2, i, h)
    <2> SUFFICES ASSUME h.status = 101
                 PROVE  /\ valid_upgrade_response(c, h) /\ e.st.server = "SwitchedProtocol"
                        /\ c.cycle.continue_before_upgrade =>
                              \E j \in HeadsOf(d2) : j < i /\ d2.sym[j].h.status = 100
      BY DEF Switching
    <2>1. valid_upgrade_response(c, h) /\ e.st.server = "SwitchedProtocol"
      BY DEF GoodResponse, Switching, ServerStep, ServerPart
    <2>2. ASSUME c.cycle.continue_before_upgrade
          PROVE  \E j \in HeadsOf(d2) : j < i /\ d2.sym[j].h.status = 100
      <3>1. \E j \in HeadsOf(d) : j < i /\ d.sym[j].h.status = 100
        BY <2>2 DEF GoodResponse, Switching
      <3> QED BY <3>1 DEF SameHeads
    <2> QED BY <2>1, <2>2
  <1>2. Final(h) => e.st.server # "SendResponse" /\ \A j \in HeadsOf(d2) : j <= i
    BY DEF GoodResponse, SameHeads, ServerStep, ServerPart
  <1>3. Answered(c, e, a, h)
    BY DEF GoodResponse, Answered, ServerStep, ServerPart
  <1> QED BY <1>1, <1>2, <1>3 DEF GoodResponse

(* A step of the server keeps what is under way to the client.              *)
LEMMA ServerStepDown ==
    ASSUME NEW c, NEW s, NEW a, NEW e, NEW d, NEW d2, DownMarks(c, s, d, a), ServerStep(s, e), SameHeads(d, d2),
           ~Begun(s, a) => d2.read = d2.wrote,
           c.cycle.waiting_for_continue /\ Begun(s, a) /\ s.cycle.waiting_for_continue => e.cycle.waiting_for_continue
    PROVE  DownMarks(c, e, d2, a)
  <1>0. Begun(e, a) <=> Begun(s, a)
    BY DEF ServerStep, SameExchange, Begun
  <1>1. \A i \in HeadsOf(d2) : i \in HeadsOf(d) /\ d2.sym[i] = d.sym[i]
    BY SameUnderWay
  <1>2. \A i \in HeadsOf(d2) : GoodResponse(c, e, d2, a, i, d2.sym[i].h)
    BY <1>1, ServerStepResponse DEF DownMarks
  <1>3. c.st.server # "SendResponse" => HeadsOf(d2) = {}
    BY DEF DownMarks, SameHeads
  <1>4. c.st.server \in {"SendBody", "Done"} /\ a = 0 => e.st.server # "SendResponse"
    BY DEF DownMarks, ServerStep, ServerPart
  <1>5. Proposals(c, e, d2, a)
    BY <1>0, SameUnderWay DEF DownMarks, Proposals, SameExchange, ServerStep, ServerPart
  <1>6. WaitsKnown(c, e, d2, a)
    BY <1>0, SameUnderWay DEF DownMarks, WaitsKnown
  <1> QED BY <1>0, <1>2, <1>3, <1>4, <1>5, <1>6 DEF DownMarks

----------------------------------------------------------------------------
(* The invariant.                                                           *)

(* An end of the exchange: a connection whose parts agree, with no data     *)
(* held.                                                                    *)
EndOK(e, role) ==
    e \in Connections(Wires) /\ e.role = role /\ e.held = 0 /\ Sound(e) /\ WriterShape(e)

(* A direction of the transport: its end is delivered after all its bytes,  *)
(* and only a writer that has closed shuts it.                              *)
LineOK(from, to, w, q, shuts, broken) ==
    /\ w \in Seq(Wires) /\ q \in Seq(Items)
    /\ to.eof => w = <<>> /\ (shuts \/ broken)
    /\ shuts => local_state(from) = "Closed"

(* The stream from the client, as long as the server has not failed.        *)
Up(c, s, w, q, broken, a) ==
    s.st.client # "Error" => \E d : Stream(d, None, c, s, w, q, broken) /\ UpMarks(c, s, d, a)

(* The stream from the server, as long as the client reads it.              *)
Down(c, s, w, q, broken, a) ==
    c.st.server \in Follow =>
        \E d : Stream(d, c.cycle.request_kind, s, c, w, q, broken) /\ DownMarks(c, s, d, a)

(* The server takes its peer for faulty only after a cut.                   *)
ServerFault(s, broken) == s.st.client = "Error" => broken

(* The client takes its peer for faulty at the end of the transport only:   *)
(* after a cut, or when the server closed without a response.               *)
ClientFault(c, s, q, shuts, broken, a) ==
    c.st.server = "Error" =>
        /\ c.eof
        /\ broken \/ (shuts /\ q = <<>> /\ (c.cycle.waiting_for_continue => ~Begun(s, a)))

(* The invariant of an exchange: of the two ends c and s, the bytes wc and  *)
(* ws under way from each, the items pc and ps not yet told, whether each   *)
(* has shut (hc, hs) or lost (xc, xs) its direction, and the cycles a by    *)
(* which the client is ahead.                                               *)
Accord(c, s, wc, ws, pc, ps, hc, hs, xc, xs, a) ==
    /\ EndOK(c, "client") /\ EndOK(s, "server")
    /\ LineOK(c, s, wc, pc, hc, xc) /\ LineOK(s, c, ws, ps, hs, xs)
    /\ Phase(c, s, a)
    /\ ServerFault(s, xc) /\ ClientFault(c, s, ps, hs, xs, a)
    /\ Up(c, s, wc, pc, xc, a) /\ Down(c, s, ws, ps, xs, a)

(* A flow has the heads it has.                                             *)
LEMMA SameHeadsItself == \A d : SameHeads(d, d)
  BY DEF SameHeads

(* A step of the client that writes nothing keeps its stream.               *)
LEMMA ClientKeepsUp ==
    ASSUME NEW c, NEW s, NEW w, NEW q, NEW broken, NEW a, NEW e,
           Up(c, s, w, q, broken, a), ClientStep(c, e), SameFinish(c, e)
    PROVE  Up(e, s, w, q, broken, a)
  <1> SUFFICES ASSUME s.st.client # "Error"
               PROVE  \E d : Stream(d, None, e, s, w, q, broken) /\ UpMarks(e, s, d, a)
    BY DEF Up
  <1>1. PICK d : Stream(d, None, c, s, w, q, broken) /\ UpMarks(c, s, d, a)
    BY DEF Up
  <1>r. PICK rk : rk = None
    OBVIOUS
  <1>2. Stream(d, rk, e, s, w, q, broken)
    BY <1>1, <1>r, StreamWriter
  <1>3. WaitsAfterHead(e, d)
    BY <1>1 DEF UpMarks, WaitsAfterHead, ClientStep
  <1>4. UpMarks(e, s, d, a)
    BY <1>1, <1>3, SameHeadsItself, ClientStepUp
  <1> QED BY <1>2, <1>4, <1>r

(* A client that still reads the stream has read it before.                 *)
LEMMA FollowsBack ==
    ASSUME NEW c, NEW e, ClientStep(c, e), e.st.server \in Follow
    PROVE  c.st.server \in Follow /\ e.cycle.request_kind = c.cycle.request_kind
  BY DEF ClientStep, ServerPart, Follow, SameExchange

(* A step of the client that reads nothing keeps the server's stream.       *)
LEMMA ClientKeepsDown ==
    ASSUME NEW c, NEW s, NEW w, NEW q, NEW broken, NEW a, NEW e,
           Down(c, s, w, q, broken, a), ClientStep(c, e), SameStart(c, e), e.input = c.input
    PROVE  Down(e, s, w, q, broken, a)
  <1> SUFFICES ASSUME e.st.server \in Follow
               PROVE  \E d : Stream(d, e.cycle.request_kind, s, e, w, q, broken) /\ DownMarks(e, s, d, a)
    BY DEF Down
  <1>0. c.st.server \in Follow /\ e.cycle.request_kind = c.cycle.request_kind
    BY FollowsBack
  <1>r. PICK rk : rk = c.cycle.request_kind
    OBVIOUS
  <1>1. PICK d : Stream(d, rk, s, c, w, q, broken) /\ DownMarks(c, s, d, a)
    BY <1>0, <1>r DEF Down
  <1>2. Stream(d, rk, s, e, w, q, broken)
    BY <1>1, StreamReader
  <1>4. DownMarks(e, s, d, a)
    BY <1>1, SameHeadsItself, ClientStepDown
  <1> QED BY <1>2, <1>4, <1>r, <1>0

(* A step of the client that finds no fault keeps what is known of faults.  *)
LEMMA ClientKeepsFault ==
    ASSUME NEW c, NEW s, NEW q, NEW shuts, NEW broken, NEW a, NEW e,
           ClientFault(c, s, q, shuts, broken, a), ClientStep(c, e)
    PROVE  ClientFault(e, s, q, shuts, broken, a)
  BY DEF ClientFault, ClientStep, ServerPart

(* A step of the server that writes nothing keeps its stream.               *)
LEMMA ServerKeepsDown ==
    ASSUME NEW c, NEW s, NEW w, NEW q, NEW broken, NEW a, NEW e,
           Down(c, s, w, q, broken, a), ServerStep(s, e), SameFinish(s, e),
           c.cycle.waiting_for_continue /\ Begun(s, a) /\ s.cycle.waiting_for_continue => e.cycle.waiting_for_continue
    PROVE  Down(c, e, w, q, broken, a)
  <1> SUFFICES ASSUME c.st.server \in Follow
               PROVE  \E d : Stream(d, c.cycle.request_kind, e, c, w, q, broken) /\ DownMarks(c, e, d, a)
    BY DEF Down
  <1>r. PICK rk : rk = c.cycle.request_kind
    OBVIOUS
  <1>1. PICK d : Stream(d, rk, s, c, w, q, broken) /\ DownMarks(c, s, d, a)
    BY <1>r DEF Down
  <1>2. Stream(d, rk, e, c, w, q, broken)
    BY <1>1, StreamWriter
  <1>3. ~Begun(s, a) => d.read = d.wrote
    BY <1>1 DEF DownMarks
  <1>4. DownMarks(c, e, d, a)
    BY <1>1, <1>3, SameHeadsItself, ServerStepDown
  <1> QED BY <1>2, <1>4, <1>r

(* A step of the server that reads nothing keeps the client's stream.       *)
LEMMA ServerKeepsUp ==
    ASSUME NEW c, NEW s, NEW w, NEW q, NEW broken, NEW a, NEW e,
           Up(c, s, w, q, broken, a), s.st.client = "Error" => e.st.client = "Error",
           Begun(e, a) <=> Begun(s, a), SameStart(s, e), e.input = s.input
    PROVE  Up(c, e, w, q, broken, a)
  <1> SUFFICES ASSUME e.st.client # "Error"
               PROVE  \E d : Stream(d, None, c, e, w, q, broken) /\ UpMarks(c, e, d, a)
    BY DEF Up
  <1>r. PICK rk : rk = None
    OBVIOUS
  <1>1. PICK d : Stream(d, rk, c, s, w, q, broken) /\ UpMarks(c, s, d, a)
    BY <1>r DEF Up
  <1>2. Stream(d, rk, c, e, w, q, broken)
    BY <1>1, StreamReader
  <1>3. WaitsAfterHead(c, d)
    BY <1>1 DEF UpMarks
  <1>4. UpMarks(c, e, d, a)
    BY <1>1, <1>3, SameHeadsItself, ServerStepUp
  <1> QED BY <1>2, <1>4, <1>r

(* No step of the server takes back what excuses a fault of the client.     *)
LEMMA ServerKeepsFault ==
    ASSUME NEW c, NEW s, NEW q, NEW shuts, NEW broken, NEW a, NEW e,
           ClientFault(c, s, q, shuts, broken, a), Begun(e, a) => Begun(s, a)
    PROVE  ClientFault(c, e, q, shuts, broken, a)
  BY DEF ClientFault

(* A move of the client that leaves the streams where they are.             *)
LEMMA ClientQuiet ==
    ASSUME NEW c, NEW s, NEW wc, NEW ws, NEW pc, NEW ps, NEW hc, NEW hs, NEW xc, NEW xs, NEW a,
           Accord(c, s, wc, ws, pc, ps, hc, hs, xc, xs, a), NEW e, NEW hc2,
           EndOK(e, "client"), ClientStep(c, e), SameFinish(c, e), SameStart(c, e), e.input = c.input,
           e.eof => c.eof \/ (ws = <<>> /\ (hs \/ xs)),
           hc => hc2, hc2 => local_state(e) = "Closed"
    PROVE  Accord(e, s, wc, ws, pc, ps, hc2, hs, xc, xs, a)
  <1>1. LineOK(e, s, wc, pc, hc2, xc) /\ LineOK(s, e, ws, ps, hs, xs)
    BY DEF Accord, LineOK
  <1>2. Phase(e, s, a)
    BY ClientStepPhase DEF Accord
  <1>3. ClientFault(e, s, ps, hs, xs, a)
    BY ClientKeepsFault DEF Accord
  <1>4. Up(e, s, wc, pc, xc, a)
    BY ClientKeepsUp DEF Accord
  <1>5. Down(e, s, ws, ps, xs, a)
    BY ClientKeepsDown DEF Accord
  <1> QED BY <1>1, <1>2, <1>3, <1>4, <1>5 DEF Accord

(* A move of the server that leaves the streams where they are.             *)
LEMMA ServerQuiet ==
    ASSUME NEW c, NEW s, NEW wc, NEW ws, NEW pc, NEW ps, NEW hc, NEW hs, NEW xc, NEW xs, NEW a,
           Accord(c, s, wc, ws, pc, ps, hc, hs, xc, xs, a), NEW e, NEW hs2,
           EndOK(e, "server"), ServerStep(s, e), SameFinish(s, e), SameStart(s, e), e.input = s.input,
           e.st.client = "Error" <=> s.st.client = "Error",
           s.cycle.waiting_for_continue => e.cycle.waiting_for_continue,
           e.eof => s.eof \/ (wc = <<>> /\ (hc \/ xc)),
           hs => hs2, hs2 => local_state(e) = "Closed"
    PROVE  Accord(c, e, wc, ws, pc, ps, hc, hs2, xc, xs, a)
  <1>1. LineOK(c, e, wc, pc, hc, xc) /\ LineOK(e, c, ws, ps, hs2, xs)
    BY DEF Accord, LineOK
  <1>2. Phase(c, e, a) /\ (Begun(e, a) <=> Begun(s, a))
    BY ServerStepPhase DEF Accord
  <1>3. ClientFault(c, e, ps, hs2, xs, a) /\ ServerFault(e, xc)
    BY <1>2 DEF Accord, ClientFault, ServerFault
  <1>4. Up(c, e, wc, pc, xc, a)
    BY <1>2, ServerKeepsUp DEF Accord
  <1>5. Down(c, e, ws, ps, xs, a)
    BY ServerKeepsDown DEF Accord
  <1> QED BY <1>1, <1>2, <1>3, <1>4, <1>5 DEF Accord

----------------------------------------------------------------------------
(* close, the end of the transport, the arrival of bytes and cuts.          *)

(* An end after close is an end still.                                      *)
LEMMA ClosedEnd ==
    ASSUME NEW role, NEW c, EndOK(c, role), LocalAccepts(c, StateEvent("ConnectionClosed")), NEW e, e = close(c)
    PROVE  EndOK(e, role) /\ CloseMove(c, e) /\ e.input = c.input /\ e.eof = c.eof /\ (Persists(c) => Persists(e))
  <1>1. c \in Connections(Wires) /\ Sound(c) /\ Coherent(c)
    BY DEF EndOK, Sound
  <1>2. Moves(Wires, c, e) /\ \A a : WordKept(c, a) => WordKept(e, a)
    BY <1>1, CloseEffect
  <1>3. Preserves(Wires, c, e) /\ e.held = c.held /\ e.input = c.input
    BY <1>1, <1>2, MovesPreserve
  <1>4. CloseMove(c, e)
    BY <1>1, CloseValue
  <1>5. EndOK(e, role)
    BY <1>3, <1>4 DEF EndOK, Preserves, WriterShape, CloseMove
  <1> QED BY <1>2, <1>3, <1>4, <1>5 DEF Persists, CloseMove, OnlyLocal

(* close of the client keeps the invariant.                                 *)
LEMMA ClientCloses ==
    ASSUME NEW c, NEW s, NEW wc, NEW ws, NEW pc, NEW ps, NEW hc, NEW hs, NEW xc, NEW xs, NEW a,
           Accord(c, s, wc, ws, pc, ps, hc, hs, xc, xs, a), NEW e, e = close(c),
           LocalAccepts(c, StateEvent("ConnectionClosed")), NEW hc2, hc => hc2
    PROVE  Accord(e, s, wc, ws, pc, ps, hc2, hs, xc, xs, a)
  <1>0. EndOK(c, "client") /\ c.role = "client" /\ Lawful(c.st)
    BY DEF Accord, EndOK, Sound, Coherent
  <1>1. EndOK(e, "client") /\ CloseMove(c, e) /\ e.input = c.input /\ e.eof = c.eof
    BY <1>0, ClosedEnd
  <1>2. /\ c.st.client \in {"Idle", "Done", "MustClose", "Closed"} /\ e.st.client = "Closed"
        /\ ServerSettles(c.st.server, e.st.server) /\ e.role = "client"
    BY <1>0, <1>1 DEF CloseMove, local_state, state, Settles, peer, OnlyLocal
  <1>3. ClientStep(c, e)
    BY <1>1, <1>2 DEF ClientStep, ServerPart, ServerSettles, CloseMove
  <1>4. SameFinish(c, e)
    BY <1>0, <1>2 DEF SameFinish, local_state, state
  <1>5. SameStart(c, e)
    BY <1>0, <1>1, <1>2 DEF SameStart, peer_state, state, peer, CloseMove, OnlyLocal, ServerSettles
  <1>6. local_state(e) = "Closed"
    BY <1>1 DEF CloseMove
  <1> QED BY <1>1, <1>3, <1>4, <1>5, <1>6, ClientQuiet

(* close of the server keeps the invariant.                                 *)
LEMMA ServerCloses ==
    ASSUME NEW c, NEW s, NEW wc, NEW ws, NEW pc, NEW ps, NEW hc, NEW hs, NEW xc, NEW xs, NEW a,
           Accord(c, s, wc, ws, pc, ps, hc, hs, xc, xs, a), NEW e, e = close(s),
           LocalAccepts(s, StateEvent("ConnectionClosed")), NEW hs2, hs => hs2
    PROVE  Accord(c, e, wc, ws, pc, ps, hc, hs2, xc, xs, a)
  <1>0. EndOK(s, "server") /\ s.role = "server" /\ Lawful(s.st)
    BY DEF Accord, EndOK, Sound, Coherent
  <1>1. EndOK(e, "server") /\ CloseMove(s, e) /\ e.input = s.input /\ e.eof = s.eof /\ (Persists(s) => Persists(e))
    BY <1>0, ClosedEnd
  <1>2. /\ s.st.server \in {"Idle", "Done", "MustClose", "Closed"} /\ e.st.server = "Closed"
        /\ ClientSettles(s.st.client, e.st.client) /\ e.role = "server"
    BY <1>0, <1>1 DEF CloseMove, local_state, state, Settles, peer, OnlyLocal
  <1>3. e.st.client # "Idle" /\ e.st.client # "Done"
    BY <1>1, <1>2 DEF CloseMove, Lawful, Stable, Propagated
  <1>4. ServerStep(s, e)
    BY <1>1, <1>2, <1>3 DEF ServerStep, ServerPart, ClientSettles, CloseMove
  <1>5. SameFinish(s, e)
    BY <1>0, <1>2 DEF SameFinish, local_state, state
  <1>6. SameStart(s, e)
    BY <1>0, <1>1, <1>2 DEF SameStart, peer_state, state, peer, CloseMove, OnlyLocal, ClientSettles
  <1>7. local_state(e) = "Closed" /\ (e.st.client = "Error" <=> s.st.client = "Error")
        /\ (s.cycle.waiting_for_continue => e.cycle.waiting_for_continue)
    BY <1>1, <1>2 DEF CloseMove, ClientSettles
  <1> QED BY <1>1, <1>4, <1>5, <1>6, <1>7, ServerQuiet

(* The end of the transport.                                                *)
LEMMA EofEnd ==
    ASSUME NEW role, NEW c, EndOK(c, role), NEW e, e = record_eof(c)
    PROVE  /\ EndOK(e, role) /\ e.input = c.input /\ e.cycle = c.cycle /\ e.eof /\ (Persists(c) => Persists(e))
           /\ ClientSettles(c.st.client, e.st.client) /\ ServerSettles(c.st.server, e.st.server)
           /\ e.st.keep_alive => c.st.keep_alive
           /\ role = "server" => e.st = c.st
  <1> DEFINE k == [c EXCEPT !.eof = TRUE]
             client == c.role = "client"
  <1>1. c \in Connections(Wires) /\ Sound(c) /\ c.held = 0 /\ c.role = role
    BY DEF EndOK
  <1>2. Preserves(Wires, c, e) /\ e.held = c.held /\ e.input = c.input /\ \A a : WordKept(c, a) => WordKept(e, a)
    BY <1>1, RecordEofEffect
  <1>3. k \in Connections(Wires) /\ k.st = c.st /\ k.cycle = c.cycle /\ k.eof
    BY <1>1 DEF Connections
  <1>4. e = NoKeepAliveIf(client, k) /\ client \in BOOLEAN
    BY DEF record_eof
  <1> HIDE DEF k
  <1>5. /\ SameButState(k, e)
        /\ ClientSettles(k.st.client, e.st.client) /\ ServerSettles(k.st.server, e.st.server)
        /\ e.st.keep_alive => k.st.keep_alive
    <2>1. Lawful(k.st)
      BY <1>1, <1>3 DEF Sound, Coherent
    <2> HIDE DEF client
    <2> QED BY <1>3, <1>4, <2>1, NoKeepAliveEffect
  <1>6. role = "server" => e = k
    BY <1>1, <1>4 DEF NoKeepAliveIf
  <1>7. EndOK(e, role)
    BY <1>1, <1>2, <1>3, <1>5 DEF EndOK, Preserves, WriterShape, SameButState
  <1> QED BY <1>2, <1>3, <1>5, <1>6, <1>7 DEF Persists, SameButState

(* The client is told of the end of the transport.                          *)
LEMMA ClientEof ==
    ASSUME NEW c, NEW s, NEW wc, NEW ws, NEW pc, NEW ps, NEW hc, NEW hs, NEW xc, NEW xs, NEW a,
           Accord(c, s, wc, ws, pc, ps, hc, hs, xc, xs, a), NEW e, e = record_eof(c), ws = <<>>, hs \/ xs
    PROVE  Accord(e, s, wc, ws, pc, ps, hc, hs, xc, xs, a)
  <1>0. EndOK(c, "client") /\ c.role = "client" /\ (hc => local_state(c) = "Closed")
    BY DEF Accord, EndOK, LineOK
  <1>1. /\ EndOK(e, "client") /\ e.input = c.input /\ e.cycle = c.cycle /\ e.eof
        /\ ClientSettles(c.st.client, e.st.client) /\ ServerSettles(c.st.server, e.st.server)
        /\ e.st.keep_alive => c.st.keep_alive
    BY <1>0, EofEnd
  <1>2. e.role = "client"
    BY <1>1 DEF EndOK
  <1>3. ClientStep(c, e)
    BY <1>1 DEF ClientStep, ServerPart, ServerSettles, ClientSettles, SameExchange
  <1>4. SameFinish(c, e)
    BY <1>0, <1>1, <1>2 DEF SameFinish, local_state, state, ClientSettles
  <1>5. SameStart(c, e)
    BY <1>0, <1>1, <1>2 DEF SameStart, peer_state, state, peer, ServerSettles
  <1>6. hc => local_state(e) = "Closed"
    BY <1>0, <1>1, <1>2 DEF local_state, state, ClientSettles
  <1>7. e.eof => c.eof \/ (ws = <<>> /\ (hs \/ xs))
    OBVIOUS
  <1> QED BY <1>1, <1>3, <1>4, <1>5, <1>6, <1>7, ClientQuiet

(* The server is told of the end of the transport.                          *)
LEMMA ServerEof ==
    ASSUME NEW c, NEW s, NEW wc, NEW ws, NEW pc, NEW ps, NEW hc, NEW hs, NEW xc, NEW xs, NEW a,
           Accord(c, s, wc, ws, pc, ps, hc, hs, xc, xs, a), NEW e, e = record_eof(s), wc = <<>>, hc \/ xc
    PROVE  Accord(c, e, wc, ws, pc, ps, hc, hs, xc, xs, a)
  <1>0. EndOK(s, "server") /\ s.role = "server" /\ (hs => local_state(s) = "Closed")
    BY DEF Accord, EndOK, LineOK
  <1>1. EndOK(e, "server") /\ e.input = s.input /\ e.cycle = s.cycle /\ e.eof /\ e.st = s.st /\ (Persists(s) => Persists(e))
    BY <1>0, EofEnd
  <1>2. e.role = "server"
    BY <1>1 DEF EndOK
  <1>3. ServerStep(s, e)
    BY <1>1 DEF ServerStep, ServerPart, SameExchange
  <1>4. SameFinish(s, e) /\ SameStart(s, e)
    BY <1>0, <1>1, <1>2 DEF SameFinish, SameStart, local_state, peer_state
  <1>5. hs => local_state(e) = "Closed"
    BY <1>0, <1>1, <1>2 DEF local_state
  <1>6. /\ e.eof => s.eof \/ (wc = <<>> /\ (hc \/ xc))
        /\ e.st.client = "Error" <=> s.st.client = "Error"
        /\ s.cycle.waiting_for_continue => e.cycle.waiting_for_continue
    BY <1>1
  <1> QED BY <1>1, <1>3, <1>4, <1>5, <1>6, ServerQuiet

(* Bytes arrive.                                                            *)
LEMMA FedEnd ==
    ASSUME NEW role, NEW c, EndOK(c, role), NEW w \in Seq(Wires), NEW e, e = receive_bytes(c, w)
    PROVE  /\ EndOK(e, role) /\ e.input = c.input \o w /\ e.st = c.st /\ e.cycle = c.cycle /\ e.eof = c.eof
           /\ e.role = c.role /\ (Persists(c) => Persists(e))
  <1>1. c \in Connections(Wires) /\ Sound(c) /\ c.held = 0 /\ c.role = role
    BY DEF EndOK
  <1>2. Preserves(Wires, c, e) /\ e.held = c.held /\ \A a : WordKept(c, a) => WordKept(e, a)
    BY <1>1, ReceiveBytesEffect
  <1>3. e.input = c.input \o w /\ e.st = c.st /\ e.cycle = c.cycle /\ e.eof = c.eof /\ e.role = c.role
    BY <1>1 DEF receive_bytes, Connections
  <1>4. EndOK(e, role)
    BY <1>1, <1>2, <1>3 DEF EndOK, Preserves, WriterShape
  <1> QED BY <1>2, <1>3, <1>4 DEF Persists

(* The bytes from the server reach the client's buffer.                     *)
LEMMA ClientFed ==
    ASSUME NEW c, NEW s, NEW wc, NEW ws, NEW pc, NEW ps, NEW hc, NEW hs, NEW xc, NEW xs, NEW a,
           Accord(c, s, wc, ws, pc, ps, hc, hs, xc, xs, a), NEW e, e = receive_bytes(c, ws), ws # <<>>,
           NEW w2, w2 = <<>>
    PROVE  Accord(e, s, wc, w2, pc, ps, hc, hs, xc, xs, a)
  <1>0. EndOK(c, "client") /\ c.role = "client" /\ ws \in Seq(Wires) /\ ~c.eof /\ c.input \in Seq(Wires)
    BY DEF Accord, EndOK, LineOK, Connections
  <1>1. /\ EndOK(e, "client") /\ e.input = c.input \o ws /\ e.st = c.st /\ e.cycle = c.cycle /\ e.eof = c.eof
        /\ e.role = c.role
    <2>1. PICK role : role = "client"
      OBVIOUS
    <2>2. EndOK(c, role)
      BY <1>0, <2>1
    <2>4. ws \in Seq(Wires)
      BY <1>0
    <2>3. /\ EndOK(e, role) /\ e.input = c.input \o ws /\ e.st = c.st /\ e.cycle = c.cycle /\ e.eof = c.eof
          /\ e.role = c.role /\ (Persists(c) => Persists(e))
      BY <2>2, <2>4, FedEnd
    <2> QED BY <2>1, <2>3
  <1>2. ClientStep(c, e)
    BY <1>1 DEF ClientStep, ServerPart, SameExchange
  <1>3. SameFinish(c, e) /\ SameStart(c, e)
    BY <1>1 DEF SameFinish, SameStart, local_state, peer_state
  <1>4. LineOK(e, s, wc, pc, hc, xc) /\ LineOK(s, e, w2, ps, hs, xs)
    <2>1. w2 \in Seq(Wires)
      BY EmptySeq
    <2>2. local_state(e) = local_state(c)
      BY <1>1 DEF local_state
    <2>3. LineOK(e, s, wc, pc, hc, xc)
      BY <2>2 DEF Accord, LineOK
    <2>4. LineOK(s, c, ws, ps, hs, xs)
      BY DEF Accord
    <2>5. LineOK(s, e, w2, ps, hs, xs)
      <3>1. ps \in Seq(Items) /\ (hs => local_state(s) = "Closed")
        BY <2>4 DEF LineOK
      <3>2. ~e.eof
        BY <1>0, <1>1
      <3> QED BY <3>1, <3>2, <2>1 DEF LineOK
    <2> QED BY <2>3, <2>5
  <1>5. Phase(e, s, a)
    BY <1>2, ClientStepPhase DEF Accord
  <1>6. ClientFault(e, s, ps, hs, xs, a)
    BY <1>2, ClientKeepsFault DEF Accord
  <1>7. Up(e, s, wc, pc, xc, a)
    BY <1>2, <1>3, ClientKeepsUp DEF Accord
  <1>8. Down(e, s, w2, ps, xs, a)
    <2> SUFFICES ASSUME e.st.server \in Follow
                 PROVE  \E d : Stream(d, e.cycle.request_kind, s, e, w2, ps, xs) /\ DownMarks(e, s, d, a)
      BY DEF Down
    <2>r. PICK rk : rk = c.cycle.request_kind
      OBVIOUS
    <2>1. PICK d : Stream(d, rk, s, c, ws, ps, xs) /\ DownMarks(c, s, d, a)
      BY <1>1, <2>r DEF Accord, Down
    <2>2. Stream(d, rk, s, e, <<>>, ps, xs)
      BY <1>0, <1>1, <1>3, <2>1, StreamDelivered
    <2>3. DownMarks(e, s, d, a)
      BY <1>2, <2>1, SameHeadsItself, ClientStepDown
    <2> QED BY <1>1, <2>r, <2>2, <2>3
  <1> QED BY <1>1, <1>4, <1>5, <1>6, <1>7, <1>8 DEF Accord

(* The bytes from the client reach the server's buffer.                     *)
LEMMA ServerFed ==
    ASSUME NEW c, NEW s, NEW wc, NEW ws, NEW pc, NEW ps, NEW hc, NEW hs, NEW xc, NEW xs, NEW a,
           Accord(c, s, wc, ws, pc, ps, hc, hs, xc, xs, a), NEW e, e = receive_bytes(s, wc), wc # <<>>,
           NEW w2, w2 = <<>>
    PROVE  Accord(c, e, w2, ws, pc, ps, hc, hs, xc, xs, a)
  <1>0. EndOK(s, "server") /\ s.role = "server" /\ wc \in Seq(Wires) /\ ~s.eof /\ s.input \in Seq(Wires)
    BY DEF Accord, EndOK, LineOK, Connections
  <1>1. /\ EndOK(e, "server") /\ e.input = s.input \o wc /\ e.st = s.st /\ e.cycle = s.cycle /\ e.eof = s.eof
        /\ e.role = s.role /\ (Persists(s) => Persists(e))
    <2>1. PICK role : role = "server"
      OBVIOUS
    <2>2. EndOK(s, role)
      BY <1>0, <2>1
    <2>4. wc \in Seq(Wires)
      BY <1>0
    <2>3. /\ EndOK(e, role) /\ e.input = s.input \o wc /\ e.st = s.st /\ e.cycle = s.cycle /\ e.eof = s.eof
          /\ e.role = s.role /\ (Persists(s) => Persists(e))
      BY <2>2, <2>4, FedEnd
    <2> QED BY <2>1, <2>3
  <1>2. ServerStep(s, e)
    BY <1>1 DEF ServerStep, ServerPart, SameExchange
  <1>3. SameFinish(s, e) /\ SameStart(s, e)
    BY <1>1 DEF SameFinish, SameStart, local_state, peer_state
  <1>4. LineOK(c, e, w2, pc, hc, xc) /\ LineOK(e, c, ws, ps, hs, xs)
    <2>1. w2 \in Seq(Wires)
      BY EmptySeq
    <2>2. local_state(e) = local_state(s)
      BY <1>1 DEF local_state
    <2>3. LineOK(e, c, ws, ps, hs, xs)
      BY <2>2 DEF Accord, LineOK
    <2>4. LineOK(c, s, wc, pc, hc, xc)
      BY DEF Accord
    <2>5. LineOK(c, e, w2, pc, hc, xc)
      <3>1. pc \in Seq(Items) /\ (hc => local_state(c) = "Closed")
        BY <2>4 DEF LineOK
      <3>2. ~e.eof
        BY <1>0, <1>1
      <3> QED BY <3>1, <3>2, <2>1 DEF LineOK
    <2> QED BY <2>3, <2>5
  <1>5. Phase(c, e, a) /\ (Begun(e, a) <=> Begun(s, a))
    BY <1>2, ServerStepPhase DEF Accord
  <1>6. ClientFault(c, e, ps, hs, xs, a) /\ ServerFault(e, xc)
    BY <1>1, <1>5 DEF Accord, ClientFault, ServerFault
  <1>7. Down(c, e, ws, ps, xs, a)
    BY <1>1, <1>2, <1>3, ServerKeepsDown DEF Accord
  <1>8. Up(c, e, w2, pc, xc, a)
    <2> SUFFICES ASSUME e.st.client # "Error"
                 PROVE  \E d : Stream(d, None, c, e, w2, pc, xc) /\ UpMarks(c, e, d, a)
      BY DEF Up
    <2>r. PICK rk : rk = None
      OBVIOUS
    <2>1. PICK d : Stream(d, rk, c, s, wc, pc, xc) /\ UpMarks(c, s, d, a)
      BY <1>1, <2>r DEF Accord, Up
    <2>2. Stream(d, rk, c, e, <<>>, pc, xc)
      BY <1>0, <1>1, <1>3, <2>1, StreamDelivered
    <2>3. WaitsAfterHead(c, d)
      BY <2>1 DEF UpMarks
    <2>4. UpMarks(c, e, d, a)
      BY <1>5, <2>1, <2>3, SameHeadsItself, ServerStepUp
    <2> QED BY <2>r, <2>2, <2>4
  <1> QED BY <1>1, <1>4, <1>5, <1>6, <1>7, <1>8 DEF Accord
=============================================================================
