--------------------------- MODULE ExchangeProofs ---------------------------
(***************************************************************************)
(* A client and a server in exchange understand each other and agree.  The *)
(* inductive invariant joins the two ends by a Stream in each direction    *)
(* (FlowProofs), says what the heads under way mean for the end that will  *)
(* read them (UpMarks, DownMarks), how the cycles of the two may be apart  *)
(* (Phase) and what excuses a fault (ServerFault, ClientFault).  The proof *)
(* takes the actions of Exchange one by one, for one end and for the       *)
(* other, on named values (Accord), then on the variables (Inv), and       *)
(* concludes with the two properties that the exchange run checks.         *)
(***************************************************************************)
EXTENDS FlowProofs

LOCAL INSTANCE SequencesExt

----------------------------------------------------------------------------
(* Polls that read nothing.                                                 *)

(* The direction from the client is cut: some bytes under way are lost.     *)
LEMMA ClientCut ==
    ASSUME NEW c, NEW s, NEW wc, NEW ws, NEW pc, NEW ps, NEW hc, NEW hs, NEW xc, NEW xs, NEW a,
           Accord(c, s, wc, ws, pc, ps, hc, hs, xc, xs, a), ~s.eof, NEW n \in 0..Len(wc), NEW w2, w2 = Prefix(wc, n),
           NEW x2, x2
    PROVE  Accord(c, s, w2, ws, pc, ps, hc, hs, x2, xs, a)
  <1>0. s \in Connections(Wires) /\ s.input \in Seq(Wires) /\ wc \in Seq(Wires) /\ Len(wc) \in Nat
    BY LenProperties DEF Accord, EndOK, LineOK, Connections
  <1>1. w2 \in Seq(Wires)
    BY <1>0, PrefixIsInitial
  <1>2. LineOK(c, s, w2, pc, hc, x2)
    BY <1>1 DEF Accord, LineOK
  <1>3. Up(c, s, w2, pc, x2, a)
    <2> SUFFICES ASSUME s.st.client # "Error"
                 PROVE  \E d : Stream(d, None, c, s, w2, pc, x2) /\ UpMarks(c, s, d, a)
      BY DEF Up
    <2>r. PICK rk : rk = None
      OBVIOUS
    <2>1. PICK d : Stream(d, rk, c, s, wc, pc, xc) /\ UpMarks(c, s, d, a)
      BY <2>r DEF Accord, Up
    <2>2. PICK d2 : SameFlow(d, d2) /\ d2.read = d.read /\ Stream(d2, rk, c, s, Prefix(wc, n), pc, x2)
      BY <1>0, <2>1, StreamCut
    <2>3. d \in Flows
      BY <2>1, StreamOrder
    <2>4. SameHeads(d, d2)
      BY <2>2, <2>3, CutHeads
    <2>5. WaitsAfterHead(c, d2)
      BY <2>1, <2>2 DEF UpMarks, WaitsAfterHead, SameFlow
    <2>6. UpMarks(c, s, d2, a)
      BY <2>1, <2>4, <2>5, ServerStepUp
    <2> QED BY <2>2, <2>6, <2>r
  <1> QED BY <1>2, <1>3 DEF Accord, ServerFault

(* The direction from the server is cut.                                    *)
LEMMA ServerCut ==
    ASSUME NEW c, NEW s, NEW wc, NEW ws, NEW pc, NEW ps, NEW hc, NEW hs, NEW xc, NEW xs, NEW a,
           Accord(c, s, wc, ws, pc, ps, hc, hs, xc, xs, a), ~c.eof, NEW n \in 0..Len(ws), NEW w2, w2 = Prefix(ws, n),
           NEW x2, x2
    PROVE  Accord(c, s, wc, w2, pc, ps, hc, hs, xc, x2, a)
  <1>0. c \in Connections(Wires) /\ c.input \in Seq(Wires) /\ ws \in Seq(Wires) /\ Len(ws) \in Nat
    BY LenProperties DEF Accord, EndOK, LineOK, Connections
  <1>1. w2 \in Seq(Wires)
    BY <1>0, PrefixIsInitial
  <1>2. LineOK(s, c, w2, ps, hs, x2)
    BY <1>1 DEF Accord, LineOK
  <1>3. Down(c, s, w2, ps, x2, a)
    <2> SUFFICES ASSUME c.st.server \in Follow
                 PROVE  \E d : Stream(d, c.cycle.request_kind, s, c, w2, ps, x2) /\ DownMarks(c, s, d, a)
      BY DEF Down
    <2>r. PICK rk : rk = c.cycle.request_kind
      OBVIOUS
    <2>1. PICK d : Stream(d, rk, s, c, ws, ps, xs) /\ DownMarks(c, s, d, a)
      BY <2>r DEF Accord, Down
    <2>2. PICK d2 : SameFlow(d, d2) /\ d2.read = d.read /\ Stream(d2, rk, s, c, Prefix(ws, n), ps, x2)
      BY <1>0, <2>1, StreamCut
    <2>3. d \in Flows
      BY <2>1, StreamOrder
    <2>4. SameHeads(d, d2)
      BY <2>2, <2>3, CutHeads
    <2>5. d.read = d.wrote => d2.read = d2.wrote
      BY <2>2 DEF SameFlow
    <2>6. ClientStep(c, c)
      BY DEF ClientStep, ServerPart, SameExchange
    <2>7. DownMarks(c, s, d2, a)
      BY <2>1, <2>4, <2>5, <2>6, ClientStepDown
    <2> QED BY <2>2, <2>7, <2>r
  <1>4. ClientFault(c, s, ps, hs, x2, a)
    BY DEF Accord, ClientFault
  <1> QED BY <1>2, <1>3, <1>4 DEF Accord

(* A poll of an end whose peer has no message to read.                      *)
Rests == {"Closed", "MightSwitchProtocol", "SwitchedProtocol", "Done", "MustClose", "Error"}

(* Such a poll gives no message event: it waits, reports the close of the   *)
(* peer or repeats an error.                                                *)
RestPoll(c, p) ==
    /\ p.kind \notin MessageEvents
    /\ p.c.input = c.input /\ p.c.cycle = c.cycle /\ p.c.eof = c.eof /\ p.c.role = c.role
    /\ \/ p.c = c
       \/ /\ peer_state(c) \in {"Idle", "Done", "MustClose"} /\ peer_state(p.c) = "Closed"
          /\ Settles(c.role, c.st, p.c.st)
       \/ /\ peer_state(c) = "Error" /\ peer_state(p.c) = "Error"
          /\ Settles(c.role, c.st, p.c.st) /\ ~p.c.st.keep_alive
    /\ peer_state(c) # "Error" => p.c.st.keep_alive = c.st.keep_alive

(* peer_closed reports the close of the peer.                               *)
LEMMA ClosedPoll ==
    ASSUME NEW c \in Connections(Wires), Sound(c), peer_state(c) \in {"Idle", "Done", "MustClose"},
           NEW p, p = peer_closed(c)
    PROVE  RestPoll(c, p)
  <1>1. Lawful(c.st) /\ c.role \in Roles
    BY DEF Sound, Coherent, Connections
  <1>2. p.c \in Connections(Wires) /\ Closes(c, p) /\ p.c.input = c.input
    BY <1>1, PeerClosedEffect
  <1>3. PICK f : f = p.c.st
    OBVIOUS
  <1>4. PICK role \in Roles : role = peer(c.role)
    BY DEF Roles, peer
  <1>5. f = process_event(c.st, role, StateEvent("ConnectionClosed")) /\ Accepts(c.st, role, StateEvent("ConnectionClosed"))
    BY <1>2, <1>3, <1>4 DEF Closes
  <1>6. state(f, role) = "Closed" /\ Settles(peer(role), c.st, f) /\ f.keep_alive = c.st.keep_alive
    BY <1>1, <1>5, ClosedEffect
  <1>7. peer(role) = c.role
    BY <1>1, <1>4 DEF peer, Roles
  <1>8. p.c.role = c.role /\ p.c.eof = c.eof /\ p.c.cycle = c.cycle /\ p.kind = "ConnectionClosed"
    BY <1>2 DEF Closes, Fixtures
  <1>9. peer_state(p.c) = "Closed" /\ Settles(c.role, c.st, p.c.st) /\ p.c.st.keep_alive = c.st.keep_alive
    BY <1>3, <1>4, <1>6, <1>7, <1>8 DEF peer_state
  <1> QED BY <1>2, <1>8, <1>9 DEF RestPoll, MessageEvents

(* A poll whose peer is done, closed, failed or has switched reads nothing. *)
LEMMA RestPolls ==
    ASSUME NEW c \in Connections(Wires), Sound(c), peer_state(c) \in Rests, NEW due, NEW p, p = next_event(c, due)
    PROVE  RestPoll(c, p)
  <1>0. PICK i : i = next_event_inner(c, due)
    OBVIOUS
  <1>1. Concludes(c, i, p)
    BY <1>0, NextEventConcludes
  <1>2. \/ i = Polled("ConnectionClosed", c) \/ i = Polled("Paused", c) \/ i = Polled("NeedData", c)
        \/ peer_state(c) \in {"Done", "MustClose"} /\ i = peer_closed(c)
        \/ peer_state(c) = "Error" /\ i = Polled("Err", c)
    BY <1>0 DEF next_event_inner, Rests, read_finished
  <1>3. CASE \E kind \in {"ConnectionClosed", "Paused", "NeedData"} : i = Polled(kind, c)
    <2>1. i.kind \in {"ConnectionClosed", "Paused", "NeedData"} /\ i.c = c
      BY <1>3 DEF Polled
    <2>2. p = i
      BY <1>1, <2>1 DEF Concludes
    <2> QED BY <2>1, <2>2 DEF RestPoll, MessageEvents
  <1>4. CASE peer_state(c) \in {"Done", "MustClose"} /\ i = peer_closed(c)
    <2>1. RestPoll(c, i)
      BY <1>4, ClosedPoll
    <2>2. i.kind \notin {"Err", "Data"}
      <3>1. Lawful(c.st)
        BY DEF Sound, Coherent
      <3>2. Closes(c, i)
        BY <1>4, <3>1, PeerClosedEffect
      <3> QED BY <3>2 DEF Closes
    <2> QED BY <1>1, <2>1, <2>2 DEF Concludes
  <1>5. CASE peer_state(c) = "Error" /\ i = Polled("Err", c)
    <2>1. i.kind = "Err" /\ i.c = c
      BY <1>5 DEF Polled
    <2>4. PICK role \in Roles : role = peer(c.role)
      BY DEF Roles, peer
    <2>2. PICK f : f = process_error(c.st, role)
      OBVIOUS
    <2>3. p.c = Advanced(c, f) /\ p.kind = "Err"
      BY <1>1, <2>1, <2>2, <2>4 DEF Concludes
    <2>5. Lawful(c.st) /\ c.role \in Roles
      BY DEF Sound, Coherent, Connections
    <2>6. state(c.st, role) = "Error"
      BY <1>5, <2>4 DEF peer_state
    <2>7. Lawful(f) /\ ~f.keep_alive /\ state(f, role) = "Error" /\ Settles(peer(role), c.st, f)
      BY <2>2, <2>5, <2>6, ErrorEffect
    <2>8. p.c.st = f /\ SameButState(c, p.c)
      BY <2>3, <2>7, AdvancedEffect DEF Lawful
    <2>9. peer(role) = c.role
      BY <2>4, <2>5 DEF peer, Roles
    <2>10. peer_state(p.c) = "Error"
      BY <2>4, <2>7, <2>8 DEF peer_state, SameButState
    <2> QED BY <1>5, <2>3, <2>7, <2>8, <2>9, <2>10 DEF RestPoll, MessageEvents, SameButState
  <1> QED BY <1>2, <1>3, <1>4, <1>5

(* An end after a poll is an end still, and no poll restores keep-alive.    *)
LEMMA PollEnd ==
    ASSUME NEW role, NEW c, EndOK(c, role), NEW due, NEW p, p = next_event(c, due)
    PROVE  /\ p.c \in Connections(Wires) /\ Sound(p.c) /\ p.c.role = role /\ p.c.held = 0
           /\ p.c.st.keep_alive => c.st.keep_alive
           /\ Persists(c) => Persists(p.c)
           /\ p.c.cycle.writer = c.cycle.writer => EndOK(p.c, role)
  <1>1. c \in Connections(Wires) /\ Sound(c) /\ c.held = 0 /\ c.role = role /\ WriterShape(c)
    BY DEF EndOK
  <1>2. PollResult(Wires, c, p)
    BY <1>1, WiresOK, NextEventEffect
  <1>3. /\ p.c \in Connections(Wires) /\ Sound(p.c) /\ p.c.role = role /\ p.c.held = 0
        /\ p.c.st.keep_alive => c.st.keep_alive
        /\ Persists(c) => Persists(p.c)
    BY <1>1, <1>2 DEF PollResult, Persists
  <1> QED BY <1>1, <1>3 DEF EndOK, WriterShape

(* Such a poll of the client keeps the invariant.                           *)
LEMMA ClientRests ==
    ASSUME NEW c, NEW s, NEW wc, NEW ws, NEW pc, NEW ps, NEW hc, NEW hs, NEW xc, NEW xs, NEW a,
           Accord(c, s, wc, ws, pc, ps, hc, hs, xc, xs, a), NEW due, NEW p, p = next_event(c, due), RestPoll(c, p),
           NEW e, e = p.c
    PROVE  Accord(e, s, wc, ws, pc, ps, hc, hs, xc, xs, a)
  <1>0. EndOK(c, "client") /\ c.role = "client" /\ (hc => local_state(c) = "Closed") /\ (c.st.server = "Error" => c.eof)
    BY DEF Accord, EndOK, LineOK, ClientFault
  <1>1. /\ e.input = c.input /\ e.cycle = c.cycle /\ e.eof = c.eof /\ e.role = c.role
        /\ \/ e = c
           \/ /\ c.st.server \in {"Idle", "Done", "MustClose"} /\ e.st.server = "Closed"
              /\ ClientSettles(c.st.client, e.st.client)
           \/ /\ c.st.server = "Error" /\ e.st.server = "Error" /\ ClientSettles(c.st.client, e.st.client)
        /\ c.st.server # "Error" => e.st.keep_alive = c.st.keep_alive
    BY <1>0 DEF RestPoll, peer_state, state, peer, Settles
  <1>2. EndOK(e, "client") /\ (e.st.keep_alive => c.st.keep_alive)
    BY <1>0, <1>1, PollEnd
  <1>3. ClientStep(c, e)
    BY <1>0, <1>1, <1>2 DEF ClientStep, ServerPart, ClientSettles, SameExchange
  <1>4. SameFinish(c, e)
    BY <1>0, <1>1 DEF SameFinish, local_state, state, ClientSettles
  <1>5. SameStart(c, e)
    BY <1>0, <1>1 DEF SameStart, peer_state, state, peer
  <1>6. hc => local_state(e) = "Closed"
    BY <1>0, <1>1 DEF local_state, state, ClientSettles
  <1> QED BY <1>1, <1>2, <1>3, <1>4, <1>5, <1>6, ClientQuiet

(* Such a poll of the server keeps the invariant.                           *)
LEMMA ServerRests ==
    ASSUME NEW c, NEW s, NEW wc, NEW ws, NEW pc, NEW ps, NEW hc, NEW hs, NEW xc, NEW xs, NEW a,
           Accord(c, s, wc, ws, pc, ps, hc, hs, xc, xs, a), NEW due, NEW p, p = next_event(s, due), RestPoll(s, p),
           NEW e, e = p.c
    PROVE  Accord(c, e, wc, ws, pc, ps, hc, hs, xc, xs, a)
  <1>0. EndOK(s, "server") /\ s.role = "server" /\ (hs => local_state(s) = "Closed")
    BY DEF Accord, EndOK, LineOK
  <1>1. /\ e.input = s.input /\ e.cycle = s.cycle /\ e.eof = s.eof /\ e.role = s.role
        /\ \/ e = s
           \/ /\ s.st.client \in {"Idle", "Done", "MustClose"} /\ e.st.client = "Closed"
              /\ ServerSettles(s.st.server, e.st.server)
           \/ /\ s.st.client = "Error" /\ e.st.client = "Error" /\ ServerSettles(s.st.server, e.st.server)
    BY <1>0 DEF RestPoll, peer_state, state, peer, Settles
  <1>2. EndOK(e, "server") /\ (e.st.keep_alive => s.st.keep_alive) /\ (Persists(s) => Persists(e))
    BY <1>0, <1>1, PollEnd
  <1>3. ServerStep(s, e)
    BY <1>0, <1>1, <1>2 DEF ServerStep, ServerPart, ServerSettles, SameExchange
  <1>4. SameFinish(s, e)
    BY <1>0, <1>1 DEF SameFinish, local_state, state, ServerSettles
  <1>5. SameStart(s, e)
    BY <1>0, <1>1 DEF SameStart, peer_state, state, peer
  <1>6. hs => local_state(e) = "Closed"
    BY <1>0, <1>1 DEF local_state, state, ServerSettles
  <1>7. /\ e.st.client = "Error" <=> s.st.client = "Error"
        /\ s.cycle.waiting_for_continue => e.cycle.waiting_for_continue
        /\ e.eof => s.eof
    BY <1>1
  <1> QED BY <1>1, <1>2, <1>3, <1>4, <1>5, <1>6, <1>7, ServerQuiet

----------------------------------------------------------------------------
(* Polls amid a body.                                                       *)

(* What a poll tells and what is left to be told.                           *)
TellItems(c, p) == IF p.kind \in MessageEvents THEN Told(c, p) ELSE <<>>

(* The items t are the next that are pending.                               *)
Fits(t, q) == t = Prefix(q, Len(t))

(* The items that are pending after the poll p of c.                        *)
Heard(c, p, q) == IF Fits(TellItems(c, p), q) THEN Skip(q, Len(TellItems(c, p))) ELSE q

(* The poll tells what the peer sent next; only the end of a cut transport  *)
(* may end a close-delimited body early.                                    *)
Faithful(c, p, q, broken) == Fits(TellItems(c, p), q) \/ (broken /\ c.cycle.reader.kind = "CloseDelimited")

(* A poll that tells the next items.                                        *)
LEMMA HeardIs ==
    ASSUME NEW c, NEW p, NEW q \in Seq(Items), NEW t \in Seq(Items), TellItems(c, p) = t, Fits(t, q), NEW broken
    PROVE  Heard(c, p, q) = Skip(q, Len(t)) /\ Faithful(c, p, q, broken) /\ Heard(c, p, q) \in Seq(Items)
  <1>2. PICK n \in Nat : n = Len(t)
    BY LenProperties
  <1>6. Len(q) \in Nat
    BY LenProperties
  <1>3. Len(Prefix(q, n)) <= Len(q) /\ t = Prefix(q, n)
    BY <1>2, PrefixIsInitial DEF Fits
  <1>4. n \in 0..Len(q)
    BY <1>2, <1>3, <1>6
  <1>5. Skip(q, n) \in Seq(Items)
    BY <1>4, SkipLeavesRest
  <1> QED BY <1>2, <1>5 DEF Heard, Faithful

(* A poll without a message event tells nothing.                            *)
LEMMA NothingHeard ==
    ASSUME NEW c, NEW p, NEW q \in Seq(Items), p.kind \notin MessageEvents, NEW broken
    PROVE  Heard(c, p, q) = q /\ Faithful(c, p, q, broken) /\ Skip(q, 0) = q
  <1>1. PICK t \in Seq(Items) : t = <<>>
    BY EmptySeq
  <1>2. TellItems(c, p) = t
    BY <1>1 DEF TellItems
  <1>3. PICK n : n = 0
    OBVIOUS
  <1>4. n = Len(t) /\ n \in Nat /\ Len(q) \in Nat
    BY <1>1, <1>3, EmptySeq, LenProperties
  <1>5. t = Prefix(q, n)
    <2>1. Prefix(q, n) \in Seq(Items) /\ Prefix(q, n) = SubSeq(q, 1, 0)
      BY <1>3, <1>4, PrefixIsInitial DEF Prefix, Min
    <2> QED BY <1>1, <2>1
  <1>6. Skip(q, n) = q
    <2>1. Skip(q, n) = SubSeq(q, 1, Len(q))
      BY <1>3, <1>4 DEF Skip
    <2> QED BY <2>1, <1>4
  <1>7. Fits(t, q)
    BY <1>4, <1>5 DEF Fits
  <1>8. Heard(c, p, q) = Skip(q, Len(t)) /\ Faithful(c, p, q, broken)
    BY <1>2, <1>7, HeardIs
  <1> QED BY <1>3, <1>4, <1>6, <1>8

(* What Data and EndOfMessage tell.                                         *)
LEMMA SomethingHeard ==
    ASSUME NEW c, NEW p, NEW q \in Seq(Items), NEW broken
    PROVE  /\ p.kind = "EndOfMessage" => TellItems(c, p) = <<EndItem>>
           /\ p.kind = "Data" => TellItems(c, p) = Bytes(p.count)
  BY DEF TellItems, Told, MessageEvents

(* The bytes of a Data event are the next items.                            *)
DataFits(p, q) == p.count \in Nat /\ Bytes(p.count) = Prefix(q, p.count)

(* A Data event tells them.                                                 *)
LEMMA DataHeard ==
    ASSUME NEW c, NEW p, NEW q \in Seq(Items), NEW broken, p.kind = "Data", DataFits(p, q)
    PROVE  Heard(c, p, q) = Skip(q, p.count) /\ Faithful(c, p, q, broken) /\ Skip(q, p.count) \in Seq(Items)
  <1>1. PICK t : t = Bytes(p.count)
    OBVIOUS
  <1>2. t \in Seq(Items) /\ Len(t) = p.count
    BY <1>1, BytesTyped DEF DataFits
  <1>4. TellItems(c, p) = t
    BY <1>1, SomethingHeard
  <1>7. Fits(t, q)
    BY <1>1, <1>2 DEF Fits, DataFits
  <1>8. Heard(c, p, q) = Skip(q, Len(t)) /\ Faithful(c, p, q, broken) /\ Heard(c, p, q) \in Seq(Items)
    BY <1>2, <1>4, <1>7, HeardIs
  <1> QED BY <1>2, <1>8

(* An EndOfMessage event tells the end that comes next.                     *)
LEMMA EndHeard ==
    ASSUME NEW c, NEW p, NEW q \in Seq(Items), NEW broken, p.kind = "EndOfMessage", NEW n \in Nat, n = 1,
           <<EndItem>> = Prefix(q, n)
    PROVE  Heard(c, p, q) = Skip(q, n) /\ Faithful(c, p, q, broken) /\ Skip(q, n) \in Seq(Items)
  <1>1. PICK t : t = <<EndItem>>
    OBVIOUS
  <1>2. t \in Seq(Items)
    <2>1. EndItem \in Items
      BY DEF Items
    <2>2. \A x \in Items : <<x>> \in Seq(Items)
      OBVIOUS
    <2> QED BY <1>1, <2>1, <2>2
  <1>3. n = Len(t)
    BY <1>1
  <1>4. TellItems(c, p) = t
    BY <1>1, SomethingHeard
  <1>5. t = Prefix(q, n)
    BY <1>1
  <1>7. Fits(t, q)
    BY <1>3, <1>5 DEF Fits
  <1>8. Heard(c, p, q) = Skip(q, Len(t)) /\ Faithful(c, p, q, broken) /\ Heard(c, p, q) \in Seq(Items)
    BY <1>2, <1>4, <1>7, HeardIs
  <1> QED BY <1>3, <1>8

(* The end of a close-delimited body.                                       *)
LEMMA CloseHeard ==
    ASSUME NEW c, NEW p, NEW q \in Seq(Items), NEW broken, p.kind = "EndOfMessage",
           CloseNews(c, q, broken, p)
    PROVE  Heard(c, p, q) \in Seq(Items) /\ Faithful(c, p, q, broken)
  <1>1. PICK n \in Nat : n = 1
    OBVIOUS
  <1>2. PICK t : t = <<EndItem>>
    OBVIOUS
  <1>3. TellItems(c, p) = t /\ n = Len(t)
    BY <1>1, <1>2, SomethingHeard
  <1>4. CASE t = Prefix(q, n)
    <2>1. <<EndItem>> = Prefix(q, n)
      BY <1>2, <1>4
    <2>2. Heard(c, p, q) = Skip(q, n) /\ Faithful(c, p, q, broken) /\ Skip(q, n) \in Seq(Items)
      BY <1>1, <2>1, EndHeard
    <2> QED BY <2>2
  <1>5. CASE t # Prefix(q, n)
    <2>1. ~Fits(t, q)
      BY <1>3, <1>5 DEF Fits
    <2>2. broken
      <3> SUFFICES ASSUME ~broken PROVE FALSE
        OBVIOUS
      <3>1. q = t
        BY <1>2 DEF CloseNews
      <3>2. Prefix(q, n) = SubSeq(q, 1, n)
        BY <1>1, <1>3, <3>1 DEF Prefix, Min
      <3>3. SubSeq(q, 1, n) = q
        BY <1>1, <1>3, <3>1
      <3> QED BY <1>5, <3>1, <3>2, <3>3
    <2> QED BY <1>3, <2>1, <2>2 DEF Heard, Faithful, CloseNews
  <1> QED BY <1>4, <1>5

(* What a poll in a body does to the end besides reading.                   *)
BodyMove(c, e) ==
    /\ Fixtures(c, e) /\ SameExchange(c, e)
    /\ e.cycle.waiting_for_continue => c.cycle.waiting_for_continue
    /\ e.st.keep_alive = c.st.keep_alive
    /\ \/ e.st = c.st
       \/ /\ peer_state(e) \in {"Done", "MightSwitchProtocol", "SwitchedProtocol", "MustClose"}
          /\ peer(c.role) = "server" => peer_state(e) \in {"Done", "MustClose"}
          /\ Settles(c.role, c.st, e.st)

(* What a poll amid a body does to an end, whatever it returns.             *)
LEMMA BodyMoves ==
    ASSUME NEW c \in Connections(Wires), Sound(c), c.held = 0, peer_state(c) = "SendBody", NEW due,
           NEW p, p = next_event(c, due)
    PROVE  /\ p.kind # "Err" => BodyMove(c, p.c)
           /\ p.kind \notin {"Err", "Data"} => p.c.cycle.waiting_for_continue = c.cycle.waiting_for_continue
           /\ p.kind = "EndOfMessage" => peer_state(p.c) # "SendBody"
           /\ p.kind = "Err" => /\ Fixtures(c, p.c) /\ SameExchange(c, p.c)
                                /\ p.c.cycle.waiting_for_continue = c.cycle.waiting_for_continue
                                /\ peer_state(p.c) = "Error" /\ ~p.c.st.keep_alive /\ Settles(c.role, c.st, p.c.st)
  <1>0. PICK i : i = next_event_inner(c, due)
    OBVIOUS
  <1>1. Concludes(c, i, p)
    BY <1>0, NextEventConcludes
  <1>2. BodyPolled(c, i)
    BY <1>0, BodyPollStep
  <1>3. Lawful(c.st) /\ c.role \in Roles
    BY DEF Sound, Coherent, Connections
  <1>4. PICK role \in Roles : role = peer(c.role)
    BY DEF Roles, peer
  <1>5. peer(role) = c.role
    BY <1>3, <1>4 DEF peer, Roles
  <1>6. PICK b \in Connections(Wires) : b = i.c
    BY <1>2 DEF BodyPolled
  <1>7. CASE i.kind = "EndOfMessage"
    <2>1. p = i
      BY <1>1, <1>7 DEF Concludes
    <2>2. PICK f : f = b.st
      OBVIOUS
    <2>3. f = process_event(c.st, role, StateEvent("EndOfMessage")) /\ Accepts(c.st, role, StateEvent("EndOfMessage"))
      BY <1>2, <1>4, <1>6, <1>7, <2>2 DEF BodyPolled
    <2>4. /\ state(f, role) \in {"Done", "MightSwitchProtocol", "SwitchedProtocol", "MustClose"}
          /\ role = "server" => f.server \in {"Done", "MustClose"}
          /\ Settles(peer(role), c.st, f) /\ f.keep_alive = c.st.keep_alive
      BY <1>3, <2>3, EndEffect
    <2>5. Fixtures(c, b) /\ SameExchange(c, b) /\ b.cycle.waiting_for_continue = c.cycle.waiting_for_continue
      BY <1>2, <1>6, <1>7 DEF BodyPolled
    <2>6. /\ peer_state(b) \in {"Done", "MightSwitchProtocol", "SwitchedProtocol", "MustClose"}
          /\ peer(c.role) = "server" => peer_state(b) \in {"Done", "MustClose"}
      BY <1>4, <2>2, <2>4, <2>5 DEF peer_state, state, Fixtures
    <2>7. BodyMove(c, b)
      BY <1>5, <2>2, <2>4, <2>5, <2>6 DEF BodyMove
    <2> QED BY <1>6, <1>7, <2>1, <2>5, <2>6, <2>7
  <1>8. CASE i.kind = "Data"
    <2>1. p.kind = "Data" /\ p.c = Consumed(b, i.count)
      BY <1>1, <1>6, <1>8 DEF Concludes
    <2>2. Fixtures(c, b) /\ SameExchange(c, b) /\ ~b.cycle.waiting_for_continue /\ b.st = c.st
      BY <1>2, <1>6, <1>8 DEF BodyPolled
    <2>3. PICK e : e = p.c
      OBVIOUS
    <2>4. e.st = b.st /\ e.cycle = b.cycle /\ Fixtures(b, e)
      BY <1>6, <2>1, <2>3 DEF Consumed, Connections, Fixtures
    <2>5. BodyMove(c, e)
      BY <2>2, <2>4 DEF BodyMove, Fixtures, SameExchange
    <2> QED BY <2>1, <2>3, <2>5
  <1>9. CASE i.kind = "Err"
    <2>1. p.kind = "Err" /\ p.c = Advanced(b, process_error(b.st, role))
      BY <1>1, <1>4, <1>6, <1>9 DEF Concludes
    <2>2. /\ Fixtures(c, b) /\ SameExchange(c, b) /\ b.st = c.st
          /\ b.cycle.waiting_for_continue = c.cycle.waiting_for_continue
      BY <1>2, <1>6, <1>9 DEF BodyPolled
    <2>3. PICK f : f = process_error(c.st, role)
      OBVIOUS
    <2>4. state(c.st, role) = "SendBody"
      BY <1>4 DEF peer_state
    <2>5. Lawful(f) /\ ~f.keep_alive /\ state(f, role) = "Error" /\ Settles(peer(role), c.st, f)
      BY <1>3, <2>3, <2>4, ErrorEffect
    <2>6. PICK e : e = p.c
      OBVIOUS
    <2>7. e = Advanced(b, f) /\ f \in ConnectionStates
      BY <2>1, <2>2, <2>3, <2>5, <2>6 DEF Lawful
    <2>8. e.st = f /\ SameButState(b, e)
      BY <1>6, <2>7, AdvancedEffect
    <2>9. Fixtures(c, e) /\ SameExchange(c, e) /\ e.cycle.waiting_for_continue = c.cycle.waiting_for_continue
      BY <2>2, <2>8 DEF Fixtures, SameExchange, SameButState
    <2>10. peer_state(e) = "Error"
      BY <1>4, <2>5, <2>8, <2>9 DEF peer_state, Fixtures
    <2> QED BY <1>5, <2>1, <2>5, <2>6, <2>8, <2>9, <2>10
  <1>10. CASE i.kind \notin {"EndOfMessage", "Data", "Err"}
    <2>1. p = i
      BY <1>1, <1>10 DEF Concludes
    <2>2. /\ Fixtures(c, b) /\ SameExchange(c, b) /\ b.st = c.st
          /\ b.cycle.waiting_for_continue = c.cycle.waiting_for_continue
      BY <1>2, <1>6, <1>10 DEF BodyPolled
    <2>3. BodyMove(c, b)
      BY <2>2 DEF BodyMove
    <2> QED BY <1>6, <1>10, <2>1, <2>2, <2>3
  <1> QED BY <1>7, <1>8, <1>9, <1>10

(* The client's request, as the bytes of it under way have it, still        *)
(* stands.                                                                  *)
RequestStands(c, e) ==
    /\ SameExchange(c, e)
    /\ e.cycle.waiting_for_continue => c.cycle.waiting_for_continue
    /\ c.st.keep_alive \/ c.eof => e.st.keep_alive \/ e.eof

(* The marks of the client's stream stay as long as its request stands.     *)
LEMMA RequestStandsUp ==
    ASSUME NEW c, NEW s, NEW a, NEW e, NEW d, NEW d2, UpMarks(c, s, d, a), RequestStands(c, e), SameHeads(d, d2),
           WaitsAfterHead(e, d2)
    PROVE  UpMarks(e, s, d2, a)
  <1>1. Asked(e) <=> Asked(c)
    BY DEF RequestStands, SameExchange, Asked
  <1>2. ASSUME NEW h, GoodRequest(c, h)
        PROVE  GoodRequest(e, h)
    BY <1>2 DEF GoodRequest, RequestStands, SameExchange
  <1>3. \A i \in HeadsOf(d2) : i \in HeadsOf(d) /\ d2.sym[i] = d.sym[i]
    BY DEF SameHeads
  <1>4. \A i \in HeadsOf(d2) : GoodRequest(e, d2.sym[i].h)
    BY <1>2, <1>3 DEF UpMarks
  <1> QED BY <1>1, <1>3, <1>4 DEF UpMarks, SameHeads

(* So does the stream.                                                      *)
LEMMA StandingUp ==
    ASSUME NEW c, NEW s, NEW w, NEW q, NEW broken, NEW a, NEW e,
           Up(c, s, w, q, broken, a), RequestStands(c, e), SameFinish(c, e)
    PROVE  Up(e, s, w, q, broken, a)
  <1> SUFFICES ASSUME s.st.client # "Error"
               PROVE  \E d : Stream(d, None, e, s, w, q, broken) /\ UpMarks(e, s, d, a)
    BY DEF Up
  <1>1. PICK d : Stream(d, None, c, s, w, q, broken) /\ UpMarks(c, s, d, a)
    BY DEF Up
  <1>r. PICK rk : rk = None
    OBVIOUS
  <1>2. Stream(d, rk, e, s, w, q, broken)
    BY <1>1, <1>r, StreamWriter
  <1>3. WaitsAfterHead(e, d)
    BY <1>1 DEF UpMarks, WaitsAfterHead, RequestStands
  <1>4. UpMarks(e, s, d, a)
    BY <1>1, <1>3, SameHeadsItself, RequestStandsUp
  <1> QED BY <1>2, <1>4, <1>r

(* A client that settles has written nothing more.                          *)
LEMMA SettledFinish ==
    ASSUME NEW c, NEW e, c.role = "client", e.role = "client", e.cycle.writer = c.cycle.writer,
           ClientSettles(c.st.client, e.st.client)
    PROVE  SameFinish(c, e) /\ (local_state(c) = "Closed" => local_state(e) = "Closed")
  BY DEF SameFinish, local_state, state, ClientSettles

(* The client gives the peer's bytes up.                                    *)
LEMMA ClientFails ==
    ASSUME NEW c, NEW s, NEW wc, NEW ws, NEW pc, NEW ps, NEW hc, NEW hs, NEW xc, NEW xs, NEW a,
           Accord(c, s, wc, ws, pc, ps, hc, hs, xc, xs, a), NEW e, EndOK(e, "client"),
           Fixtures(c, e), SameExchange(c, e), e.cycle.waiting_for_continue = c.cycle.waiting_for_continue,
           ~e.st.keep_alive, c.eof, c.st.server \in {"SendResponse", "SendBody"}, e.st.server = "Error",
           ClientSettles(c.st.client, e.st.client),
           xs \/ (hs /\ ps = <<>> /\ (c.cycle.waiting_for_continue => ~Begun(s, a)))
    PROVE  Accord(e, s, wc, ws, pc, ps, hc, hs, xc, xs, a)
  <1>0. c.role = "client" /\ e.role = "client"
    BY DEF Accord, EndOK
  <1>1. SameFinish(c, e) /\ (local_state(c) = "Closed" => local_state(e) = "Closed")
    BY <1>0, SettledFinish DEF Fixtures
  <1>2. RequestStands(c, e) /\ e.eof
    BY DEF RequestStands, Fixtures
  <1>3. LineOK(e, s, wc, pc, hc, xc) /\ LineOK(s, e, ws, ps, hs, xs)
    BY <1>1, <1>2 DEF Accord, LineOK
  <1>4. Phase(e, s, a)
    <2>1. ClientPhase(c) /\ ServerPhase(s) /\ SharedPhase(c, s, a)
      BY DEF Accord, Phase
    <2>2. Asked(c) /\ Asked(e)
      BY <2>1 DEF ClientPhase, Asked, SameExchange
    <2>3. ClientPhase(e)
      BY <2>1, <2>2 DEF ClientPhase, ClientSettles
    <2>4. SharedPhase(e, s, a)
      BY <2>1, <2>2, <1>2 DEF SharedPhase, SameExchange
    <2> QED BY <2>1, <2>3, <2>4 DEF Phase
  <1>5. ClientFault(e, s, ps, hs, xs, a)
    BY <1>2 DEF ClientFault
  <1>6. Up(e, s, wc, pc, xc, a)
    BY <1>1, <1>2, StandingUp DEF Accord
  <1>7. Down(e, s, ws, ps, xs, a)
    BY DEF Down, Follow
  <1> QED BY <1>3, <1>4, <1>5, <1>6, <1>7 DEF Accord

(* A step of the client that reads on.                                      *)
LEMMA ClientGoes ==
    ASSUME NEW c, NEW s, NEW wc, NEW ws, NEW pc, NEW ps, NEW hc, NEW hs, NEW xc, NEW xs, NEW a,
           Accord(c, s, wc, ws, pc, ps, hc, hs, xc, xs, a), NEW e, NEW q \in Seq(Items),
           EndOK(e, "client"), ClientStep(c, e), SameFinish(c, e), e.eof = c.eof,
           local_state(c) = "Closed" => local_state(e) = "Closed",
           e.st.server # "Error", Down(e, s, ws, q, xs, a)
    PROVE  Accord(e, s, wc, ws, pc, q, hc, hs, xc, xs, a)
  <1>1. LineOK(e, s, wc, pc, hc, xc) /\ LineOK(s, e, ws, q, hs, xs)
    BY DEF Accord, LineOK
  <1>2. Phase(e, s, a)
    BY ClientStepPhase DEF Accord
  <1>3. ClientFault(e, s, q, hs, xs, a)
    BY DEF ClientFault
  <1>4. Up(e, s, wc, pc, xc, a)
    BY ClientKeepsUp DEF Accord
  <1> QED BY <1>1, <1>2, <1>3, <1>4 DEF Accord

(* A client that reads on in its body keeps the server's stream.            *)
LEMMA ClientReadsOn ==
    ASSUME NEW c, NEW s, NEW w, NEW q, NEW broken, NEW a, NEW d, NEW e, NEW rk, rk = c.cycle.request_kind, NEW n,
           Stream(d, rk, s, c, w, q, broken), DownMarks(c, s, d, a), ClientStep(c, e),
           GoesTo(d, rk, s, e, w, q, broken, n)
    PROVE  Down(e, s, w, Skip(q, n), broken, a)
  <1>1. PICK d2 : Went(d, d2, n) /\ Stream(d2, rk, s, e, w, Skip(q, n), broken)
    BY DEF GoesTo
  <1>2. d \in Flows /\ d2.read <= d2.wrote
    BY <1>1, StreamOrder
  <1>3. SameHeads(d, d2) /\ (d.read = d.wrote => d2.read = d2.wrote)
    BY <1>1, <1>2, ReadHeads DEF Went
  <1>4. DownMarks(e, s, d2, a)
    BY <1>3, ClientStepDown
  <1>5. e.cycle.request_kind = rk
    BY DEF ClientStep, SameExchange
  <1> QED BY <1>1, <1>4, <1>5 DEF Down

(* A poll of the client amid a body is a step that keeps the phases.        *)
LEMMA BodyClientStep ==
    ASSUME NEW c, NEW e, c.role = "client", c.st.server = "SendBody", BodyMove(c, e)
    PROVE  /\ ClientStep(c, e) /\ SameFinish(c, e) /\ e.eof = c.eof /\ e.role = "client"
           /\ local_state(c) = "Closed" => local_state(e) = "Closed"
           /\ e.st.server \in {"SendBody", "Done", "MustClose"}
  <1>1. /\ e.role = "client" /\ e.eof = c.eof /\ e.cycle.writer = c.cycle.writer
        /\ e.st = c.st \/ (e.st.server \in {"Done", "MustClose"} /\ ClientSettles(c.st.client, e.st.client))
        /\ ClientSettles(c.st.client, e.st.client)
    BY DEF BodyMove, Fixtures, peer_state, state, peer, Settles, ClientSettles
  <1>2. SameFinish(c, e) /\ (local_state(c) = "Closed" => local_state(e) = "Closed")
    BY <1>1, SettledFinish
  <1>3. ClientStep(c, e)
    BY <1>1 DEF ClientStep, ServerPart, ClientSettles, BodyMove
  <1> QED BY <1>1, <1>2, <1>3

(* The items that a poll in a body tells.                                   *)
HearsTo(c, p, q, n, broken) ==
    Heard(c, p, q) = Skip(q, n) /\ Faithful(c, p, q, broken) /\ Skip(q, n) \in Seq(Items)

(* Bytes and the end of a message are told as the stream goes on.           *)
LEMMA NewsHeard ==
    ASSUME NEW c, NEW p, NEW q \in Seq(Items), NEW broken, NEW d, NEW rk, NEW from, NEW w
    PROVE  /\ DataNews(d, rk, from, w, q, broken, p) =>
                  \E n \in Nat : HearsTo(c, p, q, n, broken) /\ GoesTo(d, rk, from, p.c, w, q, broken, n)
           /\ EndNews(d, rk, from, w, q, broken, p) =>
                  \E n \in Nat : HearsTo(c, p, q, n, broken) /\ GoesTo(d, rk, from, p.c, w, q, broken, n)
  <1>1. ASSUME DataNews(d, rk, from, w, q, broken, p)
        PROVE  \E n \in Nat : HearsTo(c, p, q, n, broken) /\ GoesTo(d, rk, from, p.c, w, q, broken, n)
    <2>2. DataFits(p, q) /\ p.kind = "Data"
      BY <1>1 DEF DataNews, DataFits
    <2>3. Heard(c, p, q) = Skip(q, p.count) /\ Faithful(c, p, q, broken) /\ Skip(q, p.count) \in Seq(Items)
      BY <2>2, DataHeard
    <2> QED BY <1>1, <2>2, <2>3 DEF HearsTo, DataNews, DataFits
  <1>2. ASSUME EndNews(d, rk, from, w, q, broken, p)
        PROVE  \E n \in Nat : HearsTo(c, p, q, n, broken) /\ GoesTo(d, rk, from, p.c, w, q, broken, n)
    <2>1. PICK n \in Nat : n = 1
      OBVIOUS
    <2>2. <<EndItem>> = Prefix(q, n) /\ p.kind = "EndOfMessage"
      BY <1>2, <2>1 DEF EndNews
    <2>3. Heard(c, p, q) = Skip(q, n) /\ Faithful(c, p, q, broken) /\ Skip(q, n) \in Seq(Items)
      BY <2>1, <2>2, EndHeard
    <2> QED BY <1>2, <2>1, <2>3 DEF HearsTo, EndNews
  <1> QED BY <1>1, <1>2

(* A poll of the client amid a body tells what the server sent, and keeps   *)
(* the invariant.                                                           *)
LEMMA ClientReadsBody ==
    ASSUME NEW c, NEW s, NEW wc, NEW ws, NEW pc, NEW ps, NEW hc, NEW hs, NEW xc, NEW xs, NEW a,
           Accord(c, s, wc, ws, pc, ps, hc, hs, xc, xs, a), c.st.server = "SendBody",
           NEW due, NEW p, p = next_event(c, due), NEW e, e = p.c
    PROVE  Accord(e, s, wc, ws, pc, Heard(c, p, ps), hc, hs, xc, xs, a) /\ Faithful(c, p, ps, xs)
  <1>0. /\ EndOK(c, "client") /\ c.role = "client" /\ c \in Connections(Wires) /\ Sound(c) /\ c.held = 0
        /\ ws \in Seq(Wires) /\ ps \in Seq(Items) /\ peer_state(c) = "SendBody"
    BY DEF Accord, EndOK, LineOK, peer_state, state, peer
  <1>q. ps \in Seq(Items)
    BY <1>0
  <1>1. EofMeans(c, ws, s, xs)
    BY DEF Accord, LineOK, EofMeans
  <1>r. PICK rk : rk = c.cycle.request_kind
    OBVIOUS
  <1>2. PICK d : Stream(d, rk, s, c, ws, ps, xs) /\ DownMarks(c, s, d, a)
    BY <1>r DEF Accord, Down, Follow
  <1>3. BodyNews(d, rk, s, c, ws, ps, xs, p)
    BY <1>0, <1>1, <1>2, BodyPollNews
  <1>4. /\ p.kind # "Err" => BodyMove(c, e)
        /\ p.kind = "EndOfMessage" => peer_state(e) # "SendBody"
        /\ p.kind = "Err" => /\ Fixtures(c, e) /\ SameExchange(c, e)
                             /\ e.cycle.waiting_for_continue = c.cycle.waiting_for_continue
                             /\ peer_state(e) = "Error" /\ ~e.st.keep_alive /\ Settles(c.role, c.st, e.st)
    BY <1>0, BodyMoves
  <1>5. e \in Connections(Wires) /\ Sound(e) /\ e.role = "client" /\ (e.cycle.writer = c.cycle.writer => EndOK(e, "client"))
    BY <1>0, PollEnd
  <1>6. EndOK(e, "client")
    BY <1>4, <1>5 DEF BodyMove, Fixtures
  <1>7. CASE p.kind = "Err"
    <2>1. xs /\ c.eof
      BY <1>3, <1>7 DEF BodyNews, WaitNews, DataNews, EndNews, CloseNews, FailNews
    <2>2. Heard(c, p, ps) = ps /\ Faithful(c, p, ps, xs)
      BY <1>0, <1>7, NothingHeard DEF MessageEvents
    <2>3. e.st.server = "Error" /\ ClientSettles(c.st.client, e.st.client)
      BY <1>0, <1>4, <1>5, <1>7 DEF peer_state, state, peer, Settles
    <2>4. Accord(e, s, wc, ws, pc, ps, hc, hs, xc, xs, a)
      BY <1>4, <1>6, <1>7, <2>1, <2>3, ClientFails
    <2> QED BY <2>2, <2>4
  <1>8. CASE p.kind # "Err"
    <2>1. /\ ClientStep(c, e) /\ SameFinish(c, e) /\ e.eof = c.eof
          /\ local_state(c) = "Closed" => local_state(e) = "Closed"
          /\ e.st.server \in {"SendBody", "Done", "MustClose"}
      BY <1>0, <1>4, <1>8, BodyClientStep
    <2>2. ASSUME NEW n, GoesTo(d, rk, s, e, ws, ps, xs, n), Skip(ps, n) \in Seq(Items)
          PROVE  Accord(e, s, wc, ws, pc, Skip(ps, n), hc, hs, xc, xs, a)
      <3>1. Down(e, s, ws, Skip(ps, n), xs, a)
        BY <1>2, <1>r, <2>1, <2>2, ClientReadsOn
      <3>2. PICK q \in Seq(Items) : q = Skip(ps, n)
        BY <2>2
      <3>3. Accord(e, s, wc, ws, pc, q, hc, hs, xc, xs, a)
        BY <1>6, <2>1, <3>1, <3>2, ClientGoes
      <3> QED BY <3>2, <3>3
    <2>3. CASE WaitNews(d, rk, s, ws, ps, xs, p)
      <3>1. Heard(c, p, ps) = ps /\ Faithful(c, p, ps, xs) /\ Skip(ps, 0) = ps
        BY <1>0, <2>3, NothingHeard DEF MessageEvents, WaitNews
      <3>2. Accord(e, s, wc, ws, pc, Skip(ps, 0), hc, hs, xc, xs, a)
        BY <1>0, <2>2, <2>3, <3>1 DEF WaitNews
      <3> QED BY <3>1, <3>2
    <2>4. CASE DataNews(d, rk, s, ws, ps, xs, p) \/ EndNews(d, rk, s, ws, ps, xs, p)
      <3>1. PICK n \in Nat : HearsTo(c, p, ps, n, xs) /\ GoesTo(d, rk, s, p.c, ws, ps, xs, n)
        BY <1>q, <2>4, NewsHeard
      <3>2. GoesTo(d, rk, s, e, ws, ps, xs, n)
        BY <3>1
      <3>3. Accord(e, s, wc, ws, pc, Skip(ps, n), hc, hs, xc, xs, a)
        BY <2>2, <3>1, <3>2 DEF HearsTo
      <3> QED BY <3>1, <3>3 DEF HearsTo
    <2>6. CASE CloseNews(c, ps, xs, p)
      <3>1. Heard(c, p, ps) \in Seq(Items) /\ Faithful(c, p, ps, xs)
        BY <1>0, <2>6, CloseHeard DEF CloseNews
      <3>2. ~c.st.keep_alive
        BY <1>0, <2>6 DEF CloseNews, Sound, Coherent, ReaderShape
      <3>3. e.st.server \in {"Done", "MustClose"} /\ ~e.st.keep_alive
        BY <1>4, <1>5, <1>8, <2>1, <2>6, <3>2 DEF CloseNews, peer_state, state, peer, ClientStep
      <3>4. e.st.server = "MustClose"
        BY <1>5, <3>3 DEF Sound, Coherent, Lawful, Stable, Closing
      <3>5. PICK q \in Seq(Items) : q = Heard(c, p, ps)
        BY <3>1
      <3>6. Down(e, s, ws, q, xs, a)
        BY <3>4 DEF Down, Follow
      <3>7. Accord(e, s, wc, ws, pc, q, hc, hs, xc, xs, a)
        BY <1>6, <2>1, <3>6, ClientGoes
      <3> QED BY <3>1, <3>5, <3>7
    <2> QED BY <1>3, <1>8, <2>3, <2>4, <2>6 DEF BodyNews, FailNews
  <1> QED BY <1>7, <1>8

(* A step of the server that reads on.                                      *)
LEMMA ServerGoes ==
    ASSUME NEW c, NEW s, NEW wc, NEW ws, NEW pc, NEW ps, NEW hc, NEW hs, NEW xc, NEW xs, NEW a,
           Accord(c, s, wc, ws, pc, ps, hc, hs, xc, xs, a), NEW e, NEW q \in Seq(Items),
           EndOK(e, "server"), ServerStep(s, e), SameFinish(s, e), e.eof = s.eof,
           local_state(s) = "Closed" => local_state(e) = "Closed",
           c.cycle.waiting_for_continue /\ Begun(s, a) /\ s.cycle.waiting_for_continue => e.cycle.waiting_for_continue,
           e.st.client = "Error" => xc, Up(c, e, wc, q, xc, a)
    PROVE  Accord(c, e, wc, ws, q, ps, hc, hs, xc, xs, a)
  <1>1. LineOK(c, e, wc, q, hc, xc) /\ LineOK(e, c, ws, ps, hs, xs)
    BY DEF Accord, LineOK
  <1>2. Phase(c, e, a) /\ (Begun(e, a) <=> Begun(s, a))
    BY ServerStepPhase DEF Accord
  <1>3. ClientFault(c, e, ps, hs, xs, a) /\ ServerFault(e, xc)
    BY <1>2 DEF Accord, ClientFault, ServerFault
  <1>5. Down(c, e, ws, ps, xs, a)
    BY ServerKeepsDown DEF Accord
  <1> QED BY <1>1, <1>2, <1>3, <1>5 DEF Accord

(* A server that reads on in its body keeps the client's stream.            *)
LEMMA ServerReadsOn ==
    ASSUME NEW c, NEW s, NEW w, NEW q, NEW broken, NEW a, NEW d, NEW e, NEW rk, rk = None, NEW n,
           Stream(d, rk, c, s, w, q, broken), UpMarks(c, s, d, a), Begun(e, a) <=> Begun(s, a),
           GoesTo(d, rk, c, e, w, q, broken, n)
    PROVE  Up(c, e, w, Skip(q, n), broken, a)
  <1>1. PICK d2 : Went(d, d2, n) /\ Stream(d2, rk, c, e, w, Skip(q, n), broken)
    BY DEF GoesTo
  <1>2. d \in Flows /\ d2.read <= d2.wrote
    BY <1>1, StreamOrder
  <1>3. SameHeads(d, d2) /\ (d.read = d.wrote => d2.read = d2.wrote)
    BY <1>1, <1>2, ReadHeads DEF Went
  <1>5. WaitsAfterHead(c, d2)
    BY <1>1, <1>3 DEF UpMarks, WaitsAfterHead, Went, SameFlow
  <1>4. UpMarks(c, e, d2, a)
    BY <1>3, <1>5, ServerStepUp
  <1> QED BY <1>1, <1>4 DEF Up

(* A server that settles has written nothing more.                          *)
LEMMA SettledServerFinish ==
    ASSUME NEW c, NEW e, c.role = "server", e.role = "server", e.cycle.writer = c.cycle.writer,
           ServerSettles(c.st.server, e.st.server)
    PROVE  SameFinish(c, e) /\ (local_state(c) = "Closed" => local_state(e) = "Closed")
  BY DEF SameFinish, local_state, state, ServerSettles

(* A poll of the server amid a body is a step that keeps the phases.        *)
LEMMA BodyServerStep ==
    ASSUME NEW s, NEW e, s.role = "server", s.st.client = "SendBody", Fixtures(s, e), SameExchange(s, e),
           e.st = s.st \/ (e.st.client # "Idle" /\ ServerSettles(s.st.server, e.st.server)),
           e.st.keep_alive => s.st.keep_alive, Persists(s) => Persists(e)
    PROVE  /\ ServerStep(s, e) /\ SameFinish(s, e) /\ e.eof = s.eof /\ e.role = "server"
           /\ local_state(s) = "Closed" => local_state(e) = "Closed"
  <1>1. /\ e.role = "server" /\ e.eof = s.eof /\ e.cycle.writer = s.cycle.writer
        /\ ServerSettles(s.st.server, e.st.server)
    BY DEF Fixtures, ServerSettles
  <1>2. SameFinish(s, e) /\ (local_state(s) = "Closed" => local_state(e) = "Closed")
    BY <1>1, SettledServerFinish
  <1>3. ServerStep(s, e)
    BY <1>1 DEF ServerStep, ServerPart, ServerSettles
  <1> QED BY <1>1, <1>2, <1>3

(* A client that waits sends no body that the server could read.            *)
LEMMA NoDataWhileWaiting ==
    ASSUME NEW c, NEW s, NEW d, NEW a, NEW rk, NEW w, NEW q, NEW broken, Stream(d, rk, c, s, w, q, broken),
           UpMarks(c, s, d, a), d.read < d.wrote, c.cycle.waiting_for_continue
    PROVE  ~Begun(s, a)
  <1>1. d.read <= d.wrote /\ d.read \in Nat /\ d.wrote \in Nat
    BY StreamOrder
  <1>2. d.sym[d.wrote].tok = "head"
    BY <1>1 DEF UpMarks, WaitsAfterHead
  <1>3. d.wrote \in HeadsOf(d)
    BY <1>1, <1>2 DEF HeadsOf
  <1> QED BY <1>3 DEF UpMarks

(* A poll of the server amid a body tells what the client sent, and keeps   *)
(* the invariant.                                                           *)
LEMMA ServerReadsBody ==
    ASSUME NEW c, NEW s, NEW wc, NEW ws, NEW pc, NEW ps, NEW hc, NEW hs, NEW xc, NEW xs, NEW a,
           Accord(c, s, wc, ws, pc, ps, hc, hs, xc, xs, a), s.st.client = "SendBody",
           NEW due, NEW p, p = next_event(s, due), NEW e, e = p.c
    PROVE  Accord(c, e, wc, ws, Heard(s, p, pc), ps, hc, hs, xc, xs, a) /\ Faithful(s, p, pc, xc)
  <1>0. /\ EndOK(s, "server") /\ s.role = "server" /\ s \in Connections(Wires) /\ Sound(s) /\ s.held = 0
        /\ wc \in Seq(Wires) /\ pc \in Seq(Items) /\ peer_state(s) = "SendBody"
    BY DEF Accord, EndOK, LineOK, peer_state, state, peer
  <1>q. pc \in Seq(Items)
    BY <1>0
  <1>1. EofMeans(s, wc, c, xc)
    BY DEF Accord, LineOK, EofMeans
  <1>r. PICK rk : rk = None
    OBVIOUS
  <1>2. PICK d : Stream(d, rk, c, s, wc, pc, xc) /\ UpMarks(c, s, d, a)
    BY <1>r DEF Accord, Up
  <1>3. BodyNews(d, rk, c, s, wc, pc, xc, p)
    BY <1>0, <1>1, <1>2, BodyPollNews
  <1>4. /\ p.kind # "Err" => BodyMove(s, e)
        /\ p.kind \notin {"Err", "Data"} => e.cycle.waiting_for_continue = s.cycle.waiting_for_continue
        /\ p.kind = "Err" => /\ Fixtures(s, e) /\ SameExchange(s, e)
                             /\ e.cycle.waiting_for_continue = s.cycle.waiting_for_continue
                             /\ peer_state(e) = "Error" /\ ~e.st.keep_alive /\ Settles(s.role, s.st, e.st)
    BY <1>0, BodyMoves
  <1>5. /\ e \in Connections(Wires) /\ Sound(e) /\ e.role = "server" /\ (e.cycle.writer = s.cycle.writer => EndOK(e, "server"))
        /\ e.st.keep_alive => s.st.keep_alive
        /\ Persists(s) => Persists(e)
    BY <1>0, PollEnd
  <1>6. EndOK(e, "server") /\ Fixtures(s, e) /\ SameExchange(s, e)
    BY <1>4, <1>5 DEF BodyMove, Fixtures
  <1>7. /\ e.st = s.st \/ (e.st.client # "Idle" /\ ServerSettles(s.st.server, e.st.server))
        /\ e.st.client = "Error" => p.kind = "Err"
        /\ p.kind = "Err" => e.st.client = "Error"
    BY <1>0, <1>4, <1>5 DEF BodyMove, peer_state, state, peer, Settles
  <1>8. /\ ServerStep(s, e) /\ SameFinish(s, e) /\ e.eof = s.eof
        /\ local_state(s) = "Closed" => local_state(e) = "Closed"
    BY <1>0, <1>5, <1>6, <1>7, BodyServerStep
  <1>9. Begun(e, a) <=> Begun(s, a)
    BY <1>6 DEF SameExchange, Begun
  <1>10. CASE p.kind = "Err"
    <2>1. xc
      BY <1>3, <1>10 DEF BodyNews, WaitNews, DataNews, EndNews, CloseNews, FailNews
    <2>2. Heard(s, p, pc) = pc /\ Faithful(s, p, pc, xc)
      BY <1>q, <1>10, NothingHeard DEF MessageEvents
    <2>3. Up(c, e, wc, pc, xc, a)
      BY <1>7, <1>10 DEF Up
    <2>4. e.cycle.waiting_for_continue = s.cycle.waiting_for_continue
      BY <1>4, <1>10
    <2>5. Accord(c, e, wc, ws, pc, ps, hc, hs, xc, xs, a)
      BY <1>q, <1>6, <1>8, <2>1, <2>3, <2>4, ServerGoes
    <2> QED BY <2>2, <2>5
  <1>11. CASE p.kind # "Err"
    <2>1. c.cycle.waiting_for_continue /\ Begun(s, a) /\ s.cycle.waiting_for_continue => e.cycle.waiting_for_continue
      <3>1. CASE p.kind = "Data"
        <4>1. d.read < d.wrote
          BY <1>3, <3>1 DEF BodyNews, WaitNews, DataNews, EndNews, CloseNews, FailNews
        <4> QED BY <1>2, <4>1, NoDataWhileWaiting
      <3> QED BY <1>4, <1>11, <3>1
    <2>2. ASSUME NEW n, GoesTo(d, rk, c, e, wc, pc, xc, n), Skip(pc, n) \in Seq(Items)
          PROVE  Accord(c, e, wc, ws, Skip(pc, n), ps, hc, hs, xc, xs, a)
      <3>1. Up(c, e, wc, Skip(pc, n), xc, a)
        BY <1>2, <1>r, <1>9, <2>2, ServerReadsOn
      <3>2. PICK q \in Seq(Items) : q = Skip(pc, n)
        BY <2>2
      <3>3. Accord(c, e, wc, ws, q, ps, hc, hs, xc, xs, a)
        BY <1>6, <1>7, <1>8, <1>11, <2>1, <3>1, <3>2, ServerGoes
      <3> QED BY <3>2, <3>3
    <2>3. CASE WaitNews(d, rk, c, wc, pc, xc, p)
      <3>1. Heard(s, p, pc) = pc /\ Faithful(s, p, pc, xc) /\ Skip(pc, 0) = pc
        BY <1>0, <2>3, NothingHeard DEF MessageEvents, WaitNews
      <3>2. Accord(c, e, wc, ws, Skip(pc, 0), ps, hc, hs, xc, xs, a)
        BY <1>0, <2>2, <2>3, <3>1 DEF WaitNews
      <3> QED BY <3>1, <3>2
    <2>4. CASE DataNews(d, rk, c, wc, pc, xc, p) \/ EndNews(d, rk, c, wc, pc, xc, p)
      <3>1. PICK n \in Nat : HearsTo(s, p, pc, n, xc) /\ GoesTo(d, rk, c, p.c, wc, pc, xc, n)
        BY <1>q, <2>4, NewsHeard
      <3>2. GoesTo(d, rk, c, e, wc, pc, xc, n)
        BY <3>1
      <3>3. Accord(c, e, wc, ws, Skip(pc, n), ps, hc, hs, xc, xs, a)
        BY <2>2, <3>1, <3>2 DEF HearsTo
      <3> QED BY <3>1, <3>3 DEF HearsTo
    <2>6. CASE CloseNews(s, pc, xc, p)
      BY <1>0, <2>6 DEF CloseNews, Sound, Coherent, ReaderShape
    <2> QED BY <1>3, <1>11, <2>3, <2>4, <2>6 DEF BodyNews, FailNews
  <1> QED BY <1>10, <1>11

----------------------------------------------------------------------------
(* Polls of the client before a head.                                       *)

(* A poll that fails before it reads.                                       *)
LEMMA ErrPoll ==
    ASSUME NEW c \in Connections(Wires), Sound(c), NEW i, i.kind = "Err", i.c = c, NEW p, Concludes(c, i, p),
           peer_state(c) = "SendResponse"
    PROVE  /\ Fixtures(c, p.c) /\ SameExchange(c, p.c) /\ p.kind = "Err"
           /\ p.c.cycle.waiting_for_continue = c.cycle.waiting_for_continue
           /\ peer_state(p.c) = "Error" /\ ~p.c.st.keep_alive /\ Settles(c.role, c.st, p.c.st)
  <1>4. PICK role \in Roles : role = peer(c.role)
    BY DEF Roles, peer
  <1>2. PICK f : f = process_error(c.st, role)
    OBVIOUS
  <1>3. p.c = Advanced(c, f) /\ p.kind = "Err"
    BY <1>2, <1>4 DEF Concludes
  <1>5. Lawful(c.st) /\ c.role \in Roles
    BY DEF Sound, Coherent, Connections
  <1>6. state(c.st, role) = "SendResponse"
    BY <1>4 DEF peer_state
  <1>7. Lawful(f) /\ ~f.keep_alive /\ state(f, role) = "Error" /\ Settles(peer(role), c.st, f)
    BY <1>2, <1>5, <1>6, ErrorEffect
  <1>8. p.c.st = f /\ SameButState(c, p.c)
    BY <1>3, <1>7, AdvancedEffect DEF Lawful
  <1>9. peer(role) = c.role
    BY <1>4, <1>5 DEF peer, Roles
  <1>10. peer_state(p.c) = "Error"
    BY <1>4, <1>7, <1>8 DEF peer_state, SameButState
  <1> QED BY <1>3, <1>7, <1>8, <1>9, <1>10 DEF SameButState, Fixtures, SameExchange

(* What the head a client reads next is.                                    *)
LEMMA ClientHeadAt ==
    ASSUME NEW c, NEW s, NEW w \in Seq(Wires), NEW q \in Seq(Items), NEW broken, NEW a, NEW d, NEW rk,
           c \in Connections(Wires), c.role = "client", c.st.server \in {"Idle", "SendResponse"},
           Stream(d, rk, s, c, w, q, broken), DownMarks(c, s, d, a)
    PROVE  /\ AtHead(c)
           /\ c.input # <<>> => /\ c.st.server = "SendResponse" /\ HeadNext(d, rk, c, q) /\ Begun(s, a)
                                /\ GoodResponse(c, s, d, a, d.read + 1, NextHead(d))
  <1>1. peer_state(c) # "SendBody"
    BY DEF peer_state, state, peer
  <1>2. ASSUME c.input # <<>>
        PROVE  /\ c.st.server = "SendResponse" /\ HeadNext(d, rk, c, q) /\ Begun(s, a)
               /\ GoodResponse(c, s, d, a, d.read + 1, NextHead(d))
    <2>1. HeadNext(d, rk, c, q)
      BY <1>1, <1>2, HeadIsNext
    <2>2. d.read \in Nat /\ d.wrote \in Nat
      BY StreamOrder
    <2>3. d.read + 1 \in HeadsOf(d)
      BY <2>1 DEF HeadNext
    <2>4. d.read # d.wrote
      BY <2>2, <2>3 DEF HeadsOf
    <2>5. GoodResponse(c, s, d, a, d.read + 1, d.sym[d.read + 1].h)
      BY <2>3 DEF DownMarks
    <2> QED BY <2>1, <2>3, <2>4, <2>5 DEF DownMarks, NextHead
  <1>3. AtHead(c)
    <2> SUFFICES ASSUME c.input # <<>> PROVE AtHead(c)
      BY DEF AtHead
    <2> QED BY <1>2 DEF AtHead, HeadNext, GoodResponse, HeadKind, NextHead
  <1> QED BY <1>2, <1>3

(* The stream ended where the client expected a head.                       *)
LEMMA NothingCame ==
    ASSUME NEW c, NEW s, NEW w, NEW q, NEW a, NEW d, NEW rk, NEW broken,
           c.role = "client", c.st.server = "SendResponse", EndOK(s, "server"), local_state(s) = "Closed",
           Stream(d, rk, s, c, w, q, broken), DownMarks(c, s, d, a), ~broken, c.input = <<>>, w = <<>>, q \in Seq(Items)
    PROVE  q = <<>> /\ (c.cycle.waiting_for_continue => ~Begun(s, a))
  <1>1. d.read <= d.wrote /\ d.read \in Nat /\ d.wrote \in Nat /\ d.came \in Nat /\ d \in Flows
    BY StreamOrder, FlowTypes
  <1>2. c.input \o w = <<>>
    OBVIOUS
  <1>3. d.came = d.wrote /\ Len(<<>>) = d.came - d.read
    BY <1>2 DEF Stream, Carries
  <1>4. d.read = d.wrote
    BY <1>1, <1>3
  <1>5. peer_state(c) # "SendBody"
    BY DEF peer_state, state, peer
  <1>6. q = <<>>
    BY <1>4, <1>5, EmptyStream
  <1>7. HeadsOf(d) = {}
    BY <1>1, <1>4 DEF HeadsOf
  <1>8. ~AnswerUnderWay(d)
    BY <1>7 DEF AnswerUnderWay
  <1>9. ~s.cycle.waiting_for_continue
    BY DEF EndOK, Sound, Coherent, WaitMatches, local_state, state
  <1> QED BY <1>6, <1>8, <1>9 DEF DownMarks, WaitsKnown

(* A client that expects a response at the end of the transport fails,      *)
(* which a cut or the server's close excuses.                               *)
LEMMA ClientHeadFails ==
    ASSUME NEW c, NEW s, NEW wc, NEW ws, NEW pc, NEW ps, NEW hc, NEW hs, NEW xc, NEW xs, NEW a,
           Accord(c, s, wc, ws, pc, ps, hc, hs, xc, xs, a), c.st.server = "SendResponse",
           NEW due, NEW p, p = next_event(c, due), NEW i, i.kind = "Err", i.c = c, Concludes(c, i, p),
           c.eof, c.input = <<>>, NEW e, e = p.c
    PROVE  Accord(e, s, wc, ws, pc, ps, hc, hs, xc, xs, a) /\ p.kind = "Err"
  <1>0. /\ EndOK(c, "client") /\ c.role = "client" /\ c \in Connections(Wires) /\ Sound(c)
        /\ ws = <<>> /\ (hs \/ xs) /\ (hs => local_state(s) = "Closed") /\ EndOK(s, "server") /\ ps \in Seq(Items)
        /\ peer_state(c) = "SendResponse"
    BY DEF Accord, EndOK, LineOK, peer_state, state, peer
  <1>1. /\ Fixtures(c, e) /\ SameExchange(c, e) /\ p.kind = "Err"
        /\ e.cycle.waiting_for_continue = c.cycle.waiting_for_continue
        /\ peer_state(e) = "Error" /\ ~e.st.keep_alive /\ Settles(c.role, c.st, e.st)
    BY <1>0, ErrPoll
  <1>2. e.st.server = "Error" /\ ClientSettles(c.st.client, e.st.client) /\ EndOK(e, "client")
    <2>1. e.cycle.writer = c.cycle.writer => EndOK(e, "client")
      BY <1>0, PollEnd
    <2> QED BY <1>0, <1>1, <2>1 DEF peer_state, state, peer, Settles, Fixtures
  <1>3. ASSUME ~xs
        PROVE  ps = <<>> /\ (c.cycle.waiting_for_continue => ~Begun(s, a))
    <2>r. PICK rk : rk = c.cycle.request_kind
      OBVIOUS
    <2>1. PICK d : Stream(d, rk, s, c, ws, ps, xs) /\ DownMarks(c, s, d, a)
      BY <2>r DEF Accord, Down, Follow
    <2> QED BY <1>0, <1>3, <2>1, NothingCame
  <1>4. xs \/ (hs /\ ps = <<>> /\ (c.cycle.waiting_for_continue => ~Begun(s, a)))
    BY <1>0, <1>3
  <1>5. Accord(e, s, wc, ws, pc, ps, hc, hs, xc, xs, a)
    BY <1>1, <1>2, <1>4, ClientFails
  <1> QED BY <1>1, <1>5

(* A head is told at once.                                                  *)
LEMMA HeadToldFirst ==
    ASSUME NEW c, NEW p, c.input \in Seq(Wires), c.input # <<>>,
           c.input[1].tok = "head", p.kind \in {"Request", "InformationalResponse", "Response"}
    PROVE  TellItems(c, p) = <<HeadItem(c.input[1].h)>>
  <1>1. PICK in \in Seq(Wires) : in = c.input
    OBVIOUS
  <1> DEFINE First(i) == in[i].tok = "head" /\ \A j \in 1..(i - 1) : in[j].tok # "head"
  <1>2. 1 \in DOMAIN in /\ DOMAIN in = 1..Len(in) /\ Len(in) \in Nat
    BY <1>1
  <1>3. First(1)
    BY <1>1
  <1>4. \A i \in DOMAIN in : First(i) => i = 1
    BY <1>1, <1>2
  <1>5. PICK at : at = CHOOSE i \in DOMAIN in : First(i)
    OBVIOUS
  <1>6. at = 1
    <2>1. at \in DOMAIN in /\ First(at)
      BY <1>2, <1>3, <1>5
    <2> HIDE DEF First
    <2> QED BY <2>1, <1>4
  <1>7. Told(c, p) = <<HeadItem(in[at].h)>>
    BY <1>1, <1>5 DEF Told
  <1> QED BY <1>1, <1>6, <1>7 DEF TellItems, MessageEvents

(* A poll that tells one item, the next.                                    *)
LEMMA OneHeard ==
    ASSUME NEW c, NEW p, NEW q \in Seq(Items), NEW broken, NEW x \in Items, TellItems(c, p) = <<x>>,
           NEW n \in Nat, n = 1, <<x>> = Prefix(q, n)
    PROVE  HearsTo(c, p, q, n, broken)
  <1>1. PICK t : t = <<x>>
    OBVIOUS
  <1>2. t \in Seq(Items)
    <2>1. \A y \in Items : <<y>> \in Seq(Items)
      OBVIOUS
    <2> QED BY <1>1, <2>1
  <1>3. n = Len(t)
    BY <1>1
  <1>4. TellItems(c, p) = t
    BY <1>1
  <1>5. t = Prefix(q, n)
    BY <1>1
  <1>7. Fits(t, q)
    BY <1>3, <1>5 DEF Fits
  <1>8. Heard(c, p, q) = Skip(q, Len(t)) /\ Faithful(c, p, q, broken) /\ Heard(c, p, q) \in Seq(Items)
    BY <1>2, <1>4, <1>7, HeardIs
  <1> QED BY <1>3, <1>8 DEF HearsTo

(* A poll that reads the next head tells it.                                *)
LEMMA HeadHeard ==
    ASSUME NEW c, NEW p, NEW q \in Seq(Items), NEW broken, c.input \in Seq(Wires), c.input # <<>>,
           c.input[1].tok = "head", p.kind \in {"Request", "InformationalResponse", "Response"},
           NEW x \in Items, x = HeadItem(c.input[1].h), Prefix(q, 1) = <<x>>
    PROVE  \E n \in Nat : n = 1 /\ HearsTo(c, p, q, n, broken)
  <1>1. TellItems(c, p) = <<x>>
    BY HeadToldFirst
  <1>2. PICK n \in Nat : n = 1
    OBVIOUS
  <1>3. <<x>> = Prefix(q, n)
    BY <1>2
  <1>4. HearsTo(c, p, q, n, broken)
    BY <1>1, <1>2, <1>3, OneHeard
  <1> QED BY <1>2, <1>4

(* Once the server has read the request, its head is not under way.         *)
LEMMA AnsweredUp ==
    ASSUME NEW c, NEW s, NEW w, NEW q, NEW broken, NEW a, NEW e, Up(c, s, w, q, broken, a), Begun(s, a),
           e.cycle.request_kind = c.cycle.request_kind,
           e.cycle.waiting_for_continue => c.cycle.waiting_for_continue, SameFinish(c, e)
    PROVE  Up(e, s, w, q, broken, a)
  <1> SUFFICES ASSUME s.st.client # "Error"
               PROVE  \E d : Stream(d, None, e, s, w, q, broken) /\ UpMarks(e, s, d, a)
    BY DEF Up
  <1>r. PICK rk : rk = None
    OBVIOUS
  <1>1. PICK d : Stream(d, rk, c, s, w, q, broken) /\ UpMarks(c, s, d, a)
    BY <1>r DEF Up
  <1>2. Stream(d, rk, e, s, w, q, broken)
    BY <1>1, StreamWriter
  <1>3. WaitsAfterHead(e, d)
    BY <1>1 DEF UpMarks, WaitsAfterHead
  <1>4. HeadsOf(d) = {}
    BY <1>1 DEF UpMarks
  <1>5. UpMarks(e, s, d, a)
    BY <1>3, <1>4 DEF UpMarks
  <1> QED BY <1>2, <1>5, <1>r

(* The client takes a response: the rest of the invariant stays.            *)
LEMMA ClientTakesHead ==
    ASSUME NEW c, NEW s, NEW wc, NEW ws, NEW pc, NEW ps, NEW hc, NEW hs, NEW xc, NEW xs, NEW a,
           Accord(c, s, wc, ws, pc, ps, hc, hs, xc, xs, a), Begun(s, a), NEW e, EndOK(e, "client"), Fixtures(c, e),
           e.cycle.request_kind = c.cycle.request_kind,
           e.cycle.waiting_for_continue => c.cycle.waiting_for_continue,
           ClientSettles(c.st.client, e.st.client),
           e.st.server \in {"SendResponse", "SendBody", "SwitchedProtocol"},
           SharedPhase(e, s, a), NEW q \in Seq(Items), Down(e, s, ws, q, xs, a)
    PROVE  Accord(e, s, wc, ws, pc, q, hc, hs, xc, xs, a)
  <1>0. c.role = "client" /\ e.role = "client" /\ e.eof = c.eof /\ e.cycle.writer = c.cycle.writer
    BY DEF Accord, EndOK, Fixtures
  <1>1. SameFinish(c, e) /\ (local_state(c) = "Closed" => local_state(e) = "Closed")
    BY <1>0, SettledFinish
  <1>3. LineOK(e, s, wc, pc, hc, xc) /\ LineOK(s, e, ws, q, hs, xs)
    BY <1>0, <1>1 DEF Accord, LineOK
  <1>4. Phase(e, s, a)
    <2>1. ClientPhase(c) /\ ServerPhase(s) /\ Asked(c)
      BY DEF Accord, Phase, SharedPhase
    <2>2. Asked(e)
      BY <2>1 DEF Asked
    <2>3. ClientPhase(e)
      BY <2>1, <2>2 DEF ClientPhase, ClientSettles
    <2> QED BY <2>1, <2>3 DEF Phase
  <1>5. ClientFault(e, s, q, hs, xs, a)
    BY DEF ClientFault
  <1>6. Up(e, s, wc, pc, xc, a)
    BY <1>1, AnsweredUp DEF Accord
  <1> QED BY <1>3, <1>4, <1>5, <1>6 DEF Accord

(* The head at m was taken.                                                 *)
Took(d, d2, m) == /\ HeadsOf(d2) = HeadsOf(d) \ {m}
                  /\ \A i \in HeadsOf(d2) : d2.sym[i] = d.sym[i] /\ i \in Nat /\ m < i

(* What an informational response other than a switch changes in a client.  *)
Continues(c, status, e) ==
    /\ e.cycle.request_kind = c.cycle.request_kind /\ e.cycle.upgrade_proposals = c.cycle.upgrade_proposals
    /\ e.st = c.st
    /\ status = 100 => ~e.cycle.waiting_for_continue /\ ~e.cycle.continue_before_upgrade
    /\ status # 100 => /\ e.cycle.waiting_for_continue = c.cycle.waiting_for_continue
                       /\ e.cycle.continue_before_upgrade = c.cycle.continue_before_upgrade

(* After an informational response the client will still accept those that  *)
(* follow.                                                                  *)
LEMMA ContinuesKeepsResponse ==
    ASSUME NEW c, NEW s, NEW a, NEW e, NEW d, NEW d2, NEW m, NEW h, h = d.sym[m].h, Took(d, d2, m),
           Continues(c, h.status, e), NEW i, NEW g, GoodResponse(c, s, d, a, i, g)
    PROVE  GoodResponse(e, s, d2, a, i, g)
  <1>1. Switching(e, s, d2, i, g)
    <2> SUFFICES ASSUME g.status = 101
                 PROVE  /\ valid_upgrade_response(e, g) /\ s.st.server = "SwitchedProtocol"
                        /\ e.cycle.continue_before_upgrade =>
                              \E j \in HeadsOf(d2) : j < i /\ d2.sym[j].h.status = 100
      BY DEF Switching
    <2>1. Switching(c, s, d, i, g)
      BY DEF GoodResponse
    <2>2. valid_upgrade_response(e, g) /\ s.st.server = "SwitchedProtocol"
      BY <2>1 DEF Switching, valid_upgrade_response, Continues
    <2>3. ASSUME e.cycle.continue_before_upgrade
          PROVE  \E j \in HeadsOf(d2) : j < i /\ d2.sym[j].h.status = 100
      <3>1. h.status # 100 /\ c.cycle.continue_before_upgrade
        BY <2>3 DEF Continues
      <3>2. PICK j \in HeadsOf(d) : j < i /\ d.sym[j].h.status = 100
        BY <2>1, <3>1 DEF Switching
      <3>3. j \in HeadsOf(d2)
        BY <3>1, <3>2 DEF Took
      <3> QED BY <3>2, <3>3 DEF Took
    <2> QED BY <2>2, <2>3
  <1>2. Answered(e, s, a, g)
    BY DEF GoodResponse, Answered, FinalFraming, response_has_no_body, opens_tunnel, Continues
  <1>3. Final(g) => s.st.server # "SendResponse" /\ \A j \in HeadsOf(d2) : j <= i
    BY DEF GoodResponse, Took
  <1> QED BY <1>1, <1>2, <1>3 DEF GoodResponse

(* What is under way after an informational response was taken.             *)
LEMMA ContinuesMarks ==
    ASSUME NEW c, NEW s, NEW a, NEW e, NEW d, NEW d2, NEW m, m \in HeadsOf(d), NEW h, h = d.sym[m].h, Took(d, d2, m),
           DownMarks(c, s, d, a), c.st.server = "SendResponse", Begun(s, a),
           Continues(c, h.status, e), is_informational(h.status)
    PROVE  DownMarks(e, s, d2, a)
  <1>1. \A i \in HeadsOf(d2) : GoodResponse(e, s, d2, a, i, d2.sym[i].h)
    <2> SUFFICES ASSUME NEW i \in HeadsOf(d2)
                 PROVE  GoodResponse(e, s, d2, a, i, d2.sym[i].h)
      OBVIOUS
    <2>1. i \in HeadsOf(d) /\ d2.sym[i] = d.sym[i]
      BY DEF Took
    <2>2. PICK g : g = d2.sym[i].h
      OBVIOUS
    <2>3. GoodResponse(c, s, d, a, i, g)
      BY <2>1, <2>2 DEF DownMarks
    <2>4. GoodResponse(e, s, d2, a, i, g)
      BY <2>3, ContinuesKeepsResponse
    <2> QED BY <2>2, <2>4
  <1>2. Proposals(e, s, d2, a)
    <2> SUFFICES ASSUME a = 0, s.st.server = "SendResponse"
                 PROVE  /\ s.cycle.upgrade_proposals = e.cycle.upgrade_proposals
                        /\ e.cycle.continue_before_upgrade /\ ~s.cycle.continue_before_upgrade => ContinueUnderWay(d2)
      BY DEF Proposals
    <2>1. /\ s.cycle.upgrade_proposals = c.cycle.upgrade_proposals
          /\ c.cycle.continue_before_upgrade /\ ~s.cycle.continue_before_upgrade => ContinueUnderWay(d)
      BY DEF DownMarks, Proposals
    <2>2. ASSUME e.cycle.continue_before_upgrade, ~s.cycle.continue_before_upgrade
          PROVE  ContinueUnderWay(d2)
      <3>1. h.status # 100 /\ c.cycle.continue_before_upgrade
        BY <2>2 DEF Continues
      <3>2. PICK j \in HeadsOf(d) : d.sym[j].h.status = 100
        BY <2>1, <2>2, <3>1 DEF ContinueUnderWay
      <3>3. j \in HeadsOf(d2)
        BY <3>1, <3>2 DEF Took
      <3> QED BY <3>2, <3>3 DEF Took, ContinueUnderWay
    <2> QED BY <2>1, <2>2 DEF Continues
  <1>3. WaitsKnown(e, s, d2, a)
    <2> SUFFICES ASSUME e.cycle.waiting_for_continue, ~(a = 0 /\ s.cycle.waiting_for_continue)
                 PROVE  AnswerUnderWay(d2)
      BY DEF WaitsKnown
    <2>1. h.status # 100 /\ c.cycle.waiting_for_continue
      BY DEF Continues
    <2>2. AnswerUnderWay(d)
      BY <2>1 DEF DownMarks, WaitsKnown
    <2>3. PICK j \in HeadsOf(d) : d.sym[j].h.status = 100 \/ ~is_informational(d.sym[j].h.status)
      BY <2>2 DEF AnswerUnderWay
    <2>4. j \in HeadsOf(d2)
      BY <2>1, <2>3 DEF Took
    <2> QED BY <2>3, <2>4 DEF Took, AnswerUnderWay
  <1> QED BY <1>1, <1>2, <1>3 DEF DownMarks, Continues

(* What is under way after the final response was taken: no head.           *)
LEMMA FinalMarks ==
    ASSUME NEW c, NEW s, NEW a, NEW e, NEW d, NEW d2, NEW m, m \in Nat, NEW h, Took(d, d2, m),
           GoodResponse(c, s, d, a, m, h), Final(h), Begun(s, a),
           ~e.cycle.waiting_for_continue
    PROVE  DownMarks(e, s, d2, a)
  <1>1. \A j \in HeadsOf(d) : j <= m
    BY DEF GoodResponse
  <1>2. HeadsOf(d2) = {}
    <2> SUFFICES ASSUME NEW j \in HeadsOf(d2) PROVE FALSE
      OBVIOUS
    <2>1. j \in HeadsOf(d) /\ m < j /\ j \in Nat
      BY DEF Took
    <2>2. j <= m
      BY <1>1, <2>1
    <2> QED BY <2>1, <2>2
  <1>3. s.st.server # "SendResponse"
    BY DEF GoodResponse
  <1> QED BY <1>2, <1>3 DEF DownMarks, Proposals, WaitsKnown

(* The connection without the first symbol of its input.                    *)
LEMMA TakeOne ==
    ASSUME NEW c \in Connections(Wires), Sound(c), c.input # <<>>, NEW b, b = Consumed(c, 1)
    PROVE  /\ b \in Connections(Wires) /\ Coherent(b) /\ b.st = c.st /\ b.cycle = c.cycle /\ Fixtures(c, b)
           /\ b.input = Skip(c.input, 1)
  <1>1. PICK n : n = 1
    OBVIOUS
  <1>2. c.input \in Seq(Wires)
    BY DEF Connections
  <1>3. n \in 0..Len(c.input)
    BY <1>1, <1>2
  <1>4. b = Consumed(c, n)
    BY <1>1
  <1>5. /\ b \in Connections(Wires) /\ b.st = c.st /\ b.cycle = c.cycle /\ Fixtures(c, b)
        /\ b.input = Skip(c.input, n)
    BY <1>3, <1>4, ConsumedEffect
  <1>6. Coherent(b)
    BY <1>5 DEF Sound, Coherent, WriterMatches, ReaderShape, ProposalsMatch, WaitMatches, Fixtures, local_state
  <1> QED BY <1>1, <1>5, <1>6

(* The client at a head it is about to take.                                *)
TakesNext(c, s, w, q, broken, a, d, rk, h) ==
    /\ c.input # <<>> /\ c.st.server = "SendResponse" /\ Begun(s, a)
    /\ rk = c.cycle.request_kind /\ Stream(d, rk, s, c, w, q, broken) /\ DownMarks(c, s, d, a)
    /\ HeadNext(d, rk, c, q) /\ h = NextHead(d) /\ h \in MessageHeads
    /\ GoodResponse(c, s, d, a, d.read + 1, h)

(* A stream that goes on by a head has taken it.                            *)
LEMMA TookHead ==
    ASSUME NEW d, NEW rk, NEW s, NEW e, NEW w, NEW q, NEW broken, d \in Flows, HeadGoes(d, rk, s, e, w, q, broken)
    PROVE  \E d2, m : /\ m = d.read + 1 /\ m \in Nat /\ Took(d, d2, m)
                      /\ Stream(d2, rk, s, e, w, Skip(q, 1), broken)
  <1>1. PICK d2 : /\ SameFlow(d, d2) /\ d2.read = d.read + 1 /\ d2.told = d.told + 1
                  /\ Stream(d2, rk, s, e, w, Skip(q, 1), broken)
    BY DEF HeadGoes
  <1>2. PICK m : m = d.read + 1
    OBVIOUS
  <1>3. d2 \in Flows /\ m \in Nat
    BY <1>1, <1>2, FlowTypes DEF SameFlow
  <1>4. /\ HeadsOf(d2) = HeadsOf(d) \ {m}
        /\ \A i \in HeadsOf(d2) : d2.sym[i] = d.sym[i] /\ m < i
    BY <1>1, <1>2, TakenHeads
  <1>5. Took(d, d2, m)
    BY <1>3, <1>4, HeadsTyped DEF Took
  <1> QED BY <1>1, <1>2, <1>3, <1>5

(* The server's stream after an informational response was taken.           *)
LEMMA InformationDown ==
    ASSUME NEW c, NEW s, NEW w \in Seq(Wires), NEW q \in Seq(Items), NEW broken, NEW a, NEW d, NEW rk, NEW h,
           c \in Connections(Wires), c.role = "client", TakesNext(c, s, w, q, broken, a, d, rk, h),
           is_informational(h.status), h.status # 101,
           NEW e \in Connections(Wires), e.role = "client", e.input = Skip(c.input, 1), Continues(c, h.status, e)
    PROVE  Down(e, s, w, Skip(q, 1), broken, a)
  <1>1. peer_state(c) # "SendBody" /\ peer_state(e) # "SendBody"
    BY DEF peer_state, state, peer, TakesNext, Continues
  <1>2. PICK f : f = Content(NextHead(d), rk)
    OBVIOUS
  <1>3. f = NoFraming
    BY <1>2 DEF Content, TakesNext, GoodResponse
  <1>4. ReadsContent(e, f)
    BY <1>1, <1>3 DEF ReadsContent
  <1>5. Stream(d, rk, s, c, w, q, broken) /\ c.input # <<>>
    BY DEF TakesNext
  <1>6. HeadGoes(d, rk, s, e, w, q, broken)
    BY <1>1, <1>2, <1>4, <1>5, HeadStreamGoes
  <1>7. d \in Flows
    BY <1>5, StreamOrder
  <1>8. PICK d2, m : /\ m = d.read + 1 /\ m \in Nat /\ Took(d, d2, m)
                     /\ Stream(d2, rk, s, e, w, Skip(q, 1), broken)
    BY <1>6, <1>7, TookHead
  <1>9. m \in HeadsOf(d) /\ h = d.sym[m].h
    BY <1>8 DEF TakesNext, HeadNext, NextHead
  <1>10. DownMarks(e, s, d2, a)
    BY <1>8, <1>9, ContinuesMarks DEF TakesNext
  <1>11. e.cycle.request_kind = rk
    BY DEF Continues, TakesNext
  <1> QED BY <1>8, <1>10, <1>11 DEF Down

(* The server's stream after a final response was taken.                    *)
LEMMA FinalDown ==
    ASSUME NEW c, NEW s, NEW w \in Seq(Wires), NEW q \in Seq(Items), NEW broken, NEW a, NEW d, NEW rk, NEW h,
           c \in Connections(Wires), c.role = "client", TakesNext(c, s, w, q, broken, a, d, rk, h),
           ~is_informational(h.status), ~opens_tunnel(c, h.status), NEW g, g = FinalFraming(c, h),
           NEW e \in Connections(Wires), e.role = "client", e.input = Skip(c.input, 1),
           e.cycle.request_kind = rk, e.st.server = "SendBody", e.cycle.reader = StartReader(g),
           ~e.cycle.waiting_for_continue
    PROVE  Down(e, s, w, Skip(q, 1), broken, a)
  <1>1. peer_state(c) # "SendBody" /\ peer_state(e) = "SendBody"
    BY DEF peer_state, state, peer, TakesNext
  <1>2. g = Content(NextHead(d), rk)
    BY ContentOf DEF TakesNext, GoodResponse, FinalFraming
  <1>3. g = Chunked \/ g = CloseDelimited \/ \E n \in Nat : g = Fixed(n)
    <2>1. g # FramingError
      BY DEF TakesNext, GoodResponse, Answered
    <2>2. CASE response_has_no_body(c, h.status)
      <3>1. g = Fixed(0)
        BY <2>2 DEF FinalFraming
      <3> QED BY <3>1
    <2>3. CASE ~response_has_no_body(c, h.status)
      <3>1. PICK t \in BOOLEAN : t = TRUE
        OBVIOUS
      <3>2. g = framing(h, h.version, t)
        BY <2>3, <3>1 DEF FinalFraming, ResponseFraming
      <3>3. IsFraming(framing(h, h.version, t), t)
        BY <2>1, <3>2, FramingValue DEF TakesNext
      <3> QED BY <3>2, <3>3 DEF IsFraming
    <2> QED BY <2>2, <2>3
  <1>4. ReadsContent(e, g)
    BY <1>1, <1>3 DEF ReadsContent
  <1>5. Stream(d, rk, s, c, w, q, broken) /\ c.input # <<>>
    BY DEF TakesNext
  <1>6. HeadGoes(d, rk, s, e, w, q, broken)
    BY <1>1, <1>2, <1>4, <1>5, HeadStreamGoes
  <1>7. d \in Flows
    BY <1>5, StreamOrder
  <1>8. PICK d2, m : /\ m = d.read + 1 /\ m \in Nat /\ Took(d, d2, m)
                     /\ Stream(d2, rk, s, e, w, Skip(q, 1), broken)
    BY <1>6, <1>7, TookHead
  <1>9. Final(h) /\ GoodResponse(c, s, d, a, m, h) /\ Begun(s, a)
    BY <1>8 DEF TakesNext, Final
  <1>10. DownMarks(e, s, d2, a)
    BY <1>8, <1>9, FinalMarks
  <1> QED BY <1>8, <1>10 DEF Down

(* The shared phase after a final response.                                 *)
LEMMA FinalPhase ==
    ASSUME NEW c, NEW s, NEW a, NEW e, NEW h, Phase(c, s, a), Begun(s, a), Answered(c, s, a, h),
           ~is_informational(h.status), c.st.server = "SendResponse",
           e.cycle.request_kind = c.cycle.request_kind, e.eof = c.eof,
           opens_tunnel(c, h.status) => e.st.server = "SwitchedProtocol",
           ~opens_tunnel(c, h.status) =>
              /\ e.st.server = "SendBody"
              /\ e.st.keep_alive <=> (c.st.keep_alive /\ AsksReuse(h, c.cycle.request_kind))
    PROVE  SharedPhase(e, s, a)
  <1>1. SharedPhase(c, s, a) /\ ServerPhase(s)
    BY DEF Phase
  <1>2. Asked(e) /\ a # 1
    BY <1>1 DEF SharedPhase, Asked, Begun
  <1>3. CASE opens_tunnel(c, h.status)
    <2>1. s.st.server = "SwitchedProtocol" /\ e.st.server = "SwitchedProtocol"
      BY <1>3 DEF Answered
    <2>2. a # -1
      BY <1>1, <2>1 DEF SharedPhase, ServerPhase
    <2> QED BY <1>1, <1>2, <2>1, <2>2 DEF SharedPhase
  <1>4. CASE ~opens_tunnel(c, h.status)
    <2>1. /\ s.st.keep_alive \/ a = -1 => AsksReuse(h, c.cycle.request_kind)
          /\ AsksReuse(h, c.cycle.request_kind) => a = -1 \/ Persists(s)
      BY <1>4 DEF Answered
    <2>2. e.st.server = "SendBody" /\ (e.st.keep_alive <=> (c.st.keep_alive /\ AsksReuse(h, c.cycle.request_kind)))
      BY <1>4
    <2>3. a = -1 => s.cycle.request_kind = None /\ (e.st.keep_alive \/ e.eof)
      BY <1>1, <2>1, <2>2 DEF SharedPhase
    <2>4. Begun(s, a) /\ a = 0 =>
             /\ s.cycle.request_kind = e.cycle.request_kind
             /\ s.st.keep_alive /\ s.st.server # "SwitchedProtocol" => e.st.keep_alive \/ e.eof
      BY <1>1, <2>1, <2>2 DEF SharedPhase
    <2>5. e.st.keep_alive => a = -1 \/ Persists(s)
      BY <2>1, <2>2
    <2> QED BY <1>1, <1>2, <2>2, <2>3, <2>4, <2>5 DEF SharedPhase
  <1> QED BY <1>3, <1>4

(* The client reads an informational response or a switch.                  *)
LEMMA ClientReadsInformation ==
    ASSUME NEW c, NEW s, NEW wc, NEW ws, NEW pc, NEW ps, NEW hc, NEW hs, NEW xc, NEW xs, NEW a,
           Accord(c, s, wc, ws, pc, ps, hc, hs, xc, xs, a), NEW d, NEW rk, NEW h,
           TakesNext(c, s, ws, ps, xs, a, d, rk, h), is_informational(h.status),
           NEW b, b = Consumed(c, 1), NEW p, p = accept_informational(b, h), NEW e, e = p.c,
           p.kind = "InformationalResponse" /\ e.cycle.writer = c.cycle.writer => EndOK(e, "client"), Skip(ps, 1) \in Seq(Items)
    PROVE  p.kind = "InformationalResponse" /\ Accord(e, s, wc, ws, pc, Skip(ps, 1), hc, hs, xc, xs, a)
  <1>0. /\ c \in Connections(Wires) /\ c.role = "client" /\ Sound(c) /\ ws \in Seq(Wires) /\ ps \in Seq(Items)
        /\ c.input # <<>> /\ c.st.server = "SendResponse" /\ Begun(s, a) /\ h \in MessageHeads
    BY DEF Accord, EndOK, LineOK, TakesNext
  <1>1. /\ b \in Connections(Wires) /\ Coherent(b) /\ b.st = c.st /\ b.cycle = c.cycle /\ Fixtures(c, b)
        /\ b.input = Skip(c.input, 1)
    BY <1>0, TakeOne
  <1>2. ResponseFraming(h) # FramingError /\ Switching(c, s, d, d.read + 1, h)
    BY DEF TakesNext, GoodResponse
  <1>3. h.status = 101 => ~c.cycle.continue_before_upgrade
    <2> SUFFICES ASSUME h.status = 101, c.cycle.continue_before_upgrade PROVE FALSE
      OBVIOUS
    <2>1. PICK j \in HeadsOf(d) : j < d.read + 1
      BY <1>2 DEF Switching
    <2>2. d \in Flows /\ d.read \in Nat
      BY StreamOrder DEF TakesNext
    <2>3. j \in Nat /\ d.read + 1 <= j
      BY <2>2, HeadsTyped
    <2> QED BY <2>1, <2>2, <2>3
  <1>4. HasInformationalEvent(b, h)
    BY <1>1, <1>2, <1>3 DEF HasInformationalEvent, Switching, valid_upgrade_response
  <1>5. p.kind = "InformationalResponse" /\ InformationRead(b, h, e)
    <2>1. b.role = "client" /\ b.st.server = "SendResponse"
      BY <1>0, <1>1 DEF Fixtures
    <2> QED BY <1>0, <1>1, <1>2, <1>4, <2>1, AcceptInformationalValue
  <1>6. /\ Fixtures(c, e) /\ e.input = Skip(c.input, 1) /\ e.cycle.request_kind = c.cycle.request_kind
        /\ ClientSettles(c.st.client, e.st.client) /\ e.st.keep_alive = c.st.keep_alive
        /\ e.cycle.waiting_for_continue => c.cycle.waiting_for_continue
        /\ h.status # 101 => Continues(c, h.status, e)
        /\ h.status = 101 => e.st.server = "SwitchedProtocol"
    BY <1>1, <1>5 DEF InformationRead, Fixtures, Continues
  <1>7. EndOK(e, "client") /\ e \in Connections(Wires) /\ e.role = "client" /\ e.eof = c.eof
    BY <1>5, <1>6 DEF Fixtures, EndOK
  <1>8. PICK q \in Seq(Items) : q = Skip(ps, 1)
    OBVIOUS
  <1>9. SharedPhase(e, s, a) /\ e.st.server \in {"SendResponse", "SendBody", "SwitchedProtocol"}
    <2>1. SharedPhase(c, s, a) /\ ServerPhase(s)
      BY DEF Accord, Phase
    <2>2. Asked(e)
      BY <1>0, <1>6, <2>1 DEF SharedPhase, Asked
    <2>3. h.status = 101 => s.st.server = "SwitchedProtocol"
      BY <1>2 DEF Switching
    <2>4. h.status # 101 => e.st = c.st
      BY <1>6 DEF Continues
    <2>5. e.st.server \in {"SendResponse", "SwitchedProtocol"} /\ (e.st.server = "SwitchedProtocol" => s.st.server = "SwitchedProtocol")
      BY <1>0, <1>6, <2>3, <2>4
    <2> QED BY <1>0, <1>6, <1>7, <2>1, <2>2, <2>5 DEF SharedPhase
  <1>10. Down(e, s, ws, q, xs, a)
    <2>1. CASE h.status = 101
      BY <1>6, <2>1 DEF Down, Follow
    <2>2. CASE h.status # 101
      BY <1>0, <1>6, <1>7, <1>8, <2>2, InformationDown
    <2> QED BY <2>1, <2>2
  <1>11. Accord(e, s, wc, ws, pc, q, hc, hs, xc, xs, a)
    BY <1>0, <1>6, <1>7, <1>9, <1>10, ClientTakesHead
  <1> QED BY <1>5, <1>8, <1>11

(* The client reads a final response or the opening of a tunnel.            *)
LEMMA ClientReadsFinal ==
    ASSUME NEW c, NEW s, NEW wc, NEW ws, NEW pc, NEW ps, NEW hc, NEW hs, NEW xc, NEW xs, NEW a,
           Accord(c, s, wc, ws, pc, ps, hc, hs, xc, xs, a), NEW d, NEW rk, NEW h,
           TakesNext(c, s, ws, ps, xs, a, d, rk, h), ~is_informational(h.status),
           NEW b, b = Consumed(c, 1), NEW p, p = accept_final(b, h), NEW e, e = p.c,
           p.kind = "Response" /\ e.cycle.writer = c.cycle.writer => EndOK(e, "client"), Skip(ps, 1) \in Seq(Items)
    PROVE  p.kind = "Response" /\ Accord(e, s, wc, ws, pc, Skip(ps, 1), hc, hs, xc, xs, a)
  <1>0. /\ c \in Connections(Wires) /\ c.role = "client" /\ Sound(c) /\ ws \in Seq(Wires) /\ ps \in Seq(Items)
        /\ c.input # <<>> /\ c.st.server = "SendResponse" /\ Begun(s, a) /\ h \in MessageHeads
        /\ rk = c.cycle.request_kind
    BY DEF Accord, EndOK, LineOK, TakesNext
  <1>1. /\ b \in Connections(Wires) /\ Coherent(b) /\ b.st = c.st /\ b.cycle = c.cycle /\ Fixtures(c, b)
        /\ b.input = Skip(c.input, 1)
    BY <1>0, TakeOne
  <1>2. Answered(c, s, a, h)
    BY DEF TakesNext, GoodResponse
  <1>3. PICK g : g = FinalFraming(c, h)
    OBVIOUS
  <1>4. g # FramingError /\ g = FinalFraming(b, h)
    BY <1>1, <1>2, <1>3 DEF Answered, FinalFraming, response_has_no_body, opens_tunnel
  <1>5. p.kind = "Response" /\ FinalRead(b, h, g, e)
    <2>1. b.role = "client" /\ b.st.server = "SendResponse"
      BY <1>0, <1>1 DEF Fixtures
    <2> QED BY <1>0, <1>1, <1>4, <2>1, AcceptFinalValue
  <1>6. /\ Fixtures(c, e) /\ e.input = Skip(c.input, 1) /\ e.cycle.request_kind = c.cycle.request_kind
        /\ ClientSettles(c.st.client, e.st.client) /\ ~e.cycle.waiting_for_continue
        /\ opens_tunnel(c, h.status) => e.st.server = "SwitchedProtocol"
        /\ ~opens_tunnel(c, h.status) =>
              /\ e.st.server = "SendBody" /\ e.cycle.reader = StartReader(g)
              /\ e.st.keep_alive <=> (c.st.keep_alive /\ AsksReuse(h, c.cycle.request_kind))
    BY <1>1, <1>5 DEF FinalRead, Fixtures, opens_tunnel
  <1>7. EndOK(e, "client") /\ e \in Connections(Wires) /\ e.role = "client" /\ e.eof = c.eof
    BY <1>5, <1>6 DEF Fixtures, EndOK
  <1>8. PICK q \in Seq(Items) : q = Skip(ps, 1)
    OBVIOUS
  <1>9. SharedPhase(e, s, a) /\ e.st.server \in {"SendResponse", "SendBody", "SwitchedProtocol"}
    BY <1>0, <1>2, <1>6, <1>7, FinalPhase DEF Accord
  <1>10. Down(e, s, ws, q, xs, a)
    <2>1. CASE opens_tunnel(c, h.status)
      BY <1>6, <2>1 DEF Down, Follow
    <2>2. CASE ~opens_tunnel(c, h.status)
      BY <1>0, <1>3, <1>6, <1>7, <1>8, <2>2, FinalDown
    <2> QED BY <2>1, <2>2
  <1>11. Accord(e, s, wc, ws, pc, q, hc, hs, xc, xs, a)
    BY <1>0, <1>6, <1>7, <1>9, <1>10, ClientTakesHead
  <1> QED BY <1>5, <1>8, <1>11

(* A poll of the client that takes a head.                                  *)
LEMMA ClientAtHead ==
    ASSUME NEW c, NEW s, NEW wc, NEW ws, NEW pc, NEW ps, NEW hc, NEW hs, NEW xc, NEW xs, NEW a,
           Accord(c, s, wc, ws, pc, ps, hc, hs, xc, xs, a), NEW d, NEW rk, NEW h,
           TakesNext(c, s, ws, ps, xs, a, d, rk, h),
           NEW due, NEW p, p = next_event(c, due), NEW i, Concludes(c, i, p), i = AcceptHead(Consumed(c, 1), h),
           NEW e, e = p.c
    PROVE  Accord(e, s, wc, ws, pc, Heard(c, p, ps), hc, hs, xc, xs, a) /\ Faithful(c, p, ps, xs)
  <1>0. /\ EndOK(c, "client") /\ c.role = "client" /\ c \in Connections(Wires) /\ Sound(c) /\ ps \in Seq(Items)
        /\ c.input # <<>> /\ c.input \in Seq(Wires) /\ h \in MessageHeads
    BY DEF Accord, EndOK, LineOK, TakesNext, Connections
  <1>1. PICK b : b = Consumed(c, 1)
    OBVIOUS
  <1>2. b.role = "client" /\ b.st = c.st
    BY <1>0, <1>1, TakeOne DEF Fixtures
  <1>3. local_state(b) # "Idle"
    <2>1. Asked(c) /\ ClientPhase(c)
      BY DEF Accord, Phase, SharedPhase, TakesNext
    <2> QED BY <1>2, <2>1 DEF ClientPhase, local_state, state
  <1>4. i = IF is_informational(h.status) THEN accept_informational(b, h) ELSE accept_final(b, h)
    BY <1>1, <1>2, <1>3 DEF AcceptHead, accept_response
  <1>5. c.input[1].tok = "head" /\ c.input[1].h = h /\ Prefix(ps, 1) = <<HeadItem(h)>>
    BY DEF TakesNext, HeadNext, NextHead
  <1>x. PICK x \in Items : x = HeadItem(h)
    BY <1>0, ItemKinds
  <1>s. PICK n \in Nat : n = 1
    OBVIOUS
  <1>6. Skip(ps, 1) \in Seq(Items)
    <2>1. ps \in Seq(Items)
      BY <1>0
    <2>2. Len(Prefix(ps, n)) <= Len(ps) /\ Len(ps) \in Nat
      BY <2>1, PrefixIsInitial, LenProperties
    <2>3. Prefix(ps, n) = <<x>>
      BY <1>5, <1>x, <1>s
    <2>4. n \in 0..Len(ps)
      BY <1>s, <2>2, <2>3
    <2>5. Skip(ps, n) \in Seq(Items)
      BY <2>1, <2>4, SkipLeavesRest
    <2> QED BY <1>s, <2>5
  <1>7. e.cycle.writer = c.cycle.writer => EndOK(e, "client")
    BY <1>0, PollEnd
  <1>8. PICK f : f = i.c
    OBVIOUS
  <1>9. i.kind \in {"InformationalResponse", "Response"} =>
           p = i /\ f = e /\ (f.cycle.writer = c.cycle.writer => EndOK(f, "client"))
    BY <1>7, <1>8 DEF Concludes
  <1>10. i.kind \in {"InformationalResponse", "Response"} /\ Accord(f, s, wc, ws, pc, Skip(ps, 1), hc, hs, xc, xs, a)
    <2>1. CASE is_informational(h.status)
      <3>1. i = accept_informational(b, h)
        BY <1>4, <2>1
      <3> QED BY <1>1, <1>6, <1>8, <1>9, <2>1, <3>1, ClientReadsInformation
    <2>2. CASE ~is_informational(h.status)
      <3>1. i = accept_final(b, h)
        BY <1>4, <2>2
      <3> QED BY <1>1, <1>6, <1>8, <1>9, <2>2, <3>1, ClientReadsFinal
    <2> QED BY <2>1, <2>2
  <1>11. \E m \in Nat : m = 1 /\ HearsTo(c, p, ps, m, xs)
    <2>1. p.kind \in {"Request", "InformationalResponse", "Response"}
      BY <1>9, <1>10
    <2>2. x = HeadItem(c.input[1].h) /\ Prefix(ps, 1) = <<x>>
      BY <1>5, <1>x
    <2> QED BY <1>0, <1>5, <2>1, <2>2, HeadHeard
  <1> QED BY <1>9, <1>10, <1>11 DEF HearsTo

(* A poll of the client before a head tells what the server sent, and keeps *)
(* the invariant.                                                           *)
LEMMA ClientReadsHead ==
    ASSUME NEW c, NEW s, NEW wc, NEW ws, NEW pc, NEW ps, NEW hc, NEW hs, NEW xc, NEW xs, NEW a,
           Accord(c, s, wc, ws, pc, ps, hc, hs, xc, xs, a), c.st.server \in {"Idle", "SendResponse"},
           NEW due, NEW p, p = next_event(c, due), NEW e, e = p.c
    PROVE  Accord(e, s, wc, ws, pc, Heard(c, p, ps), hc, hs, xc, xs, a) /\ Faithful(c, p, ps, xs)
  <1>0. /\ EndOK(c, "client") /\ c.role = "client" /\ c \in Connections(Wires) /\ Sound(c)
        /\ ws \in Seq(Wires) /\ ps \in Seq(Items) /\ peer_state(c) = c.st.server
    BY DEF Accord, EndOK, LineOK, peer_state, state, peer
  <1>q. ps \in Seq(Items)
    BY <1>0
  <1>r. PICK rk : rk = c.cycle.request_kind
    OBVIOUS
  <1>1. PICK d : Stream(d, rk, s, c, ws, ps, xs) /\ DownMarks(c, s, d, a)
    BY <1>r DEF Accord, Down, Follow
  <1>2. /\ AtHead(c)
        /\ c.input # <<>> => /\ c.st.server = "SendResponse" /\ HeadNext(d, rk, c, ps) /\ Begun(s, a)
                             /\ GoodResponse(c, s, d, a, d.read + 1, NextHead(d))
    BY <1>0, <1>1, ClientHeadAt
  <1>3. PICK i : i = next_event_inner(c, due)
    OBVIOUS
  <1>4. Concludes(c, i, p)
    BY <1>0, <1>3, NextEventConcludes
  <1>5. HeadReceipt(c, i)
    BY <1>0, <1>2, <1>3, HeadPollReceipt
  <1>6. CASE i.kind = "NeedData" /\ i.c = c /\ ~c.eof
    <2>1. p = i /\ p.kind = "NeedData"
      BY <1>4, <1>6 DEF Concludes
    <2>2. Heard(c, p, ps) = ps /\ Faithful(c, p, ps, xs)
      BY <1>q, <2>1, NothingHeard DEF MessageEvents
    <2> QED BY <1>6, <2>1, <2>2
  <1>7. CASE i.kind = "Err" /\ i.c = c /\ c.eof /\ c.input = <<>> /\ peer_state(c) = "SendResponse"
    <2>1. Accord(e, s, wc, ws, pc, ps, hc, hs, xc, xs, a) /\ p.kind = "Err"
      BY <1>0, <1>4, <1>7, ClientHeadFails
    <2>2. Heard(c, p, ps) = ps /\ Faithful(c, p, ps, xs)
      BY <1>q, <2>1, NothingHeard DEF MessageEvents
    <2> QED BY <2>1, <2>2
  <1>8. CASE i = peer_closed(c) /\ peer_state(c) = "Idle"
    <2>1. RestPoll(c, i)
      BY <1>0, <1>8, ClosedPoll
    <2>2. i.kind \notin {"Err", "Data"}
      <3>1. Lawful(c.st)
        BY <1>0 DEF Sound, Coherent
      <3>2. Closes(c, i)
        BY <1>0, <1>8, <3>1, PeerClosedEffect
      <3> QED BY <3>2 DEF Closes
    <2>3. RestPoll(c, p)
      BY <1>4, <2>1, <2>2 DEF Concludes
    <2>4. Accord(e, s, wc, ws, pc, ps, hc, hs, xc, xs, a)
      BY <2>3, ClientRests
    <2>5. Heard(c, p, ps) = ps /\ Faithful(c, p, ps, xs)
      BY <1>q, <2>3, NothingHeard DEF RestPoll
    <2> QED BY <2>4, <2>5
  <1>9. CASE c.input # <<>> /\ i = AcceptHead(Consumed(c, 1), c.input[1].h)
    <2>1. PICK h : h = NextHead(d)
      OBVIOUS
    <2>2. c.input[1].h = h /\ h \in MessageHeads
      BY <1>2, <1>9, <2>1 DEF HeadNext, NextHead
    <2>3. TakesNext(c, s, ws, ps, xs, a, d, rk, h)
      BY <1>1, <1>2, <1>9, <1>r, <2>1, <2>2 DEF TakesNext
    <2>4. i = AcceptHead(Consumed(c, 1), h)
      BY <1>9, <2>2
    <2> QED BY <1>4, <2>3, <2>4, ClientAtHead
  <1> QED BY <1>5, <1>6, <1>7, <1>8, <1>9 DEF HeadReceipt

(* Every poll of the client.                                                *)
LEMMA ClientPolls ==
    ASSUME NEW c, NEW s, NEW wc, NEW ws, NEW pc, NEW ps, NEW hc, NEW hs, NEW xc, NEW xs, NEW a,
           Accord(c, s, wc, ws, pc, ps, hc, hs, xc, xs, a),
           NEW due, NEW p, p = next_event(c, due), NEW e, e = p.c
    PROVE  Accord(e, s, wc, ws, pc, Heard(c, p, ps), hc, hs, xc, xs, a) /\ Faithful(c, p, ps, xs)
  <1>0. c \in Connections(Wires) /\ Sound(c) /\ ps \in Seq(Items) /\ c.st \in ConnectionStates /\ peer_state(c) = c.st.server
    BY DEF Accord, EndOK, LineOK, Connections, peer_state, state, peer
  <1>q. ps \in Seq(Items)
    BY <1>0
  <1>1. CASE c.st.server = "SendBody"
    BY <1>1, ClientReadsBody
  <1>2. CASE c.st.server \in {"Idle", "SendResponse"}
    BY <1>2, ClientReadsHead
  <1>3. CASE c.st.server \in Rests
    <2>1. RestPoll(c, p)
      BY <1>0, <1>3, RestPolls
    <2>4. Accord(e, s, wc, ws, pc, ps, hc, hs, xc, xs, a)
      BY <2>1, ClientRests
    <2>5. Heard(c, p, ps) = ps /\ Faithful(c, p, ps, xs)
      BY <1>q, <2>1, NothingHeard DEF RestPoll
    <2> QED BY <2>4, <2>5
  <1>4. c.st.server \in {"SendBody", "Idle", "SendResponse"} \cup Rests
    BY <1>0 DEF ConnectionStates, States, Rests
  <1> QED BY <1>1, <1>2, <1>3, <1>4

----------------------------------------------------------------------------
(* Polls of the server before a head.                                       *)

(* The server at a request it is about to take.                             *)
TakesRequest(c, s, w, q, broken, a, d, rk, h) ==
    /\ s.input # <<>> /\ s.st.client = "Idle" /\ s.st.server = "Idle" /\ Asked(c) /\ ~Begun(s, a) /\ a = 0
    /\ rk = None /\ Stream(d, rk, c, s, w, q, broken) /\ UpMarks(c, s, d, a)
    /\ HeadNext(d, rk, s, q) /\ h = NextHead(d) /\ h \in MessageHeads /\ GoodRequest(c, h)

(* What an idle server has before it is the head of the client's request.   *)
LEMMA ServerHeadAt ==
    ASSUME NEW c, NEW s, NEW w \in Seq(Wires), NEW q \in Seq(Items), NEW broken, NEW a, NEW d, NEW rk, rk = None,
           s \in Connections(Wires), s.role = "server", s.st.client = "Idle", Phase(c, s, a),
           Stream(d, rk, c, s, w, q, broken), UpMarks(c, s, d, a)
    PROVE  /\ AtHead(s)
           /\ s.input # <<>> => TakesRequest(c, s, w, q, broken, a, d, rk, NextHead(d))
  <1>1. peer_state(s) # "SendBody"
    BY DEF peer_state, state, peer
  <1>2. ASSUME s.input # <<>>
        PROVE  TakesRequest(c, s, w, q, broken, a, d, rk, NextHead(d))
    <2>1. HeadNext(d, rk, s, q)
      BY <1>1, <1>2, HeadIsNext
    <2>3. d.read + 1 \in HeadsOf(d)
      BY <2>1 DEF HeadNext
    <2>5. GoodRequest(c, d.sym[d.read + 1].h) /\ Asked(c) /\ ~Begun(s, a)
      BY <2>3 DEF UpMarks
    <2>6. s.cycle.request_kind = None /\ s.st.server = "Idle"
      BY DEF Phase, ServerPhase
    <2>7. a = 0
      BY <2>5, <2>6 DEF Phase, SharedPhase, Begun
    <2> QED BY <1>2, <2>1, <2>5, <2>6, <2>7 DEF TakesRequest, HeadNext, NextHead
  <1>3. AtHead(s)
    <2> SUFFICES ASSUME s.input # <<>> PROVE AtHead(s)
      BY DEF AtHead
    <2> QED BY <1>2 DEF AtHead, TakesRequest, HeadNext, GoodRequest, HeadKind, NextHead
  <1> QED BY <1>2, <1>3

(* The client's stream after the request was taken.                         *)
LEMMA RequestUp ==
    ASSUME NEW c, NEW s, NEW w \in Seq(Wires), NEW q \in Seq(Items), NEW broken, NEW a, NEW d, NEW rk, NEW h,
           s \in Connections(Wires), s.role = "server", TakesRequest(c, s, w, q, broken, a, d, rk, h),
           NEW g, g = RequestFraming(h),
           NEW e \in Connections(Wires), e.role = "server", e.input = Skip(s.input, 1),
           e.st.client = "SendBody", e.cycle.reader = StartReader(g), Begun(e, a)
    PROVE  Up(c, e, w, Skip(q, 1), broken, a)
  <1>1. peer_state(s) # "SendBody" /\ peer_state(e) = "SendBody"
    BY DEF peer_state, state, peer, TakesRequest
  <1>2. g = Content(NextHead(d), rk)
    BY DEF TakesRequest, GoodRequest, Content, RequestFraming
  <1>3. g = Chunked \/ g = CloseDelimited \/ \E n \in Nat : g = Fixed(n)
    <2>1. g # FramingError /\ h \in MessageHeads
      BY DEF TakesRequest, GoodRequest, Requestable
    <2>2. PICK t \in BOOLEAN : t = FALSE
      OBVIOUS
    <2>3. g = framing(h, h.version, t)
      BY <2>2 DEF RequestFraming
    <2>4. IsFraming(framing(h, h.version, t), t)
      BY <2>1, <2>3, FramingValue
    <2> QED BY <2>3, <2>4 DEF IsFraming
  <1>4. ReadsContent(e, g)
    BY <1>1, <1>3 DEF ReadsContent
  <1>5. Stream(d, rk, c, s, w, q, broken) /\ s.input # <<>>
    BY DEF TakesRequest
  <1>6. HeadGoes(d, rk, c, e, w, q, broken)
    BY <1>1, <1>2, <1>4, <1>5, HeadStreamGoes
  <1>7. d \in Flows /\ d.read \in Nat /\ d.wrote \in Nat
    BY <1>5, StreamOrder
  <1>8. PICK d2 : /\ SameFlow(d, d2) /\ d2.read = d.read + 1
                  /\ Stream(d2, rk, c, e, w, Skip(q, 1), broken)
    BY <1>6 DEF HeadGoes
  <1>9. PICK m : m = d.read + 1
    OBVIOUS
  <1>10. HeadsOf(d2) = HeadsOf(d) \ {m}
    BY <1>7, <1>8, <1>9, TakenHeads
  <1>11. m \in HeadsOf(d)
    BY <1>9 DEF TakesRequest, HeadNext
  <1>12. HeadsOf(d2) = {}
    BY <1>10, <1>11 DEF TakesRequest, UpMarks
  <1>13. d.read # d.wrote
    BY <1>7, <1>9, <1>11 DEF HeadsOf
  <1>14. WaitsAfterHead(c, d2)
    BY <1>8, <1>13 DEF TakesRequest, UpMarks, WaitsAfterHead, SameFlow
  <1>15. UpMarks(c, e, d2, a)
    BY <1>12, <1>14 DEF UpMarks
  <1> QED BY <1>8, <1>15 DEF Up, TakesRequest

(* The server's stream once it has the request: still empty, with the same  *)
(* upgrade proposals and wait as the client.                                *)
LEMMA RequestDown ==
    ASSUME NEW c, NEW s, NEW w, NEW q, NEW broken, NEW a, NEW h, Down(c, s, w, q, broken, a), Phase(c, s, a),
           s.role = "server", s.st.server = "Idle", Asked(c), ~Begun(s, a), a = 0, GoodRequest(c, h),
           NEW e, e.role = "server", e.st.server = "SendResponse",
           e.cycle.upgrade_proposals = Upgrades(h),
           e.cycle.waiting_for_continue <=> expects_continue(h, RequestFraming(h)),
           e.cycle.continue_before_upgrade <=> (expects_continue(h, RequestFraming(h)) /\ Upgrades(h) # {})
    PROVE  Down(c, e, w, q, broken, a)
  <1> SUFFICES ASSUME c.st.server \in Follow
               PROVE  \E d : Stream(d, c.cycle.request_kind, e, c, w, q, broken) /\ DownMarks(c, e, d, a)
    BY DEF Down
  <1>r. PICK rk : rk = c.cycle.request_kind
    OBVIOUS
  <1>1. PICK d : Stream(d, rk, s, c, w, q, broken) /\ DownMarks(c, s, d, a)
    BY <1>r DEF Down
  <1>2. c.st.server = "SendResponse"
    BY DEF Follow, Phase, ClientPhase, SharedPhase
  <1>3. SameFinish(s, e)
    BY DEF SameFinish, local_state, state
  <1>4. Stream(d, rk, e, c, w, q, broken)
    BY <1>1, <1>3, StreamWriter
  <1>5. d.read = d.wrote /\ d.read \in Nat
    BY <1>1, StreamOrder DEF DownMarks
  <1>6. HeadsOf(d) = {}
    BY <1>5 DEF HeadsOf
  <1>7. Proposals(c, e, d, a)
    BY DEF Proposals, GoodRequest
  <1>8. WaitsKnown(c, e, d, a)
    BY DEF WaitsKnown, GoodRequest
  <1>9. DownMarks(c, e, d, a)
    BY <1>2, <1>5, <1>6, <1>7, <1>8 DEF DownMarks
  <1> QED BY <1>4, <1>9, <1>r

(* The server reads the request.                                            *)
LEMMA ServerReadsRequest ==
    ASSUME NEW c, NEW s, NEW wc, NEW ws, NEW pc, NEW ps, NEW hc, NEW hs, NEW xc, NEW xs, NEW a,
           Accord(c, s, wc, ws, pc, ps, hc, hs, xc, xs, a), NEW d, NEW rk, NEW h,
           TakesRequest(c, s, wc, pc, xc, a, d, rk, h),
           NEW b, b = Consumed(s, 1), NEW p, p = accept_request(b, h), NEW e, e = p.c,
           p.kind = "Request" /\ e.cycle.writer = s.cycle.writer => EndOK(e, "server"), Skip(pc, 1) \in Seq(Items)
    PROVE  p.kind = "Request" /\ Accord(c, e, wc, ws, Skip(pc, 1), ps, hc, hs, xc, xs, a)
  <1>0. /\ s \in Connections(Wires) /\ s.role = "server" /\ Sound(s) /\ wc \in Seq(Wires) /\ pc \in Seq(Items)
        /\ s.input # <<>> /\ s.st.client = "Idle" /\ s.st.server = "Idle" /\ h \in MessageHeads
        /\ Asked(c) /\ ~Begun(s, a) /\ a = 0 /\ GoodRequest(c, h)
    BY DEF Accord, EndOK, LineOK, TakesRequest
  <1>1. /\ b \in Connections(Wires) /\ Coherent(b) /\ b.st = s.st /\ b.cycle = s.cycle /\ Fixtures(s, b)
        /\ b.input = Skip(s.input, 1)
    BY <1>0, TakeOne
  <1>2. PICK g : g = RequestFraming(h)
    OBVIOUS
  <1>3. Requestable(h, g)
    BY <1>0, <1>2 DEF GoodRequest
  <1>4. p.kind = "Request" /\ RequestRead(b, h, g, e)
    <2>1. b.role = "server" /\ b.st.client = "Idle" /\ b.st.server = "Idle"
      BY <1>0, <1>1 DEF Fixtures
    <2> QED BY <1>0, <1>1, <1>2, <1>3, <2>1, AcceptRequestValue
  <1>5. /\ Fixtures(s, e) /\ e.input = Skip(s.input, 1)
        /\ e.st.client = "SendBody" /\ e.st.server = "SendResponse"
        /\ e.st.keep_alive => persistent(h)
        /\ e.cycle.reader = StartReader(g)
        /\ e.cycle.request_kind = RequestKind(h.method)
        /\ e.cycle.upgrade_proposals = Upgrades(h)
        /\ e.cycle.waiting_for_continue <=> expects_continue(h, RequestFraming(h))
        /\ e.cycle.continue_before_upgrade <=> (expects_continue(h, RequestFraming(h)) /\ Upgrades(h) # {})
    BY <1>1, <1>2, <1>4 DEF RequestRead, Fixtures
  <1>6. EndOK(e, "server") /\ e \in Connections(Wires) /\ e.role = "server" /\ e.eof = s.eof
    BY <1>4, <1>5 DEF Fixtures, EndOK
  <1>7. PICK q \in Seq(Items) : q = Skip(pc, 1)
    OBVIOUS
  <1>8. e.cycle.request_kind = c.cycle.request_kind /\ Begun(e, a) /\ (e.st.keep_alive => c.st.keep_alive \/ c.eof)
    BY <1>0, <1>5 DEF GoodRequest, Asked, Begun
  <1>9. Up(c, e, wc, q, xc, a)
    BY <1>0, <1>2, <1>5, <1>6, <1>7, <1>8, RequestUp
  <1>10. Down(c, e, ws, ps, xs, a)
    BY <1>0, <1>5, <1>6, RequestDown DEF Accord
  <1>11. ~hs
    BY <1>0 DEF Accord, LineOK, local_state, state
  <1>12. LineOK(c, e, wc, q, hc, xc) /\ LineOK(e, c, ws, ps, hs, xs)
    BY <1>6, <1>11 DEF Accord, LineOK
  <1>13. ServerFault(e, xc) /\ ClientFault(c, e, ps, hs, xs, a)
    BY <1>5, <1>11 DEF Accord, ServerFault, ClientFault
  <1>14. Phase(c, e, a)
    <2>1. ClientPhase(c) /\ SharedPhase(c, s, a)
      BY DEF Accord, Phase
    <2>2. ServerPhase(e)
      BY <1>0, <1>5, <1>8 DEF ServerPhase, Asked
    <2>3. SharedPhase(c, e, a)
      BY <1>0, <1>8, <2>1 DEF SharedPhase
    <2> QED BY <2>1, <2>2, <2>3 DEF Phase
  <1>15. Accord(c, e, wc, ws, q, ps, hc, hs, xc, xs, a)
    BY <1>6, <1>9, <1>10, <1>12, <1>13, <1>14 DEF Accord
  <1> QED BY <1>4, <1>7, <1>15

(* A poll of the server that takes a head.                                  *)
LEMMA ServerAtHead ==
    ASSUME NEW c, NEW s, NEW wc, NEW ws, NEW pc, NEW ps, NEW hc, NEW hs, NEW xc, NEW xs, NEW a,
           Accord(c, s, wc, ws, pc, ps, hc, hs, xc, xs, a), NEW d, NEW rk, NEW h,
           TakesRequest(c, s, wc, pc, xc, a, d, rk, h),
           NEW due, NEW p, p = next_event(s, due), NEW i, Concludes(s, i, p), i = AcceptHead(Consumed(s, 1), h),
           NEW e, e = p.c
    PROVE  Accord(c, e, wc, ws, Heard(s, p, pc), ps, hc, hs, xc, xs, a) /\ Faithful(s, p, pc, xc)
  <1>0. /\ EndOK(s, "server") /\ s.role = "server" /\ s \in Connections(Wires) /\ Sound(s) /\ pc \in Seq(Items)
        /\ s.input # <<>> /\ s.input \in Seq(Wires) /\ h \in MessageHeads
    BY DEF Accord, EndOK, LineOK, TakesRequest, Connections
  <1>1. PICK b : b = Consumed(s, 1)
    OBVIOUS
  <1>2. b.role = "server" /\ b.st = s.st
    BY <1>0, <1>1, TakeOne DEF Fixtures
  <1>4. i = accept_request(b, h)
    BY <1>1, <1>2 DEF AcceptHead
  <1>5. s.input[1].tok = "head" /\ s.input[1].h = h /\ Prefix(pc, 1) = <<HeadItem(h)>>
    BY DEF TakesRequest, HeadNext, NextHead
  <1>x. PICK x \in Items : x = HeadItem(h)
    BY <1>0, ItemKinds
  <1>s. PICK n \in Nat : n = 1
    OBVIOUS
  <1>6. Skip(pc, 1) \in Seq(Items)
    <2>1. pc \in Seq(Items)
      BY <1>0
    <2>2. Len(Prefix(pc, n)) <= Len(pc) /\ Len(pc) \in Nat
      BY <2>1, PrefixIsInitial, LenProperties
    <2>3. Prefix(pc, n) = <<x>>
      BY <1>5, <1>x, <1>s
    <2>4. n \in 0..Len(pc)
      BY <1>s, <2>2, <2>3
    <2>5. Skip(pc, n) \in Seq(Items)
      BY <2>1, <2>4, SkipLeavesRest
    <2> QED BY <1>s, <2>5
  <1>7. e.cycle.writer = s.cycle.writer => EndOK(e, "server")
    BY <1>0, PollEnd
  <1>8. PICK f : f = i.c
    OBVIOUS
  <1>9. i.kind = "Request" => p = i /\ f = e /\ (f.cycle.writer = s.cycle.writer => EndOK(f, "server"))
    BY <1>7, <1>8 DEF Concludes
  <1>10. i.kind = "Request" /\ Accord(c, f, wc, ws, Skip(pc, 1), ps, hc, hs, xc, xs, a)
    BY <1>1, <1>4, <1>6, <1>8, <1>9, ServerReadsRequest
  <1>11. \E m \in Nat : m = 1 /\ HearsTo(s, p, pc, m, xc)
    <2>1. p.kind \in {"Request", "InformationalResponse", "Response"}
      BY <1>9, <1>10
    <2>2. x = HeadItem(s.input[1].h) /\ Prefix(pc, 1) = <<x>>
      BY <1>5, <1>x
    <2> QED BY <1>0, <1>5, <2>1, <2>2, HeadHeard
  <1> QED BY <1>9, <1>10, <1>11 DEF HearsTo

(* A poll of the server before a head tells what the client sent, and keeps *)
(* the invariant.                                                           *)
LEMMA ServerReadsHead ==
    ASSUME NEW c, NEW s, NEW wc, NEW ws, NEW pc, NEW ps, NEW hc, NEW hs, NEW xc, NEW xs, NEW a,
           Accord(c, s, wc, ws, pc, ps, hc, hs, xc, xs, a), s.st.client = "Idle",
           NEW due, NEW p, p = next_event(s, due), NEW e, e = p.c
    PROVE  Accord(c, e, wc, ws, Heard(s, p, pc), ps, hc, hs, xc, xs, a) /\ Faithful(s, p, pc, xc)
  <1>0. /\ EndOK(s, "server") /\ s.role = "server" /\ s \in Connections(Wires) /\ Sound(s) /\ Phase(c, s, a)
        /\ wc \in Seq(Wires) /\ pc \in Seq(Items) /\ peer_state(s) = "Idle"
    BY DEF Accord, EndOK, LineOK, peer_state, state, peer
  <1>q. pc \in Seq(Items)
    BY <1>0
  <1>r. PICK rk : rk = None
    OBVIOUS
  <1>1. PICK d : Stream(d, rk, c, s, wc, pc, xc) /\ UpMarks(c, s, d, a)
    BY <1>r DEF Accord, Up
  <1>2. /\ AtHead(s)
        /\ s.input # <<>> => TakesRequest(c, s, wc, pc, xc, a, d, rk, NextHead(d))
    BY <1>0, <1>1, <1>r, ServerHeadAt
  <1>3. PICK i : i = next_event_inner(s, due)
    OBVIOUS
  <1>4. Concludes(s, i, p)
    BY <1>0, <1>3, NextEventConcludes
  <1>5. HeadReceipt(s, i)
    BY <1>0, <1>2, <1>3, HeadPollReceipt
  <1>6. CASE i.kind = "NeedData" /\ i.c = s /\ ~s.eof
    <2>1. p = i /\ p.kind = "NeedData"
      BY <1>4, <1>6 DEF Concludes
    <2>2. Heard(s, p, pc) = pc /\ Faithful(s, p, pc, xc)
      BY <1>q, <2>1, NothingHeard DEF MessageEvents
    <2> QED BY <1>6, <2>1, <2>2
  <1>8. CASE i = peer_closed(s) /\ peer_state(s) = "Idle"
    <2>1. RestPoll(s, i)
      BY <1>0, <1>8, ClosedPoll
    <2>2. i.kind \notin {"Err", "Data"}
      <3>1. Lawful(s.st)
        BY <1>0 DEF Sound, Coherent
      <3>2. Closes(s, i)
        BY <1>0, <1>8, <3>1, PeerClosedEffect
      <3> QED BY <3>2 DEF Closes
    <2>3. RestPoll(s, p)
      BY <1>4, <2>1, <2>2 DEF Concludes
    <2>4. Accord(c, e, wc, ws, pc, ps, hc, hs, xc, xs, a)
      BY <2>3, ServerRests
    <2>5. Heard(s, p, pc) = pc /\ Faithful(s, p, pc, xc)
      BY <1>q, <2>3, NothingHeard DEF RestPoll
    <2> QED BY <2>4, <2>5
  <1>9. CASE s.input # <<>> /\ i = AcceptHead(Consumed(s, 1), s.input[1].h)
    <2>1. PICK h : h = NextHead(d)
      OBVIOUS
    <2>2. TakesRequest(c, s, wc, pc, xc, a, d, rk, h)
      BY <1>2, <1>9, <2>1
    <2>3. s.input[1].h = h
      BY <2>2 DEF TakesRequest, HeadNext, NextHead
    <2>4. i = AcceptHead(Consumed(s, 1), h)
      BY <1>9, <2>3
    <2> QED BY <1>4, <2>2, <2>4, ServerAtHead
  <1> QED BY <1>0, <1>5, <1>6, <1>8, <1>9 DEF HeadReceipt

(* Every poll of the server.                                                *)
LEMMA ServerPolls ==
    ASSUME NEW c, NEW s, NEW wc, NEW ws, NEW pc, NEW ps, NEW hc, NEW hs, NEW xc, NEW xs, NEW a,
           Accord(c, s, wc, ws, pc, ps, hc, hs, xc, xs, a),
           NEW due, NEW p, p = next_event(s, due), NEW e, e = p.c
    PROVE  Accord(c, e, wc, ws, Heard(s, p, pc), ps, hc, hs, xc, xs, a) /\ Faithful(s, p, pc, xc)
  <1>0. s \in Connections(Wires) /\ Sound(s) /\ pc \in Seq(Items) /\ s.st \in ConnectionStates /\ peer_state(s) = s.st.client
    BY DEF Accord, EndOK, LineOK, Connections, peer_state, state, peer
  <1>q. pc \in Seq(Items)
    BY <1>0
  <1>1. CASE s.st.client = "SendBody"
    BY <1>1, ServerReadsBody
  <1>2. CASE s.st.client = "Idle"
    BY <1>2, ServerReadsHead
  <1>3. CASE s.st.client \in Rests
    <2>1. RestPoll(s, p)
      BY <1>0, <1>3, RestPolls
    <2>4. Accord(c, e, wc, ws, pc, ps, hc, hs, xc, xs, a)
      BY <2>1, ServerRests
    <2>5. Heard(s, p, pc) = pc /\ Faithful(s, p, pc, xc)
      BY <1>q, <2>1, NothingHeard DEF RestPoll
    <2> QED BY <2>4, <2>5
  <1>4. s.st.client \in {"SendBody", "Idle"} \cup Rests
    <2>1. Lawful(s.st)
      BY <1>0 DEF Sound, Coherent
    <2> QED BY <1>0, <2>1 DEF Lawful, Joint, ConnectionStates, States, Rests
  <1> QED BY <1>1, <1>2, <1>3, <1>4

----------------------------------------------------------------------------
(* Sending content.                                                         *)

(* What a call that sends content leaves of an end.                         *)
SendsBody(c, e, g) ==
    /\ OnlyLocal(c, e) /\ SameExchange(c, e) /\ Headless(g)
    /\ ~e.cycle.waiting_for_continue /\ e.st.keep_alive = c.st.keep_alive
    /\ local_state(c) = "SendBody"
    /\ local_state(e) \in {"SendBody", "Done", "MightSwitchProtocol", "SwitchedProtocol", "MustClose"}
    /\ c.role = "server" => local_state(e) \in {"SendBody", "Done", "MustClose"}
    /\ Settles(peer(c.role), c.st, e.st)
    /\ Persists(c) => Persists(e)
    /\ c.cycle.writer = Fixed(0) => local_state(e) # "SendBody" /\ g = <<>>

(* A call that sends leaves an end of the exchange.                         *)
LEMMA SentEnd ==
    ASSUME NEW role, NEW c, EndOK(c, role), NEW r, SendResult(Wires, c, r), r.ok, WriterShape(r.c)
    PROVE  EndOK(r.c, role) /\ OnlyLocal(c, r.c)
  <1>1. c \in Connections(Wires) /\ Sound(c) /\ c.role = role /\ c.held = 0 /\ Moves(Wires, c, r.c)
    BY DEF EndOK, SendResult
  <1>2. Preserves(Wires, c, r.c) /\ r.c.held = c.held
    BY <1>1, MovesPreserve
  <1>3. r.c \in Connections(Wires) /\ Sound(r.c) /\ r.c.role = role /\ OnlyLocal(c, r.c)
    BY <1>1, <1>2 DEF Preserves, Moves
  <1> QED BY <1>1, <1>2, <1>3 DEF EndOK

(* An end after send_data.                                                  *)
LEMMA DataSent ==
    ASSUME NEW role, NEW c, EndOK(c, role), NEW n \in Nat \ {0}, NEW r, r = send_data(c, n), r.ok,
           NEW e, e = r.c, NEW g, g = r.wire
    PROVE  EndOK(e, role) /\ SendsBody(c, e, g)
  <1>1. c \in Connections(Wires) /\ Sound(c) /\ Coherent(c) /\ c.role = role /\ WriterShape(c)
    BY DEF EndOK, Sound
  <1>2. SendResult(Wires, c, r) /\ local_state(c) = "SendBody" /\ e.st = c.st
    BY <1>1, SendDataEffect
  <1>3. WriterShape(e)
    BY <1>1, DataWrites
  <1>4. EndOK(e, role) /\ OnlyLocal(c, e)
    BY <1>2, <1>3, SentEnd
  <1>5. Sends(Wires, c, r)
    BY <1>1, SendDataSends
  <1>6. Persists(c) => Persists(e)
    BY <1>5 DEF Sends, Persists
  <1>7. ~e.cycle.waiting_for_continue /\ SameExchange(c, e)
    BY <1>1, SendDataValue
  <1>8. c.cycle.writer # Fixed(0)
    <2>1. c.cycle.writer.kind = "Fixed" => n <= c.cycle.writer.n
      BY <1>1, SendDataValue
    <2> QED BY <2>1 DEF Fixed
  <1>9. Headless(g)
    BY DataHeadless
  <1>10. local_state(e) = "SendBody" /\ Settles(peer(c.role), c.st, e.st)
    <2>1. e.role = c.role
      BY <1>4 DEF OnlyLocal
    <2> QED BY <1>2, <2>1 DEF local_state, Settles, ClientSettles, ServerSettles
  <1> QED BY <1>2, <1>4, <1>6, <1>7, <1>8, <1>9, <1>10 DEF SendsBody

(* An end after end_of_message.                                             *)
LEMMA EndSent ==
    ASSUME NEW role, NEW c, EndOK(c, role), NEW Y, NEW trailers \in Seq(Y), Len(trailers) < MaxHead,
           NEW r, r = end_of_message(c, trailers), r.ok, NEW e, e = r.c, NEW g, g = r.wire
    PROVE  EndOK(e, role) /\ SendsBody(c, e, g)
  <1>1. c \in Connections(Wires) /\ Sound(c) /\ Coherent(c) /\ c.role = role /\ WriterShape(c) /\ Lawful(c.st)
    BY DEF EndOK, Sound, Coherent
  <1>2. /\ SendResult(Wires, c, r) /\ local_state(c) = "SendBody" /\ e.st.keep_alive = c.st.keep_alive
        /\ \A a : WordKept(c, a) => WordKept(e, a)
    BY <1>1, EndOfMessageEffect
  <1>3. WriterShape(e)
    BY <1>1, EndWrites
  <1>4. EndOK(e, role) /\ OnlyLocal(c, e)
    BY <1>2, <1>3, SentEnd
  <1>6. Persists(c) => Persists(e)
    BY <1>2 DEF Persists
  <1>7. ~e.cycle.waiting_for_continue /\ SameExchange(c, e)
    BY <1>1, EndOfMessageValue
  <1>8. c.cycle.writer = Fixed(0) => g = <<>>
    <2>1. g = IF c.cycle.writer = Chunked THEN last_chunk(trailers) ELSE <<>>
      BY <1>1, EndOfMessageValue
    <2>2. Fixed(0) # Chunked
      BY DEF Fixed, Chunked
    <2> QED BY <2>1, <2>2
  <1>9. Headless(g)
    BY EndHeadless
  <1>10. /\ local_state(e) \in {"Done", "MightSwitchProtocol", "SwitchedProtocol", "MustClose"}
         /\ c.role = "server" => local_state(e) \in {"Done", "MustClose"}
         /\ Settles(peer(c.role), c.st, e.st)
    <2>1. e.role = c.role /\ c.role \in Roles
      BY <1>1, <1>4 DEF OnlyLocal, Connections
    <2>2. LocalAccepts(c, StateEvent("EndOfMessage")) /\ e.st = process_event(c.st, c.role, StateEvent("EndOfMessage"))
      BY <1>1, EndOfMessageValue
    <2>3. Accepts(c.st, c.role, StateEvent("EndOfMessage"))
      BY <2>2 DEF LocalAccepts
    <2>4. /\ state(e.st, c.role) \in {"Done", "MightSwitchProtocol", "SwitchedProtocol", "MustClose"}
          /\ c.role = "server" => e.st.server \in {"Done", "MustClose"}
          /\ Settles(peer(c.role), c.st, e.st)
      BY <1>1, <2>1, <2>2, <2>3, EndEffect
    <2> QED BY <2>1, <2>4 DEF local_state, state
  <1> QED BY <1>2, <1>4, <1>6, <1>7, <1>8, <1>9, <1>10 DEF SendsBody

(* The line from an end that writes.                                        *)
LEMMA LineWrites ==
    ASSUME NEW from, NEW to, NEW w, NEW q, NEW shuts, NEW broken, LineOK(from, to, w, q, shuts, broken), ~shuts,
           NEW from2, NEW g \in Seq(Wires), NEW r \in Seq(Items)
    PROVE  LineOK(from2, to, Added(w, g, broken), Added(q, r, broken), shuts, broken)
  <1>1. w \in Seq(Wires) /\ q \in Seq(Items)
    BY DEF LineOK
  <1>2. w \o g \in Seq(Wires) /\ q \o r \in Seq(Items)
    BY <1>1, ConcatProperties
  <1> QED BY <1>1, <1>2 DEF LineOK, Added

(* The client sends content.                                                *)
LEMMA BodyUp ==
    ASSUME NEW c, NEW s, NEW w \in Seq(Wires), NEW q \in Seq(Items), NEW broken, NEW a, NEW e,
           s.input \in Seq(Wires), Up(c, s, w, q, broken, a), ClientStep(c, e), ~e.cycle.waiting_for_continue,
           NEW g \in Seq(Wires), NEW r \in Seq(Items), Headless(g), NEW rk, rk = None, Writes(rk, c, e, g, r)
    PROVE  Up(e, s, Added(w, g, broken), Added(q, r, broken), broken, a)
  <1> SUFFICES ASSUME s.st.client # "Error"
               PROVE  \E d : /\ Stream(d, None, e, s, Added(w, g, broken), Added(q, r, broken), broken)
                             /\ UpMarks(e, s, d, a)
    BY DEF Up
  <1>1. PICK d : Stream(d, rk, c, s, w, q, broken) /\ UpMarks(c, s, d, a)
    BY DEF Up
  <1>2. PICK d2 : /\ Grown(d, d2, g, r)
                  /\ Stream(d2, rk, e, s, Added(w, g, broken), Added(q, r, broken), broken)
    BY <1>1, StreamWrites
  <1>3. d \in Flows
    BY <1>1, StreamOrder
  <1>4. SameHeads(d, d2)
    BY <1>2, <1>3, GrownHeads
  <1>5. WaitsAfterHead(e, d2)
    BY DEF WaitsAfterHead
  <1>6. UpMarks(e, s, d2, a)
    BY <1>1, <1>4, <1>5, ClientStepUp
  <1> QED BY <1>2, <1>6

(* The client sends content: the invariant stays.                           *)
LEMMA ClientSendsBody ==
    ASSUME NEW c, NEW s, NEW wc, NEW ws, NEW pc, NEW ps, NEW hc, NEW hs, NEW xc, NEW xs, NEW a,
           Accord(c, s, wc, ws, pc, ps, hc, hs, xc, xs, a), ~hc, NEW e, EndOK(e, "client"),
           NEW g \in Seq(Wires), NEW r \in Seq(Items), SendsBody(c, e, g), NEW rk, rk = None, Writes(rk, c, e, g, r)
    PROVE  Accord(e, s, Added(wc, g, xc), ws, Added(pc, r, xc), ps, hc, hs, xc, xs, a)
  <1>0. /\ c.role = "client" /\ e.role = "client" /\ e.input = c.input /\ e.eof = c.eof
        /\ s.input \in Seq(Wires) /\ wc \in Seq(Wires) /\ pc \in Seq(Items)
    BY DEF Accord, EndOK, SendsBody, OnlyLocal, LineOK, Connections
  <1>1. /\ c.st.client = "SendBody" /\ ServerSettles(c.st.server, e.st.server)
        /\ e.st.client \in {"SendBody", "Done", "MightSwitchProtocol", "SwitchedProtocol", "MustClose"}
    BY <1>0 DEF SendsBody, local_state, state, Settles, peer
  <1>2. ClientStep(c, e)
    BY <1>0, <1>1 DEF ClientStep, ServerPart, ServerSettles, SendsBody
  <1>3. SameStart(c, e)
    BY <1>0, <1>1 DEF SameStart, peer_state, state, peer, SendsBody, OnlyLocal, ServerSettles
  <1>4. Phase(e, s, a)
    BY <1>2, ClientStepPhase DEF Accord
  <1>5. LineOK(e, s, Added(wc, g, xc), Added(pc, r, xc), hc, xc)
    BY LineWrites DEF Accord
  <1>6. LineOK(s, e, ws, ps, hs, xs)
    BY <1>0 DEF Accord, LineOK
  <1>7. ClientFault(e, s, ps, hs, xs, a)
    BY <1>2, ClientKeepsFault DEF Accord
  <1>8. Down(e, s, ws, ps, xs, a)
    BY <1>0, <1>2, <1>3, ClientKeepsDown DEF Accord
  <1>9. Up(e, s, Added(wc, g, xc), Added(pc, r, xc), xc, a)
    <2>1. Up(c, s, wc, pc, xc, a) /\ ~e.cycle.waiting_for_continue /\ Headless(g)
      BY DEF Accord, SendsBody
    <2> QED BY <1>0, <1>2, <2>1, BodyUp
  <1> QED BY <1>4, <1>5, <1>6, <1>7, <1>8, <1>9 DEF Accord

(* The server sends content.                                                *)
LEMMA BodyDown ==
    ASSUME NEW c, NEW s, NEW w \in Seq(Wires), NEW q \in Seq(Items), NEW broken, NEW a, NEW e,
           c.input \in Seq(Wires), Down(c, s, w, q, broken, a), ServerStep(s, e),
           ~s.cycle.waiting_for_continue, NEW g \in Seq(Wires), NEW r \in Seq(Items), Headless(g),
           ~Begun(s, a) => g = <<>>, NEW rk, rk = c.cycle.request_kind, Writes(rk, s, e, g, r)
    PROVE  Down(c, e, Added(w, g, broken), Added(q, r, broken), broken, a)
  <1> SUFFICES ASSUME c.st.server \in Follow
               PROVE  \E d : /\ Stream(d, rk, e, c, Added(w, g, broken), Added(q, r, broken), broken)
                             /\ DownMarks(c, e, d, a)
    BY DEF Down
  <1>1. PICK d : Stream(d, rk, s, c, w, q, broken) /\ DownMarks(c, s, d, a)
    BY DEF Down
  <1>2. PICK d2 : /\ Grown(d, d2, g, r)
                  /\ Stream(d2, rk, e, c, Added(w, g, broken), Added(q, r, broken), broken)
    BY <1>1, StreamWrites
  <1>3. d \in Flows /\ d.wrote \in Nat
    BY <1>1, StreamOrder
  <1>4. SameHeads(d, d2)
    BY <1>2, <1>3, GrownHeads
  <1>5. ~Begun(s, a) => d2.read = d2.wrote
    <2>1. ~Begun(s, a) => d.read = d.wrote
      BY <1>1 DEF DownMarks
    <2>2. g = <<>> => d2.wrote = d.wrote
      BY <1>2, <1>3 DEF Grown
    <2> QED BY <1>2, <2>1, <2>2 DEF Grown
  <1>6. DownMarks(c, e, d2, a)
    BY <1>1, <1>4, <1>5, ServerStepDown
  <1> QED BY <1>2, <1>6

(* The server sends content: the invariant stays.                           *)
LEMMA ServerSendsBody ==
    ASSUME NEW c, NEW s, NEW wc, NEW ws, NEW pc, NEW ps, NEW hc, NEW hs, NEW xc, NEW xs, NEW a,
           Accord(c, s, wc, ws, pc, ps, hc, hs, xc, xs, a), ~hs, NEW e, EndOK(e, "server"),
           NEW g \in Seq(Wires), NEW r \in Seq(Items), SendsBody(s, e, g),
           NEW rk, rk = c.cycle.request_kind, Writes(rk, s, e, g, r)
    PROVE  Accord(c, e, wc, Added(ws, g, xs), pc, Added(ps, r, xs), hc, hs, xc, xs, a)
  <1>0. /\ s.role = "server" /\ e.role = "server" /\ e.input = s.input /\ e.eof = s.eof
        /\ c.input \in Seq(Wires) /\ ws \in Seq(Wires) /\ ps \in Seq(Items)
    BY DEF Accord, EndOK, SendsBody, OnlyLocal, LineOK, Connections
  <1>1. /\ s.st.server = "SendBody" /\ ClientSettles(s.st.client, e.st.client)
        /\ e.st.server \in {"SendBody", "Done", "MustClose"}
    BY <1>0 DEF SendsBody, local_state, state, Settles, peer
  <1>2. s.cycle.request_kind # None /\ s.st.client # "Idle"
    BY <1>1 DEF Accord, Phase, ServerPhase
  <1>3. ~s.cycle.waiting_for_continue
    BY <1>1 DEF Accord, EndOK, Sound, Coherent, WaitMatches
  <1>4. s.cycle.writer = Fixed(0) => e.st.server # "SendBody"
    BY <1>0 DEF SendsBody, local_state, state
  <1>5. ServerStep(s, e)
    <2>1. e.st.client # "Idle"
      BY <1>1, <1>2 DEF ClientSettles
    <2>2. s.st.client \in {"Idle", "MustClose", "Closed", "Error"} =>
             e.st.client \in {"Idle", "MustClose", "Closed", "Error"}
      BY <1>1 DEF ClientSettles
    <2> QED BY <1>1, <1>4, <2>1, <2>2 DEF ServerStep, ServerPart, SendsBody
  <1>6. SameStart(s, e)
    BY <1>0, <1>1 DEF SameStart, peer_state, state, peer, SendsBody, OnlyLocal, ClientSettles
  <1>7. Phase(c, e, a) /\ (Begun(e, a) <=> Begun(s, a))
    BY <1>5, ServerStepPhase DEF Accord
  <1>8. ~Begun(s, a) => g = <<>>
    BY <1>1, <1>2 DEF Accord, Phase, SharedPhase, Begun, SendsBody
  <1>9. LineOK(e, c, Added(ws, g, xs), Added(ps, r, xs), hs, xs)
    BY LineWrites DEF Accord
  <1>10. LineOK(c, e, wc, pc, hc, xc)
    BY <1>0 DEF Accord, LineOK
  <1>11. ServerFault(e, xc)
    BY <1>1 DEF Accord, ServerFault, ClientSettles
  <1>12. ClientFault(c, e, Added(ps, r, xs), hs, xs, a)
    BY DEF Accord, ClientFault
  <1>13. Up(c, e, wc, pc, xc, a)
    <2>1. s.st.client = "Error" => e.st.client = "Error"
      BY <1>1 DEF ClientSettles
    <2> QED BY <1>0, <1>6, <1>7, <2>1, ServerKeepsUp DEF Accord
  <1>14. Down(c, e, Added(ws, g, xs), Added(ps, r, xs), xs, a)
    <2>1. Down(c, s, ws, ps, xs, a) /\ Headless(g)
      BY DEF Accord, SendsBody
    <2> QED BY <1>0, <1>3, <1>5, <1>8, <2>1, BodyDown
  <1> QED BY <1>7, <1>9, <1>10, <1>11, <1>12, <1>13, <1>14 DEF Accord

----------------------------------------------------------------------------
(* Sending a request.                                                       *)

(* The head of a request goes up.                                           *)
LEMMA RequestGoesUp ==
    ASSUME NEW c, NEW s, NEW w \in Seq(Wires), NEW q \in Seq(Items), NEW broken, NEW a, NEW e, NEW h \in MessageHeads,
           s.input \in Seq(Wires), Up(c, s, w, q, broken, a), ~Asked(c), ~Begun(s, a), Asked(e), GoodRequest(e, h),
           NEW g, g = <<HeadOf(h)>>, g \in Seq(Wires), NEW r \in Seq(Items), NEW rk, rk = None, Writes(rk, c, e, g, r)
    PROVE  Up(e, s, Added(w, g, broken), Added(q, r, broken), broken, a)
  <1> SUFFICES ASSUME s.st.client # "Error"
               PROVE  \E d : /\ Stream(d, None, e, s, Added(w, g, broken), Added(q, r, broken), broken)
                             /\ UpMarks(e, s, d, a)
    BY DEF Up
  <1>1. PICK d : Stream(d, rk, c, s, w, q, broken) /\ UpMarks(c, s, d, a)
    BY DEF Up
  <1>2. PICK d2 : /\ Grown(d, d2, g, r)
                  /\ Stream(d2, rk, e, s, Added(w, g, broken), Added(q, r, broken), broken)
    BY <1>1, StreamWrites
  <1>3. d \in Flows /\ d.read <= d.wrote
    BY <1>1, StreamOrder
  <1>4. /\ d2.sym[d2.wrote] = HeadOf(h) /\ HeadOf(h).tok = "head" /\ HeadOf(h).h = h
        /\ HeadsOf(d2) = HeadsOf(d) \cup {d2.wrote}
    BY <1>2, <1>3, GrownHead
  <1>5. HeadsOf(d) = {}
    BY <1>1 DEF UpMarks
  <1>6. UpMarks(e, s, d2, a)
    BY <1>4, <1>5 DEF UpMarks, WaitsAfterHead
  <1> QED BY <1>2, <1>6

(* Nothing comes down before the request has come.                          *)
LEMMA RequestClearsDown ==
    ASSUME NEW c, NEW s, NEW w, NEW q, NEW broken, NEW a, NEW e, Down(c, s, w, q, broken, a), ~Begun(s, a),
           c.role = "client", e.role = "client", c.st.server = "Idle", e.st.server = "SendResponse", e.input = c.input
    PROVE  Down(e, s, w, q, broken, a)
  <1>1. PICK d : Stream(d, c.cycle.request_kind, s, c, w, q, broken) /\ DownMarks(c, s, d, a)
    BY DEF Down, Follow
  <1>2. d.read = d.wrote /\ HeadsOf(d) = {}
    BY <1>1 DEF DownMarks
  <1>3. PICK k : k = c.cycle.request_kind
    OBVIOUS
  <1>4. PICK k2 : k2 = e.cycle.request_kind
    OBVIOUS
  <1>5. Stream(d, k2, s, c, w, q, broken)
    BY <1>1, <1>2, <1>3, StreamAnew
  <1>6. SameStart(c, e)
    BY DEF SameStart, peer_state, state, peer
  <1>7. Stream(d, k2, s, e, w, q, broken)
    BY <1>5, <1>6, StreamReader
  <1>8. DownMarks(e, s, d, a)
    BY <1>2 DEF DownMarks, Proposals, WaitsKnown
  <1> QED BY <1>4, <1>7, <1>8 DEF Down

(* A request that may be sent is one that the server can read.              *)
Sendable(h, kind) == h \in MessageHeads /\ h.kind = kind /\ (h.valid => h.syntax = "ok")

(* The client sends the head of a request: the invariant stays.             *)
LEMMA ClientSendsRequest ==
    ASSUME NEW c, NEW s, NEW wc, NEW ws, NEW pc, NEW ps, NEW hc, NEW hs, NEW xc, NEW xs, NEW a,
           Accord(c, s, wc, ws, pc, ps, hc, hs, xc, xs, a), ~hc, NEW h, Sendable(h, "request"),
           NEW t, t = send_request(c, h), t.ok, NEW e, e = t.c, NEW g, g = t.wire,
           NEW r, r = <<HeadItem(h)>> \o EndsWith(c, e)
    PROVE  Accord(e, s, Added(wc, g, xc), ws, Added(pc, r, xc), ps, hc, hs, xc, xs, a)
  <1>0. /\ EndOK(c, "client") /\ c \in Connections(Wires) /\ Coherent(c) /\ c.role = "client"
        /\ s.input \in Seq(Wires) /\ wc \in Seq(Wires) /\ pc \in Seq(Items)
        /\ ClientPhase(c) /\ ServerPhase(s) /\ SharedPhase(c, s, a)
    BY DEF Accord, EndOK, Sound, LineOK, Connections, Phase
  <1>h. h \in MessageHeads /\ h.kind = "request" /\ (h.valid => h.syntax = "ok")
    BY DEF Sendable
  <1>k. PICK rk : rk = None
    OBVIOUS
  <1>f. PICK f : f = RequestFraming(h)
    OBVIOUS
  <1>1. /\ c.st.client = "Idle" /\ c.st.server = "Idle" /\ Requestable(h, f) /\ Requested(c, h, f, e)
        /\ g = <<HeadOf(h)>>
    BY <1>0, <1>h, <1>f, SendRequestValue
  <1>2. g \in Seq(Wires) /\ r \in Seq(Items) /\ Writes(rk, c, e, g, r) /\ WriterShape(e)
    BY <1>0, <1>h, RequestWrites
  <1>3. EndOK(e, "client") /\ OnlyLocal(c, e)
    <2>1. SendResult(Wires, c, t)
      BY <1>0, <1>h, SendRequestEffect
    <2> QED BY <1>0, <1>2, <2>1, SentEnd
  <1>4. ~Asked(c) /\ ~Begun(s, a)
    BY <1>0, <1>1 DEF ClientPhase, SharedPhase
  <1>5. Asked(e) /\ e.role = "client" /\ e.input = c.input /\ e.eof = c.eof
    BY <1>0, <1>1, <1>3 DEF Requested, RequestKind, None, Asked, OnlyLocal
  <1>6. Phase(e, s, a)
    <2>1. ClientPhase(e)
      BY <1>1, <1>5 DEF ClientPhase, Requested
    <2>2. SharedPhase(e, s, a)
      BY <1>0, <1>1, <1>4, <1>5 DEF SharedPhase, Requested, Begun
    <2> QED BY <1>0, <2>1, <2>2 DEF Phase
  <1>7. GoodRequest(e, h)
    <2>1. persistent(h) => e.st.keep_alive \/ e.eof
      BY <1>0, <1>1, <1>4, <1>5 DEF ClientPhase, Requested
    <2> QED BY <1>1, <1>h, <1>f, <2>1 DEF GoodRequest, Requested, Requestable
  <1>8. LineOK(e, s, Added(wc, g, xc), Added(pc, r, xc), hc, xc)
    BY <1>2, LineWrites DEF Accord
  <1>9. LineOK(s, e, ws, ps, hs, xs)
    BY <1>5 DEF Accord, LineOK
  <1>10. ClientFault(e, s, ps, hs, xs, a)
    BY <1>1 DEF ClientFault, Requested
  <1>11. Up(e, s, Added(wc, g, xc), Added(pc, r, xc), xc, a)
    <2>1. Up(c, s, wc, pc, xc, a)
      BY DEF Accord
    <2> QED BY <1>0, <1>1, <1>2, <1>4, <1>5, <1>7, <1>h, <1>k, <2>1, RequestGoesUp
  <1>12. Down(e, s, ws, ps, xs, a)
    <2>1. Down(c, s, ws, ps, xs, a) /\ e.st.server = "SendResponse"
      BY <1>1 DEF Accord, Requested
    <2> QED BY <1>0, <1>1, <1>4, <1>5, <2>1, RequestClearsDown
  <1> QED BY <1>3, <1>6, <1>8, <1>9, <1>10, <1>11, <1>12 DEF Accord

----------------------------------------------------------------------------
(* Sending a body in pieces, or a complete message.                         *)

(* To add twice is to add both.                                             *)
LEMMA AddedTwice ==
    ASSUME NEW X, NEW w \in Seq(X), NEW g \in Seq(X), NEW k \in Seq(X), NEW broken
    PROVE  Added(Added(w, g, broken), k, broken) = Added(w, g \o k, broken) /\ Added(w, g, broken) \in Seq(X)
  <1>1. (w \o g) \o k = w \o (g \o k) /\ w \o g \in Seq(X)
    BY ConcatAssociative, ConcatProperties
  <1> QED BY <1>1 DEF Added

(* To add nothing changes nothing.                                          *)
LEMMA AddedNothing ==
    ASSUME NEW X, NEW w \in Seq(X), NEW g, g = <<>>, NEW broken
    PROVE  Added(w, g, broken) = w
  BY EmptyJoins DEF Added

(* A piece of a body as it is sent: the end left behind, the bytes and the  *)
(* items.                                                                   *)
PieceSent(c, n, e, g, r) ==
    /\ n \in Nat \ {0} /\ send_data(c, n).ok /\ e = send_data(c, n).c /\ g = send_data(c, n).wire
    /\ r = Bytes(n) \o EndsWith(c, e)

(* The client sends a piece of a body.                                      *)
LEMMA ClientSendsData ==
    ASSUME NEW c, NEW s, NEW wc, NEW ws, NEW pc, NEW ps, NEW hc, NEW hs, NEW xc, NEW xs, NEW a,
           Accord(c, s, wc, ws, pc, ps, hc, hs, xc, xs, a), ~hc, NEW n, NEW e, NEW g, NEW r, PieceSent(c, n, e, g, r)
    PROVE  Accord(e, s, Added(wc, g, xc), ws, Added(pc, r, xc), ps, hc, hs, xc, xs, a) /\ g \in Seq(Wires) /\ r \in Seq(Items)
  <1>0. EndOK(c, "client") /\ c \in Connections(Wires) /\ Coherent(c) /\ WriterShape(c)
    BY DEF Accord, EndOK, Sound
  <1>t. PICK t : t = send_data(c, n)
    OBVIOUS
  <1>n. n \in Nat \ {0} /\ t.ok /\ e = t.c /\ g = t.wire /\ r = Bytes(n) \o EndsWith(c, e)
    BY <1>t DEF PieceSent
  <1>k. PICK rk : rk = None
    OBVIOUS
  <1>1. EndOK(e, "client") /\ SendsBody(c, e, g)
    BY <1>0, <1>t, <1>n, DataSent
  <1>2. g \in Seq(Wires) /\ r \in Seq(Items) /\ Writes(rk, c, e, g, r)
    BY <1>0, <1>t, <1>n, DataWrites
  <1> QED BY <1>1, <1>2, <1>k, ClientSendsBody

(* The end of a message as it is sent.                                      *)
EndingSent(c, trailers, e, g, r) ==
    /\ \E Y : trailers \in Seq(Y)
    /\ Len(trailers) < MaxHead /\ end_of_message(c, trailers).ok
    /\ e = end_of_message(c, trailers).c /\ g = end_of_message(c, trailers).wire /\ r = EndItems(c, e)

(* The client ends its message.                                             *)
LEMMA ClientEnds ==
    ASSUME NEW c, NEW s, NEW wc, NEW ws, NEW pc, NEW ps, NEW hc, NEW hs, NEW xc, NEW xs, NEW a,
           Accord(c, s, wc, ws, pc, ps, hc, hs, xc, xs, a), ~hc, NEW trailers, NEW e, NEW g, NEW r,
           EndingSent(c, trailers, e, g, r)
    PROVE  Accord(e, s, Added(wc, g, xc), ws, Added(pc, r, xc), ps, hc, hs, xc, xs, a) /\ g \in Seq(Wires) /\ r \in Seq(Items)
  <1>0. EndOK(c, "client") /\ c \in Connections(Wires) /\ Coherent(c) /\ WriterShape(c)
    BY DEF Accord, EndOK, Sound
  <1>t. PICK t : t = end_of_message(c, trailers)
    OBVIOUS
  <1>y. PICK Y : trailers \in Seq(Y)
    BY DEF EndingSent
  <1>n. Len(trailers) < MaxHead /\ t.ok /\ e = t.c /\ g = t.wire /\ r = EndItems(c, e)
    BY <1>t DEF EndingSent
  <1>k. PICK rk : rk = None
    OBVIOUS
  <1>1. EndOK(e, "client") /\ SendsBody(c, e, g)
    BY <1>0, <1>t, <1>y, <1>n, EndSent
  <1>2. g \in Seq(Wires) /\ r \in Seq(Items) /\ Writes(rk, c, e, g, r)
    BY <1>0, <1>t, <1>y, <1>n, EndWrites DEF EndItems
  <1> QED BY <1>1, <1>2, <1>k, ClientSendsBody

(* The same for the server.                                                 *)
LEMMA ServerSendsData ==
    ASSUME NEW c, NEW s, NEW wc, NEW ws, NEW pc, NEW ps, NEW hc, NEW hs, NEW xc, NEW xs, NEW a,
           Accord(c, s, wc, ws, pc, ps, hc, hs, xc, xs, a), ~hs, NEW n, NEW e, NEW g, NEW r, PieceSent(s, n, e, g, r)
    PROVE  Accord(c, e, wc, Added(ws, g, xs), pc, Added(ps, r, xs), hc, hs, xc, xs, a) /\ g \in Seq(Wires) /\ r \in Seq(Items)
  <1>0. EndOK(s, "server") /\ s \in Connections(Wires) /\ Coherent(s) /\ WriterShape(s)
    BY DEF Accord, EndOK, Sound
  <1>t. PICK t : t = send_data(s, n)
    OBVIOUS
  <1>n. n \in Nat \ {0} /\ t.ok /\ e = t.c /\ g = t.wire /\ r = Bytes(n) \o EndsWith(s, e)
    BY <1>t DEF PieceSent
  <1>k. PICK rk : rk = c.cycle.request_kind
    OBVIOUS
  <1>1. EndOK(e, "server") /\ SendsBody(s, e, g)
    BY <1>0, <1>t, <1>n, DataSent
  <1>2. g \in Seq(Wires) /\ r \in Seq(Items) /\ Writes(rk, s, e, g, r)
    BY <1>0, <1>t, <1>n, DataWrites
  <1> QED BY <1>1, <1>2, <1>k, ServerSendsBody

(* The server ends its message.                                             *)
LEMMA ServerEnds ==
    ASSUME NEW c, NEW s, NEW wc, NEW ws, NEW pc, NEW ps, NEW hc, NEW hs, NEW xc, NEW xs, NEW a,
           Accord(c, s, wc, ws, pc, ps, hc, hs, xc, xs, a), ~hs, NEW trailers, NEW e, NEW g, NEW r,
           EndingSent(s, trailers, e, g, r)
    PROVE  Accord(c, e, wc, Added(ws, g, xs), pc, Added(ps, r, xs), hc, hs, xc, xs, a) /\ g \in Seq(Wires) /\ r \in Seq(Items)
  <1>0. EndOK(s, "server") /\ s \in Connections(Wires) /\ Coherent(s) /\ WriterShape(s)
    BY DEF Accord, EndOK, Sound
  <1>t. PICK t : t = end_of_message(s, trailers)
    OBVIOUS
  <1>y. PICK Y : trailers \in Seq(Y)
    BY DEF EndingSent
  <1>n. Len(trailers) < MaxHead /\ t.ok /\ e = t.c /\ g = t.wire /\ r = EndItems(s, e)
    BY <1>t DEF EndingSent
  <1>k. PICK rk : rk = c.cycle.request_kind
    OBVIOUS
  <1>1. EndOK(e, "server") /\ SendsBody(s, e, g)
    BY <1>0, <1>t, <1>y, <1>n, EndSent
  <1>2. g \in Seq(Wires) /\ r \in Seq(Items) /\ Writes(rk, s, e, g, r)
    BY <1>0, <1>t, <1>y, <1>n, EndWrites DEF EndItems
  <1> QED BY <1>1, <1>2, <1>k, ServerSendsBody

(* A complete message has no trailers, which the head limit allows.         *)
LEMMA NoTrailers == <<>> \in Seq(Nat) /\ Len(<<>>) < MaxHead
  BY MaxHeadAssumption

(* The body of a complete message.                                          *)
LEMMA ClientSendsPart ==
    ASSUME NEW c, NEW s, NEW wc, NEW ws, NEW pc, NEW ps, NEW hc, NEW hs, NEW xc, NEW xs, NEW a,
           Accord(c, s, wc, ws, pc, ps, hc, hs, xc, xs, a), ~hc, NEW n \in Nat,
           NEW t, t = DataPart(c, n), t.ok, NEW e, e = t.c, NEW g, g = t.wire, NEW r, r = DataItems(c, e, n)
    PROVE  /\ Accord(e, s, Added(wc, g, xc), ws, Added(pc, r, xc), ps, hc, hs, xc, xs, a)
           /\ g \in Seq(Wires) /\ r \in Seq(Items) /\ e.st.server = c.st.server
  <1>0. EndOK(c, "client") /\ c \in Connections(Wires) /\ Coherent(c) /\ wc \in Seq(Wires) /\ pc \in Seq(Items)
    BY DEF Accord, EndOK, Sound, LineOK
  <1>1. CASE n = 0
    <2>1. t = Sent(c, <<>>) /\ r = <<>>
      BY <1>1 DEF DataPart, DataItems
    <2>2. e = c /\ g = <<>>
      BY <2>1 DEF Sent
    <2>3. Added(wc, g, xc) = wc /\ Added(pc, r, xc) = pc
      BY <1>0, <2>1, <2>2, AddedNothing
    <2>4. g \in Seq(Wires) /\ r \in Seq(Items)
      BY <2>1, <2>2, EmptySeq
    <2> QED BY <2>2, <2>3, <2>4
  <1>2. CASE n # 0
    <2>1. t = send_data(c, n) /\ r = Bytes(n) \o EndsWith(c, e)
      BY <1>2 DEF DataPart, DataItems
    <2>3. PieceSent(c, n, e, g, r)
      BY <1>2, <2>1 DEF PieceSent
    <2>2. e.st = c.st
      BY <1>0, <2>1, SendDataEffect
    <2>4. Accord(e, s, Added(wc, g, xc), ws, Added(pc, r, xc), ps, hc, hs, xc, xs, a) /\ g \in Seq(Wires) /\ r \in Seq(Items)
      BY <2>3, ClientSendsData
    <2> QED BY <2>2, <2>4
  <1> QED BY <1>1, <1>2

(* The server sends the body of a complete message, if it has one.          *)
LEMMA ServerSendsPart ==
    ASSUME NEW c, NEW s, NEW wc, NEW ws, NEW pc, NEW ps, NEW hc, NEW hs, NEW xc, NEW xs, NEW a,
           Accord(c, s, wc, ws, pc, ps, hc, hs, xc, xs, a), ~hs, NEW n \in Nat,
           NEW t, t = DataPart(s, n), t.ok, NEW e, e = t.c, NEW g, g = t.wire, NEW r, r = DataItems(s, e, n)
    PROVE  /\ Accord(c, e, wc, Added(ws, g, xs), pc, Added(ps, r, xs), hc, hs, xc, xs, a)
           /\ g \in Seq(Wires) /\ r \in Seq(Items)
  <1>0. ws \in Seq(Wires) /\ ps \in Seq(Items)
    BY DEF Accord, LineOK
  <1>1. CASE n = 0
    <2>1. t = Sent(s, <<>>) /\ r = <<>>
      BY <1>1 DEF DataPart, DataItems
    <2>2. e = s /\ g = <<>>
      BY <2>1 DEF Sent
    <2>3. Added(ws, g, xs) = ws /\ Added(ps, r, xs) = ps
      BY <1>0, <2>1, <2>2, AddedNothing
    <2>4. g \in Seq(Wires) /\ r \in Seq(Items)
      BY <2>1, <2>2, EmptySeq
    <2> QED BY <2>2, <2>3, <2>4
  <1>2. CASE n # 0
    <2>1. t = send_data(s, n) /\ r = Bytes(n) \o EndsWith(s, e)
      BY <1>2 DEF DataPart, DataItems
    <2>3. PieceSent(s, n, e, g, r)
      BY <1>2, <2>1 DEF PieceSent
    <2> QED BY <2>3, ServerSendsData
  <1> QED BY <1>1, <1>2

(* The types of what follows the head of a complete message.                *)
RestTyped(e, data, end, n) ==
    /\ data.wire \in Seq(Wires) /\ end.wire \in Seq(Wires)
    /\ DataItems(e, data.c, n) \in Seq(Items) /\ EndItems(data.c, end.c) \in Seq(Items)

(* The body and the end of a complete message as they are sent.             *)
RestGoes(c, n, data, end, e, g, r) ==
    /\ RestSent(c, n, data, end) /\ e = end.c /\ g = data.wire \o end.wire
    /\ r = DataItems(c, data.c, n) \o EndItems(data.c, e)

(* The body and the end of a complete message.                              *)
LEMMA ClientCompletes ==
    ASSUME NEW c, NEW s, NEW wc, NEW ws, NEW pc, NEW ps, NEW hc, NEW hs, NEW xc, NEW xs, NEW a,
           Accord(c, s, wc, ws, pc, ps, hc, hs, xc, xs, a), ~hc, c.st.server = "SendResponse", NEW n, NEW data, NEW end,
           NEW e, NEW g, NEW r, RestGoes(c, n, data, end, e, g, r)
    PROVE  /\ Accord(e, s, Added(wc, g, xc), ws, Added(pc, r, xc), ps, hc, hs, xc, xs, a)
           /\ g \in Seq(Wires) /\ r \in Seq(Items) /\ local_state(e) # "SwitchedProtocol"
           /\ RestTyped(c, data, end, n)
  <1>r. n \in Nat /\ data = DataPart(c, n) /\ data.ok /\ end = end_of_message(data.c, <<>>) /\ end.ok /\ e = end.c
    BY DEF RestGoes, RestSent, EndPart
  <1>e. e = end.c
    BY <1>r
  <1>g. g = data.wire \o end.wire /\ r = DataItems(c, data.c, n) \o EndItems(data.c, e)
    BY DEF RestGoes
  <1>0. wc \in Seq(Wires) /\ pc \in Seq(Items)
    BY DEF Accord, LineOK
  <1>1. PICK b, g1, r1, w1, p1 : /\ b = data.c /\ g1 = data.wire /\ r1 = DataItems(c, b, n)
                                 /\ w1 = Added(wc, g1, xc) /\ p1 = Added(pc, r1, xc)
    OBVIOUS
  <1>2. /\ Accord(b, s, w1, ws, p1, ps, hc, hs, xc, xs, a)
        /\ g1 \in Seq(Wires) /\ r1 \in Seq(Items) /\ b.st.server = "SendResponse"
    BY <1>1, <1>r, ClientSendsPart
  <1>3. PICK g2, r2 : g2 = end.wire /\ r2 = EndItems(b, e)
    OBVIOUS
  <1>4. PICK x : x = <<>>
    OBVIOUS
  <1>5. x \in Seq(Nat) /\ Len(x) < MaxHead /\ end = end_of_message(b, x) /\ end.ok
    BY <1>1, <1>4, <1>r, NoTrailers
  <1>12. EndingSent(b, x, e, g2, r2)
    BY <1>3, <1>5, <1>r DEF EndingSent
  <1>6. /\ Accord(e, s, Added(w1, g2, xc), ws, Added(p1, r2, xc), ps, hc, hs, xc, xs, a)
        /\ g2 \in Seq(Wires) /\ r2 \in Seq(Items)
    BY <1>2, <1>12, ClientEnds
  <1>7. g = g1 \o g2 /\ r = r1 \o r2
    BY <1>1, <1>3, <1>g
  <1>8. Added(w1, g2, xc) = Added(wc, g, xc) /\ Added(p1, r2, xc) = Added(pc, r, xc)
    <2>1. wc \in Seq(Wires) /\ g1 \in Seq(Wires) /\ g2 \in Seq(Wires)
      BY <1>0, <1>2, <1>6
    <2>2. pc \in Seq(Items) /\ r1 \in Seq(Items) /\ r2 \in Seq(Items)
      BY <1>0, <1>2, <1>6
    <2>3. Added(Added(wc, g1, xc), g2, xc) = Added(wc, g1 \o g2, xc)
      BY <2>1, AddedTwice
    <2>4. Added(Added(pc, r1, xc), r2, xc) = Added(pc, r1 \o r2, xc)
      BY <2>2, AddedTwice
    <2> QED BY <1>1, <1>7, <2>3, <2>4
  <1>9. g \in Seq(Wires) /\ r \in Seq(Items)
    BY <1>2, <1>6, <1>7, ConcatProperties
  <1>10. local_state(e) # "SwitchedProtocol"
    <2>1. EndOK(b, "client") /\ EndOK(e, "client")
      BY <1>2, <1>6 DEF Accord
    <2>2. SendsBody(b, e, g2)
      BY <1>3, <1>5, <1>e, <2>1, EndSent
    <2>3. e.st.server = "SendResponse" /\ e.role = "client"
      BY <1>2, <2>1, <2>2 DEF SendsBody, EndOK, Settles, peer, ServerSettles
    <2>4. Joint(e.st)
      BY <2>1 DEF EndOK, Sound, Coherent, Lawful
    <2> QED BY <2>3, <2>4 DEF Joint, local_state, state
  <1>11. RestTyped(c, data, end, n)
    BY <1>1, <1>2, <1>3, <1>6, <1>r DEF RestTyped
  <1> QED BY <1>6, <1>8, <1>9, <1>10, <1>11

(* The server sends the body and the end of a complete message.             *)
LEMMA ServerCompletes ==
    ASSUME NEW c, NEW s, NEW wc, NEW ws, NEW pc, NEW ps, NEW hc, NEW hs, NEW xc, NEW xs, NEW a,
           Accord(c, s, wc, ws, pc, ps, hc, hs, xc, xs, a), ~hs, NEW n, NEW data, NEW end,
           NEW e, NEW g, NEW r, RestGoes(s, n, data, end, e, g, r)
    PROVE  /\ Accord(c, e, wc, Added(ws, g, xs), pc, Added(ps, r, xs), hc, hs, xc, xs, a)
           /\ g \in Seq(Wires) /\ r \in Seq(Items) /\ local_state(e) # "SwitchedProtocol"
           /\ RestTyped(s, data, end, n)
  <1>r. n \in Nat /\ data = DataPart(s, n) /\ data.ok /\ end = end_of_message(data.c, <<>>) /\ end.ok /\ e = end.c
    BY DEF RestGoes, RestSent, EndPart
  <1>e. e = end.c
    BY <1>r
  <1>g. g = data.wire \o end.wire /\ r = DataItems(s, data.c, n) \o EndItems(data.c, e)
    BY DEF RestGoes
  <1>0. ws \in Seq(Wires) /\ ps \in Seq(Items)
    BY DEF Accord, LineOK
  <1>1. PICK b, g1, r1, w1, p1 : /\ b = data.c /\ g1 = data.wire /\ r1 = DataItems(s, b, n)
                                 /\ w1 = Added(ws, g1, xs) /\ p1 = Added(ps, r1, xs)
    OBVIOUS
  <1>2. Accord(c, b, wc, w1, pc, p1, hc, hs, xc, xs, a) /\ g1 \in Seq(Wires) /\ r1 \in Seq(Items)
    BY <1>1, <1>r, ServerSendsPart
  <1>3. PICK g2, r2 : g2 = end.wire /\ r2 = EndItems(b, e)
    OBVIOUS
  <1>4. PICK x : x = <<>>
    OBVIOUS
  <1>5. x \in Seq(Nat) /\ Len(x) < MaxHead /\ end = end_of_message(b, x) /\ end.ok
    BY <1>1, <1>4, <1>r, NoTrailers
  <1>12. EndingSent(b, x, e, g2, r2)
    BY <1>3, <1>5, <1>r DEF EndingSent
  <1>6. /\ Accord(c, e, wc, Added(w1, g2, xs), pc, Added(p1, r2, xs), hc, hs, xc, xs, a)
        /\ g2 \in Seq(Wires) /\ r2 \in Seq(Items)
    BY <1>2, <1>12, ServerEnds
  <1>7. g = g1 \o g2 /\ r = r1 \o r2
    BY <1>1, <1>3, <1>g
  <1>8. Added(w1, g2, xs) = Added(ws, g, xs) /\ Added(p1, r2, xs) = Added(ps, r, xs)
    <2>1. ws \in Seq(Wires) /\ g1 \in Seq(Wires) /\ g2 \in Seq(Wires)
      BY <1>0, <1>2, <1>6
    <2>2. ps \in Seq(Items) /\ r1 \in Seq(Items) /\ r2 \in Seq(Items)
      BY <1>0, <1>2, <1>6
    <2>3. Added(Added(ws, g1, xs), g2, xs) = Added(ws, g1 \o g2, xs)
      BY <2>1, AddedTwice
    <2>4. Added(Added(ps, r1, xs), r2, xs) = Added(ps, r1 \o r2, xs)
      BY <2>2, AddedTwice
    <2> QED BY <1>1, <1>7, <2>3, <2>4
  <1>9. g \in Seq(Wires) /\ r \in Seq(Items)
    BY <1>2, <1>6, <1>7, ConcatProperties
  <1>10. local_state(e) # "SwitchedProtocol"
    <2>1. EndOK(b, "server") /\ EndOK(e, "server")
      BY <1>2, <1>6 DEF Accord
    <2>2. SendsBody(b, e, g2)
      BY <1>3, <1>5, <1>e, <2>1, EndSent
    <2> QED BY <2>1, <2>2 DEF SendsBody, EndOK
  <1>11. RestTyped(s, data, end, n)
    BY <1>1, <1>2, <1>3, <1>6, <1>r DEF RestTyped
  <1> QED BY <1>6, <1>8, <1>9, <1>10, <1>11

(* The items of the head.                                                   *)
HeadSent(c, e, h, r) == r = <<HeadItem(h)>> \o EndsWith(c, e) /\ r \in Seq(Items) /\ h \in MessageHeads

(* A head after which more of the message follows.                          *)
Joinable(c, head, e, f, h, r) ==
    /\ c.cycle.writer = NoFraming /\ e \in Connections(Wires) /\ Coherent(e) /\ WriterShape(e)
    /\ head.wire \in Seq(Wires) /\ HeadSent(c, e, h, r) /\ local_state(f) # "SwitchedProtocol"

(* The bytes and the items of a complete message are those of its head and  *)
(* of its rest.                                                             *)
Joined(c, head, f, h, n, t, g, r, k) ==
    t.wire = head.wire \o g /\ WholeMessage(h, n) \o EndsWith(c, f) = r \o k

(* A complete message is its parts, one after the other.                    *)
LEMMA CompleteJoins ==
    ASSUME NEW c, NEW e, NEW n, NEW data, NEW end, NEW f, NEW g3, NEW r3, RestGoes(e, n, data, end, f, g3, r3),
           NEW h, RestTyped(e, data, end, n), NEW head, NEW t, InTurn(head, data, end, t),
           NEW r, Joinable(c, head, e, f, h, r)
    PROVE  Joined(c, head, f, h, n, t, g3, r, r3)
  <1>j. /\ c.cycle.writer = NoFraming /\ e \in Connections(Wires) /\ Coherent(e) /\ WriterShape(e)
        /\ head.wire \in Seq(Wires) /\ HeadSent(c, e, h, r) /\ local_state(f) # "SwitchedProtocol"
    BY DEF Joinable
  <1>0. /\ RestSent(e, n, data, end) /\ f = end.c /\ g3 = data.wire \o end.wire
        /\ r3 = DataItems(e, data.c, n) \o EndItems(data.c, end.c)
    BY DEF RestGoes
  <1>h. r = <<HeadItem(h)>> \o EndsWith(c, e) /\ r \in Seq(Items) /\ h \in MessageHeads
    BY <1>j DEF HeadSent
  <1>t. t.c = f /\ t.wire = (head.wire \o data.wire) \o end.wire
    BY <1>0 DEF InTurn
  <1>1. PICK g, g1, g2 : g = head.wire /\ g1 = data.wire /\ g2 = end.wire
    OBVIOUS
  <1>2. g \in Seq(Wires) /\ g1 \in Seq(Wires) /\ g2 \in Seq(Wires)
    BY <1>1, <1>j DEF RestTyped
  <1>3. (g \o g1) \o g2 = g \o (g1 \o g2)
    BY <1>2, ConcatAssociative
  <1>4. PICK r1, r2 : r1 = DataItems(e, data.c, n) /\ r2 = EndItems(data.c, end.c)
    OBVIOUS
  <1>5. r1 \in Seq(Items) /\ r2 \in Seq(Items)
    BY <1>4 DEF RestTyped
  <1>6. (r \o r1) \o r2 = r \o (r1 \o r2)
    BY <1>5, <1>h, ConcatAssociative
  <1>7. (r \o r1) \o r2 = WholeMessage(h, n) /\ EndsWith(c, end.c) = <<>>
    <2>1. MessageParts(c, e, h, n, data, end) = WholeMessage(h, n) /\ EndsWith(c, end.c) = <<>>
      BY <1>0, <1>h, <1>j, CompleteItems
    <2> QED BY <1>4, <1>h, <2>1 DEF MessageParts
  <1>9. (r \o r1) \o r2 \in Seq(Items)
    <2>1. r \o r1 \in Seq(Items)
      BY <1>5, <1>h, ConcatProperties
    <2> QED BY <1>5, <2>1, ConcatProperties
  <1>10. PICK x : x = (r \o r1) \o r2
    OBVIOUS
  <1>11. x \o <<>> = x
    BY <1>9, <1>10, EmptyJoins
  <1>12. WholeMessage(h, n) \o EndsWith(c, f) = r \o (r1 \o r2)
    BY <1>0, <1>6, <1>7, <1>10, <1>11
  <1> QED BY <1>0, <1>1, <1>3, <1>4, <1>12, <1>t DEF Joined

(* A head stays one that may be sent when its length is declared.           *)
LEMMA SendableWithLength ==
    ASSUME NEW h, NEW kind, Sendable(h, kind), NEW n \in Nat, NEW g, g = WithLength(h, n)
    PROVE  Sendable(g, kind) /\ HeadItem(g) = HeadItem(h)
  <1>1. g \in MessageHeads
    BY WithLengthIsHead DEF Sendable
  <1>2. g.kind = h.kind /\ g.valid = h.valid /\ g.syntax = h.syntax /\ g.method = h.method /\ g.status = h.status
    BY DEF WithLength, Sendable, MessageHeads
  <1> QED BY <1>1, <1>2 DEF Sendable, HeadItem

(* A complete request is sent: the connection after it, its bytes and its   *)
(* items.                                                                   *)
RequestSent(c, h, n, t, e, g, r) ==
    /\ Sendable(h, "request") /\ n \in Nat /\ t = send_request_with_body(c, h, n) /\ t.ok
    /\ e = t.c /\ g = t.wire /\ r = Complete("client", t, h, n) \o EndsWith(c, e)

(* The client sends a complete request.                                     *)
LEMMA ClientSendsComplete ==
    ASSUME NEW c, NEW s, NEW wc, NEW ws, NEW pc, NEW ps, NEW hc, NEW hs, NEW xc, NEW xs, NEW a,
           Accord(c, s, wc, ws, pc, ps, hc, hs, xc, xs, a), ~hc, NEW h0, NEW n, NEW t, NEW e, NEW g, NEW r,
           RequestSent(c, h0, n, t, e, g, r)
    PROVE  Accord(e, s, Added(wc, g, xc), ws, Added(pc, r, xc), ps, hc, hs, xc, xs, a)
  <1>q. /\ Sendable(h0, "request") /\ n \in Nat /\ t = send_request_with_body(c, h0, n) /\ t.ok
        /\ e = t.c /\ g = t.wire /\ r = Complete("client", t, h0, n) \o EndsWith(c, e)
    BY DEF RequestSent
  <1>0. /\ c \in Connections(Wires) /\ Coherent(c) /\ wc \in Seq(Wires) /\ pc \in Seq(Items) /\ c.role = "client"
    BY DEF Accord, EndOK, Sound, LineOK
  <1>1. PICK h : Sendable(h, "request") /\ HeadItem(h) = HeadItem(h0) /\ t = send_complete(c, send_request(c, h), n)
    BY <1>q, SendableWithLength DEF send_request_with_body
  <1>h. h \in MessageHeads /\ h.kind = "request"
    BY <1>1 DEF Sendable
  <1>2. PICK head : head = send_request(c, h)
    OBVIOUS
  <1>3. SendResult(Wires, c, head) /\ (head.ok => local_state(head.c) = "SendBody")
    BY <1>0, <1>h, <1>2, SendRequestEffect
  <1>4. t = send_complete(c, head, n)
    BY <1>1, <1>2
  <1>5. head.ok
    <2>1. PICK k \in Nat : k = n
      BY <1>q
    <2>2. t = send_complete(c, head, k) /\ t.ok
      BY <1>4, <1>q, <2>1
    <2> QED BY <1>0, <1>3, <2>2, SendCompleteEffect
  <1>6. PICK b, g0, r0 : b = head.c /\ g0 = head.wire /\ r0 = <<HeadItem(h)>> \o EndsWith(c, b)
    OBVIOUS
  <1>7. PICK w1, p1 : w1 = Added(wc, g0, xc) /\ p1 = Added(pc, r0, xc)
    OBVIOUS
  <1>8. Accord(b, s, w1, ws, p1, ps, hc, hs, xc, xs, a)
    BY <1>1, <1>2, <1>5, <1>6, <1>7, ClientSendsRequest
  <1>9. g0 \in Seq(Wires) /\ r0 \in Seq(Items) /\ WriterShape(b)
    BY <1>0, <1>h, <1>2, <1>5, <1>6, RequestWrites
  <1>10. b.st.server = "SendResponse" /\ c.st.client = "Idle"
    <2>1. PICK f : f = RequestFraming(h)
      OBVIOUS
    <2> QED BY <1>0, <1>h, <1>2, <1>5, <1>6, <2>1, SendRequestValue DEF Requested
  <1>11. PICK data, end : data = DataPart(b, n) /\ end = EndPart(data.c)
    OBVIOUS
  <1>12. RestSent(b, n, data, end) /\ InTurn(head, data, end, t)
    <2>1. data = DataPart(head.c, n) /\ local_state(head.c) # "SwitchedProtocol"
      BY <1>3, <1>5, <1>6, <1>11
    <2>2. CompleteSent(c, head, n, t)
      BY <1>4, <1>5, <1>q DEF CompleteSent
    <2>3. RestSent(head.c, n, data, end) /\ InTurn(head, data, end, t)
      BY <1>11, <2>1, <2>2, CompleteParts
    <2> QED BY <1>6, <2>3
  <1>13. PICK g1, r1 : RestGoes(b, n, data, end, e, g1, r1)
    BY <1>12, <1>q DEF RestGoes, InTurn
  <1>14. /\ Accord(e, s, Added(w1, g1, xc), ws, Added(p1, r1, xc), ps, hc, hs, xc, xs, a)
         /\ g1 \in Seq(Wires) /\ r1 \in Seq(Items) /\ local_state(e) # "SwitchedProtocol"
         /\ RestTyped(b, data, end, n)
    BY <1>8, <1>10, <1>13, ClientCompletes
  <1>15. c.cycle.writer = NoFraming
    BY <1>0, <1>10 DEF Coherent, WriterMatches, local_state, state
  <1>16. b \in Connections(Wires) /\ Coherent(b)
    BY <1>8 DEF Accord, EndOK, Sound
  <1>17. /\ g = g0 \o g1
         /\ Complete("client", t, h, n) \o EndsWith(c, e) = r0 \o r1
    <2>1. HeadSent(c, b, h, r0) /\ head.wire \in Seq(Wires) /\ WriterShape(b)
      BY <1>6, <1>9, <1>h DEF HeadSent
    <2>4. Joinable(c, head, b, e, h, r0)
      BY <1>14, <1>15, <1>16, <2>1 DEF Joinable
    <2>3. RestTyped(b, data, end, n) /\ InTurn(head, data, end, t)
      BY <1>12, <1>14
    <2>2. Joined(c, head, e, h, n, t, g1, r0, r1)
      BY <1>13, <2>3, <2>4, CompleteJoins
    <2>5. t.c = e
      BY <1>13, <2>3 DEF InTurn, RestGoes
    <2>6. Complete("client", t, h, n) = WholeMessage(h, n)
      BY <1>14, <2>5 DEF Complete, WholeMessage
    <2> QED BY <1>6, <1>q, <2>2, <2>6 DEF Joined
  <1>18. r = r0 \o r1
    BY <1>1, <1>17, <1>q DEF Complete
  <1>19. Added(w1, g1, xc) = Added(wc, g, xc)
    BY <1>0, <1>7, <1>9, <1>14, <1>17, AddedTwice
  <1>20. Added(p1, r1, xc) = Added(pc, r, xc)
    BY <1>0, <1>7, <1>9, <1>14, <1>18, AddedTwice
  <1> QED BY <1>14, <1>19, <1>20

----------------------------------------------------------------------------
(* Sending a response.                                                      *)

(* What the server says by a head, and where it leaves the server.          *)
Speaks(c, s, e, h) ==
    /\ h \in MessageHeads /\ h.kind = "response" /\ h.syntax = "ok"
    /\ is_informational(h.status) => ResponseFraming(h) # FramingError
    /\ h.status = 101 => /\ valid_upgrade_response(s, h) /\ ~s.cycle.continue_before_upgrade
                         /\ e.st.server = "SwitchedProtocol"
    /\ Final(h) => e.st.server # "SendResponse"
    /\ ~Final(h) => e.cycle.upgrade_proposals = s.cycle.upgrade_proposals
    /\ is_informational(h.status) /\ h.status # 100 =>
          /\ e.cycle.waiting_for_continue = s.cycle.waiting_for_continue
          /\ e.cycle.continue_before_upgrade = s.cycle.continue_before_upgrade

(* The head that was written is one that the client will take.              *)
LEMMA SpokenIsGood ==
    ASSUME NEW c, NEW s, NEW e, NEW a, NEW h, NEW d, NEW d2, NEW m, Speaks(c, s, e, h), Answered(c, e, a, h),
           s.cycle.upgrade_proposals = c.cycle.upgrade_proposals,
           c.cycle.continue_before_upgrade /\ ~s.cycle.continue_before_upgrade => ContinueUnderWay(d),
           HeadsOf(d2) = HeadsOf(d) \cup {m}, \A i \in HeadsOf(d) : d2.sym[i] = d.sym[i] /\ i < m /\ i <= m, m <= m
    PROVE  GoodResponse(c, e, d2, a, m, h)
  <1>1. Switching(c, e, d2, m, h)
    <2> SUFFICES ASSUME h.status = 101
                 PROVE  /\ valid_upgrade_response(c, h) /\ e.st.server = "SwitchedProtocol"
                        /\ c.cycle.continue_before_upgrade => \E j \in HeadsOf(d2) : j < m /\ d2.sym[j].h.status = 100
      BY DEF Switching
    <2>1. valid_upgrade_response(c, h)
      BY DEF Speaks, valid_upgrade_response
    <2>2. c.cycle.continue_before_upgrade => \E j \in HeadsOf(d) : d.sym[j].h.status = 100
      BY DEF Speaks, ContinueUnderWay
    <2>3. c.cycle.continue_before_upgrade => \E j \in HeadsOf(d2) : j < m /\ d2.sym[j].h.status = 100
      BY <2>2
    <2> QED BY <2>1, <2>3 DEF Speaks
  <1>2. Final(h) => e.st.server # "SendResponse" /\ \A j \in HeadsOf(d2) : j <= m
    BY DEF Speaks
  <1> QED BY <1>1, <1>2 DEF GoodResponse, Speaks

(* The heads before it were not final, and stay good.                       *)
LEMMA EarlierStayGood ==
    ASSUME NEW c, NEW s, NEW e, NEW a, NEW d, NEW d2, NEW i, NEW h, s.st.server = "SendResponse",
           GoodResponse(c, s, d, a, i, h)
    PROVE  GoodResponse(c, e, d2, a, i, h)
  BY DEF GoodResponse, Switching, Answered, Final

(* What is under way to the client once the server has sent a head.         *)
LEMMA SpokenMarks ==
    ASSUME NEW c, NEW s, NEW e, NEW a, NEW h, NEW d, NEW d2, Speaks(c, s, e, h), Answered(c, e, a, h),
           s.st.server = "SendResponse", c.st.server = "SendResponse", Begun(s, a), Begun(e, a), a = 0,
           DownMarks(c, s, d, a), NEW m, d2.sym[m].h = h,
           HeadsOf(d2) = HeadsOf(d) \cup {m}, \A i \in HeadsOf(d) : d2.sym[i] = d.sym[i] /\ i < m /\ i <= m, m <= m
    PROVE  DownMarks(c, e, d2, a)
  <1>1. /\ s.cycle.upgrade_proposals = c.cycle.upgrade_proposals
        /\ c.cycle.continue_before_upgrade /\ ~s.cycle.continue_before_upgrade => ContinueUnderWay(d)
    BY DEF DownMarks, Proposals
  <1>2. GoodResponse(c, e, d2, a, m, h)
    BY <1>1, SpokenIsGood
  <1>3. \A i \in HeadsOf(d2) : GoodResponse(c, e, d2, a, i, d2.sym[i].h)
    <2> SUFFICES ASSUME NEW i \in HeadsOf(d2) PROVE GoodResponse(c, e, d2, a, i, d2.sym[i].h)
      OBVIOUS
    <2>1. CASE i = m
      BY <1>2, <2>1
    <2>2. CASE i # m
      <3>1. i \in HeadsOf(d) /\ d2.sym[i] = d.sym[i]
        BY <2>2
      <3>2. GoodResponse(c, s, d, a, i, d2.sym[i].h)
        BY <3>1 DEF DownMarks
      <3> QED BY <3>2, EarlierStayGood
    <2> QED BY <2>1, <2>2
  <1>4. m \in HeadsOf(d2) /\ (ContinueUnderWay(d) => ContinueUnderWay(d2)) /\ (AnswerUnderWay(d) => AnswerUnderWay(d2))
    BY DEF ContinueUnderWay, AnswerUnderWay
  <1>5. h.status = 100 => ContinueUnderWay(d2) /\ AnswerUnderWay(d2)
    BY <1>4 DEF ContinueUnderWay, AnswerUnderWay
  <1>6. ~is_informational(h.status) => AnswerUnderWay(d2)
    BY <1>4 DEF AnswerUnderWay
  <1>7. Proposals(c, e, d2, a)
    <2> SUFFICES ASSUME e.st.server = "SendResponse"
                 PROVE  /\ e.cycle.upgrade_proposals = c.cycle.upgrade_proposals
                        /\ c.cycle.continue_before_upgrade /\ ~e.cycle.continue_before_upgrade => ContinueUnderWay(d2)
      BY DEF Proposals
    <2>1. ~Final(h)
      BY DEF Speaks
    <2>2. is_informational(h.status)
      BY <2>1 DEF Final
    <2> QED BY <1>1, <1>4, <1>5, <2>1, <2>2 DEF Speaks
  <1>8. WaitsKnown(c, e, d2, a)
    <2>1. c.cycle.waiting_for_continue => s.cycle.waiting_for_continue \/ AnswerUnderWay(d)
      BY DEF DownMarks, WaitsKnown
    <2>2. c.cycle.waiting_for_continue => e.cycle.waiting_for_continue \/ AnswerUnderWay(d2)
      BY <1>4, <1>5, <1>6, <2>1 DEF Speaks
    <2> QED BY <2>2 DEF WaitsKnown
  <1> QED BY <1>3, <1>7, <1>8 DEF DownMarks

(* The server's stream once it has sent a head.                             *)
LEMMA AnswerGoesDown ==
    ASSUME NEW c, NEW s, NEW w \in Seq(Wires), NEW q \in Seq(Items), NEW broken, NEW a, NEW e, NEW h,
           c.input \in Seq(Wires), Down(c, s, w, q, broken, a), Speaks(c, s, e, h), Answered(c, e, a, h),
           s.st.server = "SendResponse", Begun(s, a), Begun(e, a), a = 0, Asked(c), ClientPhase(c),
           NEW g, g = <<HeadOf(h)>>, g \in Seq(Wires), NEW r \in Seq(Items), NEW rk, rk = c.cycle.request_kind,
           Writes(rk, s, e, g, r)
    PROVE  Down(c, e, Added(w, g, broken), Added(q, r, broken), broken, a)
  <1> SUFFICES ASSUME c.st.server \in Follow
               PROVE  \E d : /\ Stream(d, rk, e, c, Added(w, g, broken), Added(q, r, broken), broken)
                             /\ DownMarks(c, e, d, a)
    BY DEF Down
  <1>1. PICK d : Stream(d, rk, s, c, w, q, broken) /\ DownMarks(c, s, d, a)
    BY DEF Down
  <1>2. PICK d2 : /\ Grown(d, d2, g, r)
                  /\ Stream(d2, rk, e, c, Added(w, g, broken), Added(q, r, broken), broken)
    BY <1>1, StreamWrites
  <1>3. d \in Flows /\ d.read <= d.wrote /\ d.read \in Nat /\ d.wrote \in Nat
    BY <1>1, StreamOrder
  <1>h. h \in MessageHeads
    BY DEF Speaks
  <1>4. /\ d2.wrote = d.wrote + 1 /\ d2.sym[d2.wrote] = HeadOf(h) /\ HeadOf(h).h = h
        /\ HeadsOf(d2) = HeadsOf(d) \cup {d2.wrote}
        /\ \A i \in HeadsOf(d) : d2.sym[i] = d.sym[i] /\ i < d2.wrote
    BY <1>2, <1>3, <1>h, GrownHead
  <1>5. PICK m \in Nat : m = d2.wrote
    BY <1>3, <1>4
  <1>6. \A i \in HeadsOf(d) : d2.sym[i] = d.sym[i] /\ i < m /\ i <= m
    <2>1. \A i \in HeadsOf(d) : i \in Nat
      BY <1>3, HeadsTyped
    <2> QED BY <1>4, <1>5, <2>1
  <1>7. c.st.server = "SendResponse"
    BY <1>1 DEF DownMarks, ClientPhase, Follow
  <1>8. d2.sym[m].h = h /\ HeadsOf(d2) = HeadsOf(d) \cup {m} /\ m <= m
    BY <1>4, <1>5
  <1>9. DownMarks(c, e, d2, a)
    BY <1>1, <1>6, <1>7, <1>8, SpokenMarks
  <1> QED BY <1>2, <1>9

(* A server that is to answer is in the exchange of the client.             *)
LEMMA ServerInExchange ==
    ASSUME NEW c, NEW s, NEW wc, NEW ws, NEW pc, NEW ps, NEW hc, NEW hs, NEW xc, NEW xs, NEW a,
           Accord(c, s, wc, ws, pc, ps, hc, hs, xc, xs, a), s.st.server = "SendResponse"
    PROVE  /\ a = 0 /\ Begun(s, a) /\ Asked(c) /\ s.cycle.request_kind = c.cycle.request_kind
           /\ s.cycle.request_kind # None /\ s.st.client # "Idle"
           /\ c.st.server \notin {"SendBody", "Done", "SwitchedProtocol"}
  <1>1. ServerPhase(s) /\ SharedPhase(c, s, a) /\ Down(c, s, ws, ps, xs, a)
    BY DEF Accord, Phase
  <1>2. s.cycle.request_kind # None
    BY <1>1 DEF ServerPhase
  <1>3. s.st.client # "Idle"
    BY <1>1, <1>2 DEF ServerPhase
  <1>4. ~Persists(s)
    BY DEF Persists, WordKept
  <1>5. a = 0 /\ Begun(s, a)
    BY <1>1, <1>2, <1>4 DEF SharedPhase, Begun
  <1>6. Asked(c) /\ s.cycle.request_kind = c.cycle.request_kind
    BY <1>1, <1>5 DEF SharedPhase
  <1>7. c.st.server # "SwitchedProtocol"
    BY <1>1 DEF SharedPhase
  <1>8. c.st.server \notin {"SendBody", "Done"}
    BY <1>1, <1>5 DEF Down, Follow, DownMarks
  <1> QED BY <1>2, <1>3, <1>5, <1>6, <1>7, <1>8

(* How the server stands after the head of an answer.                       *)
AnswerMove(s, e) ==
    /\ OnlyLocal(s, e) /\ ClientSettles(s.st.client, e.st.client) /\ e.st.server # "Idle"
    /\ e.cycle.request_kind = s.cycle.request_kind /\ (e.st.keep_alive => s.st.keep_alive)

(* The server sends the head of a response: the invariant stays.            *)
LEMMA ServerAnswers ==
    ASSUME NEW c, NEW s, NEW wc, NEW ws, NEW pc, NEW ps, NEW hc, NEW hs, NEW xc, NEW xs, NEW a,
           Accord(c, s, wc, ws, pc, ps, hc, hs, xc, xs, a), ~hs, s.st.server = "SendResponse", NEW e, EndOK(e, "server"),
           AnswerMove(s, e), NEW h, Speaks(c, s, e, h), Answered(c, e, a, h),
           NEW g, g = <<HeadOf(h)>>, g \in Seq(Wires), NEW r \in Seq(Items), NEW rk, rk = c.cycle.request_kind,
           Writes(rk, s, e, g, r)
    PROVE  Accord(c, e, wc, Added(ws, g, xs), pc, Added(ps, r, xs), hc, hs, xc, xs, a)
  <1>0. /\ EndOK(c, "client") /\ s.role = "server" /\ c.input \in Seq(Wires) /\ ws \in Seq(Wires) /\ ps \in Seq(Items)
        /\ ClientPhase(c) /\ ServerPhase(s) /\ SharedPhase(c, s, a)
    BY DEF Accord, EndOK, Sound, LineOK, Connections, Phase
  <1>1. /\ a = 0 /\ Begun(s, a) /\ Asked(c) /\ s.cycle.request_kind = c.cycle.request_kind
        /\ s.cycle.request_kind # None /\ s.st.client # "Idle"
        /\ c.st.server \notin {"SendBody", "Done", "SwitchedProtocol"}
    BY ServerInExchange
  <1>2. /\ e.role = "server" /\ e.input = s.input /\ e.eof = s.eof /\ e.cycle.reader = s.cycle.reader
        /\ ClientSettles(s.st.client, e.st.client) /\ e.st.server # "Idle"
        /\ e.cycle.request_kind = s.cycle.request_kind /\ (e.st.keep_alive => s.st.keep_alive)
    BY <1>0 DEF AnswerMove, OnlyLocal
  <1>3. Begun(e, a)
    BY <1>1, <1>2 DEF Begun
  <1>4. Phase(c, e, a)
    <2>1. ServerPhase(e)
      BY <1>1, <1>2 DEF ServerPhase, ClientSettles
    <2>2. SharedPhase(c, e, a)
      BY <1>0, <1>1, <1>2, <1>3 DEF SharedPhase
    <2> QED BY <1>0, <2>1, <2>2 DEF Phase
  <1>5. LineOK(e, c, Added(ws, g, xs), Added(ps, r, xs), hs, xs)
    BY LineWrites DEF Accord
  <1>6. LineOK(c, e, wc, pc, hc, xc)
    BY <1>2 DEF Accord, LineOK
  <1>7. ServerFault(e, xc) /\ ClientFault(c, e, Added(ps, r, xs), hs, xs, a)
    BY <1>2 DEF Accord, ServerFault, ClientFault, ClientSettles
  <1>8. Up(c, e, wc, pc, xc, a)
    <2>1. Up(c, s, wc, pc, xc, a)
      BY DEF Accord
    <2>2. SameStart(s, e) /\ (s.st.client = "Error" => e.st.client = "Error")
      BY <1>0, <1>2 DEF SameStart, ClientSettles, peer_state, state, peer
    <2> QED BY <1>1, <1>2, <1>3, <2>1, <2>2, ServerKeepsUp
  <1>9. Down(c, e, Added(ws, g, xs), Added(ps, r, xs), xs, a)
    <2>1. Down(c, s, ws, ps, xs, a)
      BY DEF Accord
    <2> QED BY <1>0, <1>1, <1>3, <2>1, AnswerGoesDown
  <1> QED BY <1>0, <1>4, <1>5, <1>6, <1>7, <1>8, <1>9 DEF Accord

(* The server sends an informational response.                              *)
InformationSent(s, h, e, g, r) ==
    /\ Sendable(h, "response") /\ send_informational_response(s, h).ok
    /\ e = send_informational_response(s, h).c /\ g = send_informational_response(s, h).wire
    /\ r = <<HeadItem(h)>> \o EndsWith(s, e)

(* What send_informational_response does to the server.                     *)
LEMMA InformationMoves ==
    ASSUME NEW s, EndOK(s, "server"), s.st.client # "Idle", NEW h, NEW e, NEW g, NEW r, InformationSent(s, h, e, g, r)
    PROVE  /\ EndOK(e, "server") /\ AnswerMove(s, e) /\ Informed(s, h, e) /\ s.st.server = "SendResponse"
           /\ h.valid /\ ~has_framing(h) /\ g = <<HeadOf(h)>> /\ g \in Seq(Wires) /\ r \in Seq(Items)
           /\ \A rk : Writes(rk, s, e, g, r)
  <1>0. s \in Connections(Wires) /\ Coherent(s) /\ s.role = "server"
    BY DEF EndOK, Sound
  <1>h. h \in MessageHeads /\ h.kind = "response"
    BY DEF InformationSent, Sendable
  <1>1. PICK t : t = send_informational_response(s, h)
    OBVIOUS
  <1>2. t.ok /\ e = t.c /\ g = t.wire /\ r = <<HeadItem(h)>> \o EndsWith(s, e)
    BY <1>1 DEF InformationSent
  <1>3. /\ h.valid /\ ~has_framing(h) /\ s.st.server = "SendResponse" /\ g = <<HeadOf(h)>> /\ Informed(s, h, e)
    BY <1>0, <1>h, <1>1, <1>2, SendInformationalValue
  <1>4. g \in Seq(Wires) /\ r \in Seq(Items) /\ WriterShape(e)
    BY <1>0, <1>h, <1>1, <1>2, InformationalWrites
  <1>5. ASSUME NEW rk PROVE Writes(rk, s, e, g, r)
    BY <1>0, <1>h, <1>1, <1>2, InformationalWrites
  <1>6. SendResult(Wires, s, t)
    BY <1>0, <1>h, <1>1, SendInformationalEffect
  <1>7. EndOK(e, "server") /\ OnlyLocal(s, e)
    BY <1>2, <1>4, <1>6, SentEnd
  <1>8. PeerKept(s.st.client, e.st.client) /\ (e.st.keep_alive => s.st.keep_alive) /\ e.role = "server"
    BY <1>0, <1>2, <1>6, <1>7 DEF SendResult, Moves, peer_state, state, peer, EndOK
  <1>9. ClientSettles(s.st.client, e.st.client) /\ e.st.server # "Idle"
    <2>1. CASE h.status # 101
      BY <1>3, <2>1 DEF Informed, ClientSettles
    <2>2. CASE h.status = 101
      <3>1. e.st.server = "SwitchedProtocol"
        BY <1>3, <2>2 DEF Informed
      <3>2. Joint(e.st)
        BY <1>7 DEF EndOK, Sound, Coherent, Lawful
      <3> QED BY <1>8, <3>1, <3>2 DEF Joint, PeerKept, ClientSettles
    <2> QED BY <2>1, <2>2
  <1>10. AnswerMove(s, e)
    BY <1>3, <1>7, <1>8, <1>9 DEF AnswerMove, Informed
  <1> QED BY <1>3, <1>4, <1>5, <1>7, <1>10

(* The server sends an informational response: the invariant stays.         *)
LEMMA ServerInforms ==
    ASSUME NEW c, NEW s, NEW wc, NEW ws, NEW pc, NEW ps, NEW hc, NEW hs, NEW xc, NEW xs, NEW a,
           Accord(c, s, wc, ws, pc, ps, hc, hs, xc, xs, a), ~hs, s.st.server = "SendResponse",
           NEW h, NEW e, NEW g, NEW r, InformationSent(s, h, e, g, r)
    PROVE  Accord(c, e, wc, Added(ws, g, xs), pc, Added(ps, r, xs), hc, hs, xc, xs, a)
  <1>0. EndOK(s, "server")
    BY DEF Accord
  <1>1. s.st.client # "Idle"
    BY ServerInExchange
  <1>2. PICK rk : rk = c.cycle.request_kind
    OBVIOUS
  <1>3. /\ EndOK(e, "server") /\ AnswerMove(s, e) /\ Informed(s, h, e)
        /\ h.valid /\ ~has_framing(h) /\ g = <<HeadOf(h)>> /\ g \in Seq(Wires) /\ r \in Seq(Items)
        /\ Writes(rk, s, e, g, r)
    BY <1>0, <1>1, InformationMoves
  <1>h. h \in MessageHeads /\ h.kind = "response" /\ (h.valid => h.syntax = "ok")
    BY DEF InformationSent, Sendable
  <1>4. ResponseFraming(h) # FramingError
    <2>1. h.te = <<>> /\ h.cl = <<>>
      BY <1>3 DEF has_framing
    <2>2. ResponseFraming(h) = CloseDelimited
      BY <1>h, <2>1, FramingPlain
    <2> QED BY <2>2 DEF CloseDelimited, FramingError
  <1>5. Speaks(c, s, e, h)
    <2>1. Final(h) => h.status = 101
      BY <1>3 DEF Final, Informed
    <2> QED BY <1>3, <1>4, <1>h, <2>1 DEF Speaks, Informed
  <1>6. Answered(c, e, a, h)
    BY <1>3 DEF Answered, Informed
  <1> QED BY <1>2, <1>3, <1>5, <1>6, ServerAnswers

(* The server sends a final response.                                       *)
ResponseSent(s, h, e, g, r) ==
    /\ Sendable(h, "response") /\ send_response(s, h).ok
    /\ e = send_response(s, h).c /\ g = send_response(s, h).wire
    /\ r = <<HeadItem(h)>> \o EndsWith(s, e)

(* The head that goes out for h.                                            *)
Framed(s, h, e, g, k) ==
    k \in MessageHeads /\ SameFields(h, k) /\ g = <<HeadOf(k)>> /\ Responded(s, k, e)

(* What send_response does to the server.                                   *)
LEMMA ResponseMove ==
    ASSUME NEW s, EndOK(s, "server"), s.st.server = "SendResponse",
           NEW h, NEW e, NEW g, NEW r, ResponseSent(s, h, e, g, r), NEW rk, rk = s.cycle.request_kind
    PROVE  /\ EndOK(e, "server") /\ AnswerMove(s, e) /\ h.valid
           /\ \E k : Framed(s, h, e, g, k)
           /\ g \in Seq(Wires) /\ r \in Seq(Items) /\ Writes(rk, s, e, g, r)
           /\ e.st.server \in {"SendBody", "SwitchedProtocol"}
  <1>0. s \in Connections(Wires) /\ Coherent(s) /\ s.role = "server"
    BY DEF EndOK, Sound
  <1>h. h \in MessageHeads /\ h.kind = "response"
    BY DEF ResponseSent, Sendable
  <1>1. PICK t : t = send_response(s, h)
    OBVIOUS
  <1>2. t.ok /\ e = t.c /\ g = t.wire /\ r = <<HeadItem(h)>> \o EndsWith(s, e)
    BY <1>1 DEF ResponseSent
  <1>3. h.valid /\ \E k \in MessageHeads : SameFields(h, k) /\ g = <<HeadOf(k)>> /\ Responded(s, k, e)
    BY <1>0, <1>h, <1>1, <1>2, SendResponseValue
  <1>4. PICK k : Framed(s, h, e, g, k)
    BY <1>3 DEF Framed
  <1>5. g \in Seq(Wires) /\ r \in Seq(Items) /\ WriterShape(e) /\ Writes(rk, s, e, g, r)
    BY <1>0, <1>h, <1>1, <1>2, ResponseWrites
  <1>6. SendResult(Wires, s, t)
    BY <1>0, <1>h, <1>1, SendResponseEffect
  <1>7. EndOK(e, "server") /\ OnlyLocal(s, e)
    BY <1>2, <1>5, <1>6, SentEnd
  <1>8. e.st.keep_alive => s.st.keep_alive
    BY <1>2, <1>6 DEF SendResult, Moves
  <1>9. e.st.server \in {"SendBody", "SwitchedProtocol"}
    BY <1>4 DEF Framed, Responded
  <1>10. AnswerMove(s, e)
    BY <1>4, <1>7, <1>8, <1>9 DEF AnswerMove, Framed, Responded
  <1> QED BY <1>3, <1>4, <1>5, <1>7, <1>9, <1>10

(* The head it sends is one that the client will accept.                    *)
LEMMA ResponseSpeaks ==
    ASSUME NEW c, NEW s, NEW h, NEW e, NEW g, NEW k, Sendable(h, "response"), h.valid, Framed(s, h, e, g, k)
    PROVE  Speaks(c, s, e, k)
  <1>1. k \in MessageHeads /\ k.kind = "response" /\ k.syntax = "ok" /\ ~is_informational(k.status)
    BY DEF Framed, SameFields, Sendable, Responded
  <1>2. k.status # 101
    BY <1>1 DEF is_informational
  <1>3. e.st.server # "SendResponse"
    BY DEF Framed, Responded
  <1> QED BY <1>1, <1>2, <1>3 DEF Speaks, Final

(* The head it sends lets the client decide on reuse as the server did.     *)
LEMMA ResponseAnswered ==
    ASSUME NEW c, NEW s, NEW h, NEW e, NEW g, NEW k, NEW a, a = 0, Framed(s, h, e, g, k), s.st.server = "SendResponse",
           s.cycle.request_kind = c.cycle.request_kind
    PROVE  Answered(c, e, a, k)
  <1>1. Responded(s, k, e)
    BY DEF Framed
  <1>2. opens_tunnel(s, k.status) <=> opens_tunnel(c, k.status)
    BY DEF opens_tunnel
  <1>3. response_has_no_body(s, k.status) <=> response_has_no_body(c, k.status)
    BY <1>2 DEF response_has_no_body
  <1>4. FinalFraming(c, k) # FramingError
    <2>1. CASE opens_tunnel(c, k.status)
      BY <2>1 DEF FinalFraming, response_has_no_body, Fixed, FramingError
    <2>2. CASE ~opens_tunnel(c, k.status)
      BY <1>1, <1>2, <2>2 DEF FinalFraming, Responded, Fixed, FramingError
    <2> QED BY <2>1, <2>2
  <1>5. opens_tunnel(c, k.status) => e.st.server = "SwitchedProtocol"
    BY <1>1, <1>2 DEF Responded
  <1>6. ASSUME ~opens_tunnel(c, k.status)
        PROVE  /\ e.st.keep_alive => AsksReuse(k, c.cycle.request_kind)
               /\ AsksReuse(k, c.cycle.request_kind) => Persists(e)
    <2>1. /\ e.cycle.writer = IF response_has_no_body(c, k.status) THEN Fixed(0) ELSE ResponseFraming(k)
          /\ ResponseFraming(k) # FramingError
          /\ e.st.keep_alive <=> persistent(k)
          /\ e.st.keep_alive => e.cycle.writer # CloseDelimited /\ WordKept(e, "persist")
          /\ e.st.keep_alive => c.cycle.request_kind # "CONNECT"
      BY <1>1, <1>2, <1>3, <1>6 DEF Responded
    <2>2. response_has_no_body(c, k.status) <=> Bodyless(k.status, c.cycle.request_kind)
      BY <1>6 DEF response_has_no_body, Bodyless
    <2>3. e.st.keep_alive => ~FramingCloses(Bodyless(k.status, c.cycle.request_kind), ResponseFraming(k))
      BY <2>1, <2>2 DEF FramingCloses
    <2> QED BY <2>1, <2>3 DEF AsksReuse, Persists
  <1> QED BY <1>4, <1>5, <1>6 DEF Answered

(* The server sends a final response: the invariant stays.                  *)
LEMMA ServerResponds ==
    ASSUME NEW c, NEW s, NEW wc, NEW ws, NEW pc, NEW ps, NEW hc, NEW hs, NEW xc, NEW xs, NEW a,
           Accord(c, s, wc, ws, pc, ps, hc, hs, xc, xs, a), ~hs, s.st.server = "SendResponse",
           NEW h, NEW e, NEW g, NEW r, ResponseSent(s, h, e, g, r)
    PROVE  /\ Accord(c, e, wc, Added(ws, g, xs), pc, Added(ps, r, xs), hc, hs, xc, xs, a)
           /\ g \in Seq(Wires) /\ r \in Seq(Items) /\ e.st.server \in {"SendBody", "SwitchedProtocol"}
           /\ WriterShape(e) /\ e.role = "server"
  <1>0. EndOK(s, "server")
    BY DEF Accord
  <1>1. a = 0 /\ s.cycle.request_kind = c.cycle.request_kind
    BY ServerInExchange
  <1>2. PICK rk : rk = s.cycle.request_kind
    OBVIOUS
  <1>3. /\ EndOK(e, "server") /\ AnswerMove(s, e) /\ h.valid
        /\ \E k : Framed(s, h, e, g, k)
        /\ g \in Seq(Wires) /\ r \in Seq(Items) /\ Writes(rk, s, e, g, r)
        /\ e.st.server \in {"SendBody", "SwitchedProtocol"}
    BY <1>0, <1>2, ResponseMove
  <1>4. PICK k : Framed(s, h, e, g, k)
    BY <1>3
  <1>5. Speaks(c, s, e, k)
    BY <1>3, <1>4, ResponseSpeaks DEF ResponseSent
  <1>6. Answered(c, e, a, k)
    BY <1>1, <1>4, ResponseAnswered
  <1>7. g = <<HeadOf(k)>> /\ rk = c.cycle.request_kind
    BY <1>1, <1>2, <1>4 DEF Framed
  <1>8. Accord(c, e, wc, Added(ws, g, xs), pc, Added(ps, r, xs), hc, hs, xc, xs, a)
    BY <1>3, <1>5, <1>6, <1>7, ServerAnswers
  <1> QED BY <1>3, <1>8 DEF EndOK

(* A complete response is sent.                                             *)
AnswerSent(s, h, n, t, e, g, r) ==
    /\ Sendable(h, "response") /\ n \in Nat /\ t = send_response_with_body(s, h, n) /\ t.ok
    /\ e = t.c /\ g = t.wire /\ r = Complete("server", t, h, n) \o EndsWith(s, e)

(* Its head, as send_response sends it.                                     *)
LEMMA AnswerHead ==
    ASSUME NEW s, EndOK(s, "server"), NEW h0, NEW n, NEW t, NEW e, NEW g, NEW r, AnswerSent(s, h0, n, t, e, g, r)
    PROVE  \E h, head, b, g0, r0 :
               /\ HeadItem(h) = HeadItem(h0) /\ Sendable(h, "response") /\ CompleteSent(s, head, n, t)
               /\ head.c = b /\ head.wire = g0 /\ ResponseSent(s, h, b, g0, r0)
  <1>q. Sendable(h0, "response") /\ n \in Nat /\ t = send_response_with_body(s, h0, n) /\ t.ok
    BY DEF AnswerSent
  <1>0. s \in Connections(Wires) /\ Coherent(s) /\ s.role = "server"
    BY DEF EndOK, Sound
  <1>1. PICK h : Sendable(h, "response") /\ HeadItem(h) = HeadItem(h0) /\ t = send_complete(s, send_response(s, h), n)
    BY <1>q, SendableWithLength DEF send_response_with_body
  <1>h. h \in MessageHeads
    BY <1>1 DEF Sendable
  <1>2. PICK head : head = send_response(s, h)
    OBVIOUS
  <1>3. SendResult(Wires, s, head) /\ (head.ok => local_state(head.c) \in {"SendBody", "SwitchedProtocol"})
    <2>1. SendResult(Wires, s, head) /\ (head.ok => Responds(Wires, s, head.c))
      BY <1>0, <1>h, <1>2, SendResponseEffect
    <2>2. ASSUME head.ok PROVE local_state(head.c) \in {"SendBody", "SwitchedProtocol"}
      BY <1>0, <2>1, <2>2 DEF Responds, Moves, OnlyLocal, local_state, state
    <2> QED BY <2>1, <2>2
  <1>4. t = send_complete(s, head, n)
    BY <1>1, <1>2
  <1>5. head.ok
    <2>1. PICK k \in Nat : k = n
      BY <1>q
    <2>2. t = send_complete(s, head, k) /\ t.ok
      BY <1>4, <1>q, <2>1
    <2> QED BY <1>0, <1>3, <2>2, SendCompleteEffect
  <1>6. PICK b, g0, r0 : b = head.c /\ g0 = head.wire /\ r0 = <<HeadItem(h)>> \o EndsWith(s, b)
    OBVIOUS
  <1>7. ResponseSent(s, h, b, g0, r0)
    BY <1>1, <1>2, <1>5, <1>6 DEF ResponseSent
  <1>8. CompleteSent(s, head, n, t)
    BY <1>4, <1>5, <1>q DEF CompleteSent
  <1> QED BY <1>1, <1>6, <1>7, <1>8

(* The server sends a complete response: the invariant stays.               *)
LEMMA ServerSendsComplete ==
    ASSUME NEW c, NEW s, NEW wc, NEW ws, NEW pc, NEW ps, NEW hc, NEW hs, NEW xc, NEW xs, NEW a,
           Accord(c, s, wc, ws, pc, ps, hc, hs, xc, xs, a), ~hs, s.st.server = "SendResponse",
           NEW h0, NEW n, NEW t, NEW e, NEW g, NEW r, AnswerSent(s, h0, n, t, e, g, r)
    PROVE  Accord(c, e, wc, Added(ws, g, xs), pc, Added(ps, r, xs), hc, hs, xc, xs, a)
  <1>q. e = t.c /\ g = t.wire /\ r = Complete("server", t, h0, n) \o EndsWith(s, e)
    BY DEF AnswerSent
  <1>0. EndOK(s, "server") /\ s \in Connections(Wires) /\ Coherent(s) /\ ws \in Seq(Wires) /\ ps \in Seq(Items) /\ s.role = "server"
    BY DEF Accord, EndOK, Sound, LineOK
  <1>1. PICK h, head, b, g0, r0 :
                 /\ HeadItem(h) = HeadItem(h0) /\ Sendable(h, "response") /\ CompleteSent(s, head, n, t)
                 /\ head.c = b /\ head.wire = g0 /\ ResponseSent(s, h, b, g0, r0)
    BY <1>0, AnswerHead
  <1>h. h \in MessageHeads /\ r0 = <<HeadItem(h)>> \o EndsWith(s, b)
    BY <1>1 DEF Sendable, ResponseSent
  <1>2. PICK w1, p1 : w1 = Added(ws, g0, xs) /\ p1 = Added(ps, r0, xs)
    OBVIOUS
  <1>3. /\ Accord(c, b, wc, w1, pc, p1, hc, hs, xc, xs, a)
        /\ g0 \in Seq(Wires) /\ r0 \in Seq(Items) /\ b.st.server \in {"SendBody", "SwitchedProtocol"}
        /\ WriterShape(b) /\ b.role = "server"
    BY <1>1, <1>2, ServerResponds
  <1>4. PICK data, end : data = DataPart(head.c, n) /\ end = EndPart(data.c)
    OBVIOUS
  <1>5. /\ local_state(head.c) = "SwitchedProtocol" => t = head
        /\ local_state(head.c) # "SwitchedProtocol" => RestSent(head.c, n, data, end) /\ InTurn(head, data, end, t)
    BY <1>1, <1>4, CompleteParts
  <1>6. CASE local_state(b) = "SwitchedProtocol"
    <2>1. t = head
      BY <1>1, <1>5, <1>6
    <2>2. e = b /\ g = g0
      BY <1>1, <1>q, <2>1
    <2>3. <<HeadItem(h0)>> \o <<>> = <<HeadItem(h0)>>
      BY <1>1, <1>h, ItemKinds, EmptyJoins
    <2>4. Complete("server", t, h0, n) = <<HeadItem(h0)>>
      BY <1>6, <1>q, <2>2, <2>3 DEF Complete
    <2>5. r = r0
      BY <1>1, <1>h, <1>q, <2>2, <2>4
    <2> QED BY <1>2, <1>3, <2>2, <2>5
  <1>7. CASE local_state(b) # "SwitchedProtocol"
    <2>12. RestSent(b, n, data, end) /\ InTurn(head, data, end, t)
      BY <1>1, <1>5, <1>7
    <2>13. PICK g1, r1 : RestGoes(b, n, data, end, e, g1, r1)
      BY <1>q, <2>12 DEF RestGoes, InTurn
    <2>14. /\ Accord(c, e, wc, Added(w1, g1, xs), pc, Added(p1, r1, xs), hc, hs, xc, xs, a)
           /\ g1 \in Seq(Wires) /\ r1 \in Seq(Items) /\ local_state(e) # "SwitchedProtocol"
           /\ RestTyped(b, data, end, n)
      BY <1>3, <2>13, ServerCompletes
    <2>15. s.cycle.writer = NoFraming
      BY <1>0 DEF Coherent, WriterMatches, local_state, state
    <2>16. b \in Connections(Wires) /\ Coherent(b)
      BY <1>3 DEF Accord, EndOK, Sound
    <2>17. HeadSent(s, b, h, r0) /\ head.wire \in Seq(Wires)
      BY <1>1, <1>3, <1>h DEF HeadSent
    <2>18. Joinable(s, head, b, e, h, r0)
      BY <1>3, <2>14, <2>15, <2>16, <2>17 DEF Joinable
    <2>19. RestTyped(b, data, end, n) /\ InTurn(head, data, end, t)
      BY <2>12, <2>14
    <2>20. Joined(s, head, e, h, n, t, g1, r0, r1)
      BY <2>13, <2>18, <2>19, CompleteJoins
    <2>21. Complete("server", t, h0, n) = WholeMessage(h, n)
      BY <1>1, <1>q, <2>14 DEF Complete, WholeMessage
    <2>22. g = g0 \o g1 /\ r = r0 \o r1
      BY <1>1, <1>q, <2>20, <2>21 DEF Joined
    <2>23. Added(w1, g1, xs) = Added(ws, g, xs)
      BY <1>0, <1>2, <1>3, <2>14, <2>22, AddedTwice
    <2>24. Added(p1, r1, xs) = Added(ps, r, xs)
      BY <1>0, <1>2, <1>3, <2>14, <2>22, AddedTwice
    <2> QED BY <2>14, <2>23, <2>24
  <1> QED BY <1>6, <1>7

----------------------------------------------------------------------------
(* Beginning the next cycle.                                                *)

(* An end that has begun its next cycle.                                    *)
Anew(c, e) ==
    /\ e.role = c.role /\ e.input = c.input /\ e.eof = c.eof
    /\ e.st.client = "Idle" /\ e.st.server = "Idle" /\ e.st.keep_alive
    /\ e.cycle.request_kind = None /\ ~e.cycle.waiting_for_continue

(* The cycle may be followed by another.                                    *)
Finished(c) == CanReuse(c)

(* An end after start_next_cycle.                                           *)
LEMMA AnewEnd ==
    ASSUME NEW role, NEW c, EndOK(c, role), Finished(c), NEW e, e = start_next_cycle(c)
    PROVE  EndOK(e, role) /\ Anew(c, e) /\ c.st.client = "Done" /\ c.st.server = "Done" /\ c.st.keep_alive
  <1>0. c \in Connections(Wires) /\ Sound(c) /\ c.role = role /\ c.held = 0
    BY DEF EndOK
  <1>1. e \in Connections(Wires) /\ Sound(e) /\ e.role = c.role /\ e.held = c.held /\ e.input = c.input
    BY <1>0, StartNextCycleEffect DEF Finished
  <1>2. e.st = new /\ e.cycle = DefaultCycle /\ e.eof = c.eof
    <2> HIDE DEF new, DefaultCycle
    <2> QED BY <1>0 DEF start_next_cycle, Connections
  <1>3. e.st.client = "Idle" /\ e.st.server = "Idle" /\ e.st.keep_alive
    BY <1>2 DEF new
  <1>4. e.cycle.request_kind = None /\ ~e.cycle.waiting_for_continue /\ e.cycle.writer = NoFraming
    BY <1>2 DEF DefaultCycle
  <1>5. c.st.client = "Done" /\ c.st.server = "Done" /\ c.st.keep_alive
    BY DEF Finished, CanReuse, CanStartNextCycle
  <1>6. EndOK(e, role)
    BY <1>0, <1>1, <1>4 DEF EndOK, WriterShape
  <1> QED BY <1>1, <1>2, <1>3, <1>4, <1>5, <1>6 DEF Anew

(* The client goes on: all that the server has sent was read.               *)
LEMMA ClientDrained ==
    ASSUME NEW c, NEW s, NEW w, NEW q, NEW broken, NEW a, NEW rk, NEW d, c.role = "client", c.st.server = "Done",
           Stream(d, rk, s, c, w, q, broken), DownMarks(c, s, d, a), EndOK(s, "server")
    PROVE  /\ HeadsOf(d) = {} /\ d.read = d.wrote
           /\ s.st.server = "SendBody" => s.cycle.writer = Fixed(0)
  <1>1. peer_state(c) # "SendBody"
    BY DEF peer_state, state, peer
  <1>2. HeadsOf(d) = {}
    BY DEF DownMarks
  <1>3. d.read = d.wrote
    BY <1>1, <1>2, HeadlessEmpty
  <1>4. ASSUME s.st.server = "SendBody" PROVE s.cycle.writer = Fixed(0)
    <2>1. local_state(s) = "SendBody" /\ s.cycle.writer # NoFraming
      BY <1>4 DEF EndOK, Sound, Coherent, WriterMatches, local_state, state
    <2>2. s.cycle.writer.kind # "Head"
      <3>1. PICK f : f = s.cycle.writer
        OBVIOUS
      <3>2. f = Chunked \/ f = CloseDelimited \/ \E n \in Nat : f = Fixed(n)
        BY <2>1, <3>1 DEF EndOK, WriterShape, IsFraming
      <3>3. f.kind # "Head"
        BY <3>2 DEF Chunked, CloseDelimited, Fixed
      <3> QED BY <3>1, <3>3
    <2> QED BY <1>1, <1>3, <2>1, <2>2, EmptyStream
  <1> QED BY <1>2, <1>3, <1>4

(* The client begins its next cycle: the invariant stays, with the client   *)
(* one cycle further.                                                       *)
LEMMA ClientGoesOn ==
    ASSUME NEW c, NEW s, NEW wc, NEW ws, NEW pc, NEW ps, NEW hc, NEW hs, NEW xc, NEW xs, NEW a,
           Accord(c, s, wc, ws, pc, ps, hc, hs, xc, xs, a), Finished(c), NEW e, e = start_next_cycle(c),
           NEW a2, a2 = a + 1
    PROVE  Accord(e, s, wc, ws, pc, ps, hc, hs, xc, xs, a2)
  <1>0. /\ EndOK(c, "client") /\ EndOK(s, "server") /\ c.role = "client"
        /\ ClientPhase(c) /\ ServerPhase(s) /\ SharedPhase(c, s, a)
    BY DEF Accord, EndOK, Phase
  <1>1. EndOK(e, "client") /\ Anew(c, e) /\ c.st.client = "Done" /\ c.st.server = "Done" /\ c.st.keep_alive
    BY <1>0, AnewEnd
  <1>2. Asked(c) /\ Begun(s, a)
    BY <1>0, <1>1 DEF ClientPhase, SharedPhase
  <1>3. a \in {-1, 0} /\ ~Begun(s, a2) /\ (a = -1 => a2 = 0 /\ s.cycle.request_kind = None)
        /\ (a = 0 => a2 = 1 /\ s.cycle.request_kind # None /\ Persists(s))
    BY <1>0, <1>1, <1>2 DEF Begun, SharedPhase
  <1>4. PICK rk : rk = c.cycle.request_kind
    OBVIOUS
  <1>5. PICK d : Stream(d, rk, s, c, ws, ps, xs) /\ DownMarks(c, s, d, a)
    BY <1>1, <1>4 DEF Accord, Down, Follow
  <1>6. HeadsOf(d) = {} /\ d.read = d.wrote /\ (s.st.server = "SendBody" => s.cycle.writer = Fixed(0))
    BY <1>0, <1>1, <1>5, ClientDrained
  <1>7. ~Asked(e) /\ e.role = "client" /\ e.st.server = "Idle" /\ ~e.cycle.waiting_for_continue
    BY <1>0, <1>1 DEF Asked, Anew
  <1>8. Phase(e, s, a2)
    <2>1. ClientPhase(e)
      BY <1>1, <1>7 DEF ClientPhase, Anew
    <2>2. SharedPhase(e, s, a2)
      BY <1>3, <1>6, <1>7 DEF SharedPhase
    <2> QED BY <1>0, <2>1, <2>2 DEF Phase
  <1>9. LineOK(e, s, wc, pc, hc, xc) /\ LineOK(s, e, ws, ps, hs, xs)
    BY <1>0, <1>1 DEF Accord, LineOK, Anew, local_state, state
  <1>10. ClientFault(e, s, ps, hs, xs, a2)
    BY <1>7 DEF ClientFault
  <1>11. Up(e, s, wc, pc, xc, a2)
    <2> SUFFICES ASSUME s.st.client # "Error"
                 PROVE  \E f : Stream(f, None, e, s, wc, pc, xc) /\ UpMarks(e, s, f, a2)
      BY DEF Up
    <2>1. PICK n : n = None
      OBVIOUS
    <2>2. PICK f : Stream(f, n, c, s, wc, pc, xc) /\ UpMarks(c, s, f, a)
      BY <2>1 DEF Accord, Up
    <2>3. SameFinish(c, e)
      BY <1>0, <1>1 DEF SameFinish, Anew, local_state, state
    <2>4. Stream(f, n, e, s, wc, pc, xc)
      BY <2>2, <2>3, StreamWriter
    <2>5. HeadsOf(f) = {}
      BY <1>2, <2>2 DEF UpMarks
    <2>6. UpMarks(e, s, f, a2)
      BY <1>7, <2>5 DEF UpMarks, WaitsAfterHead
    <2> QED BY <2>1, <2>4, <2>6
  <1>12. Down(e, s, ws, ps, xs, a2)
    <2>1. PICK rk2 : rk2 = e.cycle.request_kind
      OBVIOUS
    <2>2. Stream(d, rk2, s, c, ws, ps, xs)
      BY <1>5, <1>6, StreamAnew
    <2>3. SameStart(c, e) /\ e.input = c.input
      BY <1>0, <1>1 DEF SameStart, Anew, peer_state, state, peer
    <2>4. Stream(d, rk2, s, e, ws, ps, xs)
      BY <2>2, <2>3, StreamReader
    <2>5. DownMarks(e, s, d, a2)
      BY <1>3, <1>6, <1>7 DEF DownMarks, Proposals, WaitsKnown
    <2> QED BY <2>1, <2>4, <2>5 DEF Down
  <1> QED BY <1>0, <1>1, <1>8, <1>9, <1>10, <1>11, <1>12 DEF Accord

(* The answers under way when the server goes on.                           *)
LEMMA AnewKeepsResponse ==
    ASSUME NEW c, NEW s, NEW e, NEW a, a = 0, NEW a2, a2 = -1, NEW d, NEW i, NEW h, GoodResponse(c, s, d, a, i, h),
           s.st.server = "Done", s.st.keep_alive, e.st.server = "Idle"
    PROVE  GoodResponse(c, e, d, a2, i, h)
  <1>1. h.status # 101
    BY DEF GoodResponse, Switching
  <1>2. Answered(c, e, a2, h)
    BY DEF GoodResponse, Answered
  <1> QED BY <1>1, <1>2 DEF GoodResponse, Switching

(* What is under way to the client when the server begins its next cycle.   *)
LEMMA AnewMarks ==
    ASSUME NEW c, NEW s, NEW e, NEW a, NEW a2, NEW d, DownMarks(c, s, d, a), Begun(e, a2) <=> Begun(s, a),
           \/ a = 0 /\ a2 = -1 /\ Begun(s, a)
           \/ ~Begun(s, a) /\ d \in Flows,
           s.st.server = "Done", s.st.keep_alive, e.st.server = "Idle", ~s.cycle.waiting_for_continue
    PROVE  DownMarks(c, e, d, a2)
  <1>1. CASE a = 0 /\ a2 = -1 /\ Begun(s, a)
    <2>1. \A i \in HeadsOf(d) : GoodResponse(c, e, d, a2, i, d.sym[i].h)
      <3> SUFFICES ASSUME NEW i \in HeadsOf(d) PROVE GoodResponse(c, e, d, a2, i, d.sym[i].h)
        OBVIOUS
      <3>1. PICK h : h = d.sym[i].h
        OBVIOUS
      <3>2. GoodResponse(c, s, d, a, i, h)
        BY <3>1 DEF DownMarks
      <3> QED BY <1>1, <3>1, <3>2, AnewKeepsResponse
    <2>2. WaitsKnown(c, e, d, a2) /\ Proposals(c, e, d, a2)
      BY <1>1 DEF DownMarks, WaitsKnown, Proposals
    <2> QED BY <1>1, <2>1, <2>2 DEF DownMarks
  <1>2. CASE ~Begun(s, a) /\ d \in Flows
    <2>1. d.read = d.wrote
      BY <1>2 DEF DownMarks
    <2>2. HeadsOf(d) = {}
      <3>1. d.read \in Nat /\ d.wrote \in Nat
        BY <1>2, FlowTypes
      <3> QED BY <2>1, <3>1 DEF HeadsOf
    <2> QED BY <1>2, <2>1, <2>2 DEF DownMarks, Proposals, WaitsKnown
  <1> QED BY <1>1, <1>2

(* The server begins its next cycle: the invariant stays, with the server   *)
(* one cycle further.                                                       *)
LEMMA ServerGoesOn ==
    ASSUME NEW c, NEW s, NEW wc, NEW ws, NEW pc, NEW ps, NEW hc, NEW hs, NEW xc, NEW xs, NEW a,
           Accord(c, s, wc, ws, pc, ps, hc, hs, xc, xs, a), Finished(s), NEW e, e = start_next_cycle(s),
           NEW a2, a2 = a - 1
    PROVE  Accord(c, e, wc, ws, pc, ps, hc, hs, xc, xs, a2)
  <1>0. /\ EndOK(c, "client") /\ EndOK(s, "server") /\ s.role = "server"
        /\ ClientPhase(c) /\ ServerPhase(s) /\ SharedPhase(c, s, a)
    BY DEF Accord, EndOK, Phase
  <1>1. EndOK(e, "server") /\ Anew(s, e) /\ s.st.client = "Done" /\ s.st.server = "Done" /\ s.st.keep_alive
    BY <1>0, AnewEnd
  <1>2. s.cycle.request_kind # None
    BY <1>0, <1>1 DEF ServerPhase
  <1>3. \/ a = 0 /\ a2 = -1
        \/ a = 1 /\ a2 = 0
    BY <1>0, <1>2 DEF SharedPhase
  <1>4. e.role = "server" /\ e.st.server = "Idle" /\ e.st.client = "Idle" /\ e.cycle.request_kind = None
        /\ e.input = s.input /\ e.eof = s.eof
    BY <1>0, <1>1 DEF Anew
  <1>5. (Begun(e, a2) <=> Begun(s, a)) /\ (Begun(s, a) <=> a = 0)
    BY <1>2, <1>3, <1>4 DEF Begun
  <1>6. ~s.cycle.waiting_for_continue
    BY <1>0, <1>1 DEF EndOK, Sound, Coherent, WaitMatches
  <1>7. Phase(c, e, a2)
    <2>1. ServerPhase(e)
      BY <1>4 DEF ServerPhase
    <2>2. CASE a = 0 /\ a2 = -1
      <3>1. Asked(c) /\ (c.st.keep_alive \/ c.eof) /\ c.st.server # "SwitchedProtocol"
        BY <1>0, <1>1, <1>5, <2>2 DEF SharedPhase
      <3> QED BY <1>0, <1>4, <2>1, <2>2, <3>1 DEF Phase, SharedPhase, Begun
    <2>3. CASE a = 1 /\ a2 = 0
      <3>1. ~Begun(s, a) /\ ~Begun(e, a2)
        BY <1>5, <2>3
      <3>2. c.st.server \in {"Idle", "SendResponse", "MustClose", "Closed", "Error"}
        BY <1>0, <3>1 DEF SharedPhase
      <3>3. SharedPhase(c, e, a2)
        BY <2>3, <3>1, <3>2 DEF SharedPhase
      <3> QED BY <1>0, <2>1, <3>3 DEF Phase
    <2> QED BY <1>3, <2>2, <2>3
  <1>8. LineOK(c, e, wc, pc, hc, xc) /\ LineOK(e, c, ws, ps, hs, xs)
    BY <1>0, <1>1, <1>4 DEF Accord, LineOK, local_state, state
  <1>9. ServerFault(e, xc) /\ ClientFault(c, e, ps, hs, xs, a2)
    BY <1>4, <1>5 DEF Accord, ServerFault, ClientFault
  <1>10. Up(c, e, wc, pc, xc, a2)
    <2>1. PICK n : n = None
      OBVIOUS
    <2>2. PICK f : Stream(f, n, c, s, wc, pc, xc) /\ UpMarks(c, s, f, a)
      BY <1>1, <2>1 DEF Accord, Up
    <2>3. SameStart(s, e)
      BY <1>0, <1>1, <1>4 DEF SameStart, peer_state, state, peer
    <2>4. Stream(f, n, c, e, wc, pc, xc)
      BY <1>4, <2>2, <2>3, StreamReader
    <2>5. SameHeads(f, f) /\ WaitsAfterHead(c, f)
      BY <2>2, SameHeadsItself DEF UpMarks
    <2>6. UpMarks(c, e, f, a2)
      BY <1>5, <2>2, <2>5, ServerStepUp
    <2> QED BY <2>1, <2>4, <2>6 DEF Up
  <1>11. Down(c, e, ws, ps, xs, a2)
    <2> SUFFICES ASSUME c.st.server \in Follow
                 PROVE  \E d : Stream(d, c.cycle.request_kind, e, c, ws, ps, xs) /\ DownMarks(c, e, d, a2)
      BY DEF Down
    <2>1. PICK rk : rk = c.cycle.request_kind
      OBVIOUS
    <2>2. PICK d : Stream(d, rk, s, c, ws, ps, xs) /\ DownMarks(c, s, d, a)
      BY <2>1 DEF Accord, Down
    <2>3. SameFinish(s, e)
      BY <1>0, <1>1, <1>4 DEF SameFinish, local_state, state
    <2>4. Stream(d, rk, e, c, ws, ps, xs)
      BY <2>2, <2>3, StreamWriter
    <2>5. d \in Flows
      BY <2>2, StreamOrder
    <2>6. \/ a = 0 /\ a2 = -1 /\ Begun(s, a)
          \/ ~Begun(s, a) /\ d \in Flows
      BY <1>3, <1>5, <2>5
    <2>7. DownMarks(c, e, d, a2)
      BY <1>1, <1>4, <1>5, <1>6, <2>2, <2>6, AnewMarks
    <2> QED BY <2>1, <2>4, <2>7
  <1> QED BY <1>0, <1>1, <1>7, <1>8, <1>9, <1>10, <1>11 DEF Accord

----------------------------------------------------------------------------
(* Two new connections.                                                     *)

(* A flow in which nothing was written yet.                                 *)
Blank(d) ==
    /\ d \in Flows /\ d.read = 0 /\ d.came = 0 /\ d.wrote = 0 /\ d.told = 0 /\ d.due = 0 /\ d.said = 0
    /\ d.place[1] = Place("Head", 0, 0)

(* There is such a flow.                                                    *)
LEMMA BlankFlow == \E d : Blank(d)
  <1>1. PICK x : x = Symbol("byte")
    OBVIOUS
  <1>2. PICK p : p = Place("Head", 0, 0)
    OBVIOUS
  <1>3. PICK m : m = EndItem
    OBVIOUS
  <1>4. x \in Wires /\ m \in Items
    BY <1>1, <1>3, SymbolKinds, ItemKinds
  <1>5. p \in Places
    BY <1>2 DEF Place, Places, PlaceKinds
  <1>6. PICK d : d = [sym |-> [i \in Nat |-> x], place |-> [i \in Nat |-> p], item |-> [i \in Nat |-> m],
                      read |-> 0, came |-> 0, wrote |-> 0, told |-> 0, due |-> 0, said |-> 0]
    OBVIOUS
  <1>7. d \in Flows
    BY <1>4, <1>5, <1>6 DEF Flows
  <1>8. d.place[1] = p
    BY <1>6
  <1> QED BY <1>2, <1>6, <1>7, <1>8 DEF Blank

(* An end before its first call.                                            *)
Unused(e, role) ==
    /\ EndOK(e, role) /\ e.input = <<>> /\ ~e.eof
    /\ e.st.client = "Idle" /\ e.st.server = "Idle" /\ e.st.keep_alive
    /\ e.cycle.request_kind = None /\ ~e.cycle.waiting_for_continue

(* A new connection is one.                                                 *)
LEMMA NewUnused ==
    ASSUME NEW role \in Roles, NEW e, e = NewConnection(role, FALSE)
    PROVE  Unused(e, role)
  <1>1. PICK b \in BOOLEAN : b = FALSE
    OBVIOUS
  <1>2. e = NewConnection(role, b)
    BY <1>1
  <1>3. e \in Connections(Wires) /\ Sound(e)
    BY <1>2, NewConnectionTyped, NewConnectionSound
  <1>4. e.st = new /\ e.cycle = DefaultCycle /\ e.input = <<>> /\ e.held = 0 /\ ~e.eof /\ e.role = role
    BY <1>2 DEF NewConnection
  <1>5. PICK t : t = new
    OBVIOUS
  <1>6. PICK k : k = DefaultCycle
    OBVIOUS
  <1>7. t.client = "Idle" /\ t.server = "Idle" /\ t.keep_alive
    BY <1>5 DEF new
  <1>8. k.request_kind = None /\ ~k.waiting_for_continue /\ k.writer = NoFraming
    BY <1>6 DEF DefaultCycle
  <1>9. e.st = t /\ e.cycle = k
    BY <1>4, <1>5, <1>6
  <1> QED BY <1>3, <1>4, <1>7, <1>8, <1>9 DEF Unused, EndOK, WriterShape

(* It joins two new ends.                                                   *)
LEMMA BlankStream ==
    ASSUME NEW d, Blank(d), NEW rk, NEW from, NEW to, NEW r1, NEW r2, Unused(from, r1), Unused(to, r2),
           NEW w, w = <<>>, NEW q, q = <<>>, NEW broken
    PROVE  Stream(d, rk, from, to, w, q, broken) /\ HeadsOf(d) = {} /\ d.read = d.wrote
  <1>1. local_state(from) = "Idle" /\ peer_state(to) = "Idle"
    BY DEF Unused, local_state, peer_state, state
  <1>2. d \in Flows /\ Bounds(d)
    BY DEF Blank, Bounds, Place
  <1>3. Runs(d, rk)
    <2>1. d.read + 1 = 1 /\ d.wrote + 1 = 1 /\ d.wrote = 0
      BY DEF Blank
    <2>2. \A i, j \in 1..1 : d.place[i].at <= d.place[j].at
      BY DEF Blank, Place
    <2>3. \A i \in 1..0 : FALSE
      OBVIOUS
    <2> QED BY <2>1, <2>2, <2>3 DEF Runs
  <1>4. Starts(d, to)
    BY <1>1 DEF Blank, Starts
  <1>5. Finishing(d, from)
    BY <1>1 DEF Blank, Finishing
  <1>6. to.input \o w = <<>>
    BY DEF Unused
  <1>7. PICK t : t = to.input \o w
    OBVIOUS
  <1>8. Carries(d, t, q, broken)
    BY <1>6, <1>7 DEF Blank, Carries
  <1>9. HeadsOf(d) = {} /\ d.read = d.wrote
    BY DEF HeadsOf, Blank
  <1> QED BY <1>2, <1>3, <1>4, <1>5, <1>7, <1>8, <1>9 DEF Stream

(* Two new ends satisfy the invariant.                                      *)
LEMMA AccordInit ==
    ASSUME NEW c, NEW s, NEW wc, NEW ws, NEW pc, NEW ps, NEW hc, NEW hs, NEW xc, NEW xs, NEW a,
           Unused(c, "client"), Unused(s, "server"),
           wc = <<>>, ws = <<>>, pc = <<>>, ps = <<>>, ~hc, ~hs, ~xc, ~xs, a = 0
    PROVE  Accord(c, s, wc, ws, pc, ps, hc, hs, xc, xs, a)
  <1>1. PICK d : Blank(d)
    BY BlankFlow
  <1>2. PICK r1 : r1 = "client"
    OBVIOUS
  <1>3. PICK r2 : r2 = "server"
    OBVIOUS
  <1>4. Unused(c, r1) /\ Unused(s, r2)
    BY <1>2, <1>3
  <1>5. PICK n : n = None
    OBVIOUS
  <1>6. PICK k : k = c.cycle.request_kind
    OBVIOUS
  <1>7. Stream(d, n, c, s, wc, pc, xc) /\ HeadsOf(d) = {} /\ d.read = d.wrote
    BY <1>1, <1>4, BlankStream
  <1>8. Stream(d, k, s, c, ws, ps, xs)
    BY <1>1, <1>4, BlankStream
  <1>9. ~Asked(c) /\ ~Begun(s, a)
    BY DEF Asked, Begun, Unused
  <1>10. Phase(c, s, a)
    <2>1. ClientPhase(c) /\ ServerPhase(s)
      BY <1>9 DEF ClientPhase, ServerPhase, Unused
    <2>2. SharedPhase(c, s, a)
      BY <1>9 DEF SharedPhase, Unused
    <2> QED BY <2>1, <2>2 DEF Phase
  <1>11. UpMarks(c, s, d, a) /\ DownMarks(c, s, d, a)
    BY <1>7, <1>9 DEF UpMarks, WaitsAfterHead, DownMarks, Proposals, WaitsKnown, Unused
  <1>12. Up(c, s, wc, pc, xc, a) /\ Down(c, s, ws, ps, xs, a)
    BY <1>5, <1>6, <1>7, <1>8, <1>11 DEF Up, Down
  <1>13. wc \in Seq(Wires) /\ ws \in Seq(Wires) /\ pc \in Seq(Items) /\ ps \in Seq(Items)
    BY EmptySeq
  <1>14. LineOK(c, s, wc, pc, hc, xc) /\ LineOK(s, c, ws, ps, hs, xs)
    BY <1>13 DEF LineOK, Unused
  <1>15. ServerFault(s, xc) /\ ClientFault(c, s, ps, hs, xs, a)
    BY DEF ServerFault, ClientFault, Unused
  <1>16. EndOK(c, "client") /\ EndOK(s, "server")
    BY DEF Unused
  <1> QED BY <1>10, <1>12, <1>14, <1>15, <1>16 DEF Accord

----------------------------------------------------------------------------
(* The invariant, of the variables.                                         *)

(* A value for each of the two roles.                                       *)
Pair(f) == f = [r \in Roles |-> f[r]]

(* The client's value is replaced.                                          *)
PutC(f, v) == [f EXCEPT !["client"] = v]

(* The server's value is replaced.                                          *)
PutS(f, v) == [f EXCEPT !["server"] = v]

(* Replacing the client's value leaves the server's.                        *)
LEMMA PutClient ==
    ASSUME NEW f, Pair(f), NEW v, NEW f2, f2 = PutC(f, v)
    PROVE  Pair(f2) /\ f2["client"] = v /\ f2["server"] = f["server"]
  BY DEF Pair, PutC, Roles

(* Replacing the server's value leaves the client's.                        *)
LEMMA PutServer ==
    ASSUME NEW f, Pair(f), NEW v, NEW f2, f2 = PutS(f, v)
    PROVE  Pair(f2) /\ f2["server"] = v /\ f2["client"] = f["client"]
  BY DEF Pair, PutS, Roles

(* The invariant of the exchange, of the values of its variables.           *)
World(E, W, P, H, X, a) ==
    /\ Pair(E) /\ Pair(W) /\ Pair(P) /\ Pair(H) /\ Pair(X)
    /\ Accord(E["client"], E["server"], W["client"], W["server"], P["client"], P["server"],
         H["client"], H["server"], X["client"], X["server"], a)

(* The invariant, of a value of its own for each part.                      *)
LEMMA WorldParts ==
    ASSUME NEW E, NEW W, NEW P, NEW H, NEW X, NEW a, World(E, W, P, H, X, a)
    PROVE  \E c, s, wc, ws, pc, ps, hc, hs, xc, xs :
              /\ c = E["client"] /\ s = E["server"] /\ wc = W["client"] /\ ws = W["server"]
              /\ pc = P["client"] /\ ps = P["server"] /\ hc = H["client"] /\ hs = H["server"]
              /\ xc = X["client"] /\ xs = X["server"]
              /\ Accord(c, s, wc, ws, pc, ps, hc, hs, xc, xs, a)
  BY DEF World

(* The client writes.                                                       *)
LEMMA ClientWrote ==
    ASSUME NEW E, NEW W, NEW P, NEW H, NEW X, NEW a, World(E, W, P, H, X, a),
           NEW e, NEW g, NEW r,
           Accord(e, E["server"], Added(W["client"], g, X["client"]), W["server"],
             Added(P["client"], r, X["client"]), P["server"],
             H["client"], H["server"], X["client"], X["server"], a),
           NEW E2, E2 = PutC(E, e), NEW W2, W2 = PutC(W, Added(W["client"], g, X["client"])),
           NEW P2, P2 = PutC(P, Added(P["client"], r, X["client"]))
    PROVE  World(E2, W2, P2, H, X, a)
  <1>1. Pair(E2) /\ E2["client"] = e /\ E2["server"] = E["server"]
    BY PutClient DEF World
  <1>2. PICK w : w = Added(W["client"], g, X["client"])
    OBVIOUS
  <1>3. PICK p : p = Added(P["client"], r, X["client"])
    OBVIOUS
  <1>4. Pair(W2) /\ W2["client"] = w /\ W2["server"] = W["server"]
    BY <1>2, PutClient DEF World
  <1>5. Pair(P2) /\ P2["client"] = p /\ P2["server"] = P["server"]
    BY <1>3, PutClient DEF World
  <1> QED BY <1>1, <1>2, <1>3, <1>4, <1>5 DEF World

(* The server writes.                                                       *)
LEMMA ServerWrote ==
    ASSUME NEW E, NEW W, NEW P, NEW H, NEW X, NEW a, World(E, W, P, H, X, a),
           NEW e, NEW g, NEW r,
           Accord(E["client"], e, W["client"], Added(W["server"], g, X["server"]),
             P["client"], Added(P["server"], r, X["server"]),
             H["client"], H["server"], X["client"], X["server"], a),
           NEW E2, E2 = PutS(E, e), NEW W2, W2 = PutS(W, Added(W["server"], g, X["server"])),
           NEW P2, P2 = PutS(P, Added(P["server"], r, X["server"]))
    PROVE  World(E2, W2, P2, H, X, a)
  <1>1. Pair(E2) /\ E2["server"] = e /\ E2["client"] = E["client"]
    BY PutServer DEF World
  <1>2. PICK w : w = Added(W["server"], g, X["server"])
    OBVIOUS
  <1>3. PICK p : p = Added(P["server"], r, X["server"])
    OBVIOUS
  <1>4. Pair(W2) /\ W2["server"] = w /\ W2["client"] = W["client"]
    BY <1>2, PutServer DEF World
  <1>5. Pair(P2) /\ P2["server"] = p /\ P2["client"] = P["client"]
    BY <1>3, PutServer DEF World
  <1> QED BY <1>1, <1>2, <1>3, <1>4, <1>5 DEF World

(* The inductive invariant of Exchange.                                     *)
Inv == /\ setting \in DOMAIN Settings /\ ~garbled
       /\ World(ends, wire, pending, shut, cut, ahead)

(* What a call that writes changes.                                         *)
LEMMA ClientWriteIs ==
    ASSUME Inv, NEW sent, NEW items \in Seq(Items), Write("client", sent, items), UNCHANGED setting,
           NEW r, r = items \o EndsWith(ends["client"], sent.c)
    PROVE  /\ sent.ok /\ ~shut["client"] /\ setting' \in DOMAIN Settings /\ ~garbled'
           /\ ends' = PutC(ends, sent.c)
           /\ wire' = PutC(wire, Added(wire["client"], sent.wire, cut["client"]))
           /\ pending' = PutC(pending, Added(pending["client"], r, cut["client"]))
           /\ shut' = shut /\ cut' = cut /\ ahead' = ahead
  <1>1. pending["client"] \in Seq(Items)
    BY DEF Inv, World, Accord, LineOK
  <1>2. PICK k : k = EndsWith(ends["client"], sent.c)
    OBVIOUS
  <1>3. k \in Seq(Items)
    <2>1. EndItem \in Items
      BY ItemKinds
    <2> QED BY <1>2, <2>1 DEF EndsWith
  <1>4. PICK q : q = pending["client"]
    OBVIOUS
  <1>q. q \in Seq(Items)
    BY <1>1, <1>4
  <1>5. (q \o items) \o k = q \o (items \o k)
    BY <1>q, <1>3, ConcatAssociative
  <1>6. pending["client"] \o items \o EndsWith(ends["client"], sent.c) = pending["client"] \o r
    BY <1>2, <1>4, <1>5
  <1>7. pending' = PutC(pending, Added(pending["client"], r, cut["client"]))
    <2>1. PICK v : v = Added(pending["client"], r, cut["client"])
      OBVIOUS
    <2>2. v = IF cut["client"] THEN pending["client"]
              ELSE pending["client"] \o items \o EndsWith(ends["client"], sent.c)
      BY <1>6, <2>1 DEF Added
    <2>3. pending' = [pending EXCEPT !["client"] = v]
      BY <2>2 DEF Write
    <2> QED BY <2>1, <2>3 DEF PutC
  <1>8. wire' = PutC(wire, Added(wire["client"], sent.wire, cut["client"]))
    BY DEF Write, PutC, Added
  <1>9. ends' = PutC(ends, sent.c)
    BY DEF Write, PutC
  <1>10. sent.ok /\ ~shut["client"]
    BY DEF Write, Writable
  <1>11. setting' \in DOMAIN Settings /\ ~garbled' /\ shut' = shut /\ cut' = cut /\ ahead' = ahead
    BY DEF Write, Inv
  <1> QED BY <1>7, <1>8, <1>9, <1>10, <1>11

(* What a write of the server changes.                                      *)
LEMMA ServerWriteIs ==
    ASSUME Inv, NEW sent, NEW items \in Seq(Items), Write("server", sent, items), UNCHANGED setting,
           NEW r, r = items \o EndsWith(ends["server"], sent.c)
    PROVE  /\ sent.ok /\ ~shut["server"] /\ setting' \in DOMAIN Settings /\ ~garbled'
           /\ ends' = PutS(ends, sent.c)
           /\ wire' = PutS(wire, Added(wire["server"], sent.wire, cut["server"]))
           /\ pending' = PutS(pending, Added(pending["server"], r, cut["server"]))
           /\ shut' = shut /\ cut' = cut /\ ahead' = ahead
  <1>1. pending["server"] \in Seq(Items)
    BY DEF Inv, World, Accord, LineOK
  <1>2. PICK k : k = EndsWith(ends["server"], sent.c)
    OBVIOUS
  <1>3. k \in Seq(Items)
    <2>1. EndItem \in Items
      BY ItemKinds
    <2> QED BY <1>2, <2>1 DEF EndsWith
  <1>4. PICK q : q = pending["server"]
    OBVIOUS
  <1>q. q \in Seq(Items)
    BY <1>1, <1>4
  <1>5. (q \o items) \o k = q \o (items \o k)
    BY <1>q, <1>3, ConcatAssociative
  <1>6. pending["server"] \o items \o EndsWith(ends["server"], sent.c) = pending["server"] \o r
    BY <1>2, <1>4, <1>5
  <1>7. pending' = PutS(pending, Added(pending["server"], r, cut["server"]))
    <2>1. PICK v : v = Added(pending["server"], r, cut["server"])
      OBVIOUS
    <2>2. v = IF cut["server"] THEN pending["server"]
              ELSE pending["server"] \o items \o EndsWith(ends["server"], sent.c)
      BY <1>6, <2>1 DEF Added
    <2>3. pending' = [pending EXCEPT !["server"] = v]
      BY <2>2 DEF Write
    <2> QED BY <2>1, <2>3 DEF PutS
  <1>8. wire' = PutS(wire, Added(wire["server"], sent.wire, cut["server"]))
    BY DEF Write, PutS, Added
  <1>9. ends' = PutS(ends, sent.c)
    BY DEF Write, PutS
  <1>10. sent.ok /\ ~shut["server"]
    BY DEF Write, Writable
  <1>11. setting' \in DOMAIN Settings /\ ~garbled' /\ shut' = shut /\ cut' = cut /\ ahead' = ahead
    BY DEF Write, Inv
  <1> QED BY <1>7, <1>8, <1>9, <1>10, <1>11

(* An end that may be closed, or told of the end.                           *)
LEMMA ClientTurns ==
    ASSUME NEW E, NEW W, NEW P, NEW H, NEW X, NEW a, World(E, W, P, H, X, a), NEW e, NEW b,
           Accord(e, E["server"], W["client"], W["server"], P["client"], P["server"],
             H["client"], H["server"], X["client"], X["server"], b),
           NEW E2, E2 = PutC(E, e)
    PROVE  World(E2, W, P, H, X, b)
  <1>1. Pair(E2) /\ E2["client"] = e /\ E2["server"] = E["server"]
    BY PutClient DEF World
  <1> QED BY <1>1 DEF World

(* The same for the server.                                                 *)
LEMMA ServerTurns ==
    ASSUME NEW E, NEW W, NEW P, NEW H, NEW X, NEW a, World(E, W, P, H, X, a), NEW e, NEW b,
           Accord(E["client"], e, W["client"], W["server"], P["client"], P["server"],
             H["client"], H["server"], X["client"], X["server"], b),
           NEW E2, E2 = PutS(E, e)
    PROVE  World(E2, W, P, H, X, b)
  <1>1. Pair(E2) /\ E2["server"] = e /\ E2["client"] = E["client"]
    BY PutServer DEF World
  <1> QED BY <1>1 DEF World

----------------------------------------------------------------------------
(* The actions that send.                                                   *)

(* The invariant after a write of the client.                               *)
ClientWritten(sent, r) ==
    Accord(sent.c, ends["server"], Added(wire["client"], sent.wire, cut["client"]), wire["server"],
      Added(pending["client"], r, cut["client"]), pending["server"],
      shut["client"], shut["server"], cut["client"], cut["server"], ahead)

(* A write of the client that keeps Accord keeps the invariant.             *)
LEMMA ClientWriteKeeps ==
    ASSUME Inv, UNCHANGED setting, NEW sent, NEW items \in Seq(Items), Write("client", sent, items),
           NEW r, r = items \o EndsWith(ends["client"], sent.c), ClientWritten(sent, r)
    PROVE  Inv'
  <1>1. /\ setting' \in DOMAIN Settings /\ ~garbled'
        /\ ends' = PutC(ends, sent.c)
        /\ wire' = PutC(wire, Added(wire["client"], sent.wire, cut["client"]))
        /\ pending' = PutC(pending, Added(pending["client"], r, cut["client"]))
        /\ shut' = shut /\ cut' = cut /\ ahead' = ahead
    BY ClientWriteIs
  <1>2. World(ends, wire, pending, shut, cut, ahead)
    BY DEF Inv
  <1>3. PICK E2 : E2 = ends'
    OBVIOUS
  <1>4. PICK W2 : W2 = wire'
    OBVIOUS
  <1>5. PICK P2 : P2 = pending'
    OBVIOUS
  <1>6. PICK e : e = sent.c
    OBVIOUS
  <1>7. PICK g : g = sent.wire
    OBVIOUS
  <1>8. World(E2, W2, P2, shut, cut, ahead)
    BY <1>1, <1>2, <1>3, <1>4, <1>5, <1>6, <1>7, ClientWrote DEF ClientWritten
  <1> QED BY <1>1, <1>3, <1>4, <1>5, <1>8 DEF Inv

(* The invariant after a write of the server.                               *)
ServerWritten(sent, r) ==
    Accord(ends["client"], sent.c, wire["client"], Added(wire["server"], sent.wire, cut["server"]),
      pending["client"], Added(pending["server"], r, cut["server"]),
      shut["client"], shut["server"], cut["client"], cut["server"], ahead)

(* A write of the server that keeps Accord keeps the invariant.             *)
LEMMA ServerWriteKeeps ==
    ASSUME Inv, UNCHANGED setting, NEW sent, NEW items \in Seq(Items), Write("server", sent, items),
           NEW r, r = items \o EndsWith(ends["server"], sent.c), ServerWritten(sent, r)
    PROVE  Inv'
  <1>1. /\ setting' \in DOMAIN Settings /\ ~garbled'
        /\ ends' = PutS(ends, sent.c)
        /\ wire' = PutS(wire, Added(wire["server"], sent.wire, cut["server"]))
        /\ pending' = PutS(pending, Added(pending["server"], r, cut["server"]))
        /\ shut' = shut /\ cut' = cut /\ ahead' = ahead
    BY ServerWriteIs
  <1>2. World(ends, wire, pending, shut, cut, ahead)
    BY DEF Inv
  <1>3. PICK E2 : E2 = ends'
    OBVIOUS
  <1>4. PICK W2 : W2 = wire'
    OBVIOUS
  <1>5. PICK P2 : P2 = pending'
    OBVIOUS
  <1>6. PICK e : e = sent.c
    OBVIOUS
  <1>7. PICK g : g = sent.wire
    OBVIOUS
  <1>8. World(E2, W2, P2, shut, cut, ahead)
    BY <1>1, <1>2, <1>3, <1>4, <1>5, <1>6, <1>7, ServerWrote DEF ServerWritten
  <1> QED BY <1>1, <1>3, <1>4, <1>5, <1>8 DEF Inv

(* The heads and trailers the callers may send.                             *)
LEMMA CallersSend ==
    ASSUME Inv
    PROVE  /\ \A h \in Requests : Sendable(h, "request")
           /\ \A h \in Responses : Sendable(h, "response")
           /\ \A t \in Trailers : t \in Seq(STRING) /\ Len(t) < MaxHead
           /\ MaxData \in Nat
  BY ExchangeAssumption DEF Inv, Requests, Responses, Trailers, MaxData, Sendable

(* A head that may be sent is an item.                                      *)
LEMMA HeadItemTyped ==
    ASSUME NEW h, NEW kind, Sendable(h, kind)
    PROVE  <<HeadItem(h)>> \in Seq(Items)
  <1>1. HeadItem(h) \in Items
    BY ItemKinds DEF Sendable
  <1> QED BY <1>1

(* The invariant of named values.                                           *)
LEMMA InvParts ==
    ASSUME Inv
    PROVE  \E c, s, wc, ws, pc, ps, hc, hs, xc, xs, a :
              /\ c = ends["client"] /\ s = ends["server"] /\ wc = wire["client"] /\ ws = wire["server"]
              /\ pc = pending["client"] /\ ps = pending["server"] /\ hc = shut["client"] /\ hs = shut["server"]
              /\ xc = cut["client"] /\ xs = cut["server"] /\ a = ahead
              /\ Accord(c, s, wc, ws, pc, ps, hc, hs, xc, xs, a)
  BY DEF Inv, World

(* SendRequest keeps the invariant.                                         *)
LEMMA SendRequestKeeps ==
    ASSUME Inv, UNCHANGED setting, NEW h \in Requests, SendRequest(h)
    PROVE  Inv'
  <1>1. Sendable(h, "request")
    BY CallersSend
  <1>2. PICK c, s, wc, ws, pc, ps, hc, hs, xc, xs, a :
           /\ c = ends["client"] /\ s = ends["server"] /\ wc = wire["client"] /\ ws = wire["server"]
           /\ pc = pending["client"] /\ ps = pending["server"] /\ hc = shut["client"] /\ hs = shut["server"]
           /\ xc = cut["client"] /\ xs = cut["server"] /\ a = ahead
           /\ Accord(c, s, wc, ws, pc, ps, hc, hs, xc, xs, a)
    BY InvParts
  <1>3. PICK t : t = send_request(c, h)
    OBVIOUS
  <1>4. PICK items : items = <<HeadItem(h)>>
    OBVIOUS
  <1>5. items \in Seq(Items)
    BY <1>1, <1>4, HeadItemTyped
  <1>6. Write("client", t, items)
    BY <1>2, <1>3, <1>4 DEF SendRequest
  <1>7. PICK e : e = t.c
    OBVIOUS
  <1>8. PICK g : g = t.wire
    OBVIOUS
  <1>9. PICK r : r = items \o EndsWith(c, e)
    OBVIOUS
  <1>10. t.ok /\ ~hc
    BY <1>2, <1>6 DEF Write, Writable
  <1>11. Accord(e, s, Added(wc, g, xc), ws, Added(pc, r, xc), ps, hc, hs, xc, xs, a)
    BY <1>1, <1>2, <1>3, <1>4, <1>7, <1>8, <1>9, <1>10, ClientSendsRequest
  <1>12. ClientWritten(t, r)
    BY <1>2, <1>7, <1>8, <1>11 DEF ClientWritten
  <1>13. r = items \o EndsWith(ends["client"], t.c)
    BY <1>2, <1>7, <1>9
  <1> QED BY <1>5, <1>6, <1>12, <1>13, ClientWriteKeeps

(* The items of a complete message.                                         *)
LEMMA CompleteTyped ==
    ASSUME NEW h, NEW kind, Sendable(h, kind), NEW n \in Nat, NEW role, NEW t
    PROVE  Complete(role, t, h, n) \in Seq(Items)
  <1>1. PICK x : x = <<HeadItem(h)>>
    OBVIOUS
  <1>2. x \in Seq(Items)
    BY <1>1, HeadItemTyped
  <1>3. PICK y : y = Append(Bytes(n), EndItem)
    OBVIOUS
  <1>4. y \in Seq(Items)
    BY <1>3, BytesTyped, ItemKinds, AppendProperties
  <1>5. PICK z : z = IF local_state(t.c) = "SwitchedProtocol" THEN <<>> ELSE y
    OBVIOUS
  <1>6. z \in Seq(Items)
    BY <1>4, <1>5
  <1>7. Complete(role, t, h, n) = x \o z
    BY <1>1, <1>3, <1>5 DEF Complete
  <1> QED BY <1>2, <1>6, <1>7, ConcatProperties

(* SendRequestWithBody keeps the invariant.                                 *)
LEMMA SendRequestWithBodyKeeps ==
    ASSUME Inv, UNCHANGED setting, NEW h \in Requests, NEW n \in 0..MaxData, SendRequestWithBody(h, n)
    PROVE  Inv'
  <1>1. Sendable(h, "request") /\ n \in Nat
    BY CallersSend
  <1>2. PICK c, s, wc, ws, pc, ps, hc, hs, xc, xs, a :
           /\ c = ends["client"] /\ s = ends["server"] /\ wc = wire["client"] /\ ws = wire["server"]
           /\ pc = pending["client"] /\ ps = pending["server"] /\ hc = shut["client"] /\ hs = shut["server"]
           /\ xc = cut["client"] /\ xs = cut["server"] /\ a = ahead
           /\ Accord(c, s, wc, ws, pc, ps, hc, hs, xc, xs, a)
    BY InvParts
  <1>3. PICK t : t = send_request_with_body(c, h, n)
    OBVIOUS
  <1>4. PICK items : items = Complete("client", t, h, n)
    OBVIOUS
  <1>5. items \in Seq(Items)
    BY <1>1, <1>4, CompleteTyped
  <1>6. Write("client", t, items)
    BY <1>2, <1>3, <1>4 DEF SendRequestWithBody
  <1>7. PICK e : e = t.c
    OBVIOUS
  <1>8. PICK g : g = t.wire
    OBVIOUS
  <1>9. PICK r : r = items \o EndsWith(c, e)
    OBVIOUS
  <1>10. t.ok /\ ~hc
    BY <1>2, <1>6 DEF Write, Writable
  <1>p. RequestSent(c, h, n, t, e, g, r)
    BY <1>1, <1>3, <1>4, <1>7, <1>8, <1>9, <1>10 DEF RequestSent
  <1>11. Accord(e, s, Added(wc, g, xc), ws, Added(pc, r, xc), ps, hc, hs, xc, xs, a)
    BY <1>2, <1>10, <1>p, ClientSendsComplete
  <1>12. ClientWritten(t, r)
    BY <1>2, <1>7, <1>8, <1>11 DEF ClientWritten
  <1>13. r = items \o EndsWith(ends["client"], t.c)
    BY <1>2, <1>7, <1>9
  <1> QED BY <1>5, <1>6, <1>12, <1>13, ClientWriteKeeps

(* SendInformationalResponse keeps the invariant.                           *)
LEMMA SendInformationalKeeps ==
    ASSUME Inv, UNCHANGED setting, NEW h \in Responses, SendInformationalResponse(h)
    PROVE  Inv'
  <1>1. Sendable(h, "response")
    BY CallersSend
  <1>2. PICK c, s, wc, ws, pc, ps, hc, hs, xc, xs, a :
           /\ c = ends["client"] /\ s = ends["server"] /\ wc = wire["client"] /\ ws = wire["server"]
           /\ pc = pending["client"] /\ ps = pending["server"] /\ hc = shut["client"] /\ hs = shut["server"]
           /\ xc = cut["client"] /\ xs = cut["server"] /\ a = ahead
           /\ Accord(c, s, wc, ws, pc, ps, hc, hs, xc, xs, a)
    BY InvParts
  <1>3. PICK t : t = send_informational_response(s, h)
    OBVIOUS
  <1>4. PICK items : items = <<HeadItem(h)>>
    OBVIOUS
  <1>5. items \in Seq(Items)
    BY <1>1, <1>4, HeadItemTyped
  <1>6. Write("server", t, items)
    BY <1>2, <1>3, <1>4 DEF SendInformationalResponse
  <1>7. PICK e : e = t.c
    OBVIOUS
  <1>8. PICK g : g = t.wire
    OBVIOUS
  <1>9. PICK r : r = items \o EndsWith(s, e)
    OBVIOUS
  <1>10. t.ok /\ ~hs
    BY <1>2, <1>6 DEF Write, Writable
  <1>a. s.st.server = "SendResponse"
    <2>1. local_state(s) = "SendResponse" /\ s.role = "server"
      BY <1>2 DEF SendInformationalResponse, Answering, Accord, EndOK
    <2> QED BY <2>1 DEF local_state, state
  <1>p. InformationSent(s, h, e, g, r)
    BY <1>1, <1>3, <1>4, <1>7, <1>8, <1>9, <1>10 DEF InformationSent
  <1>11. Accord(c, e, wc, Added(ws, g, xs), pc, Added(ps, r, xs), hc, hs, xc, xs, a)
    BY <1>2, <1>10, <1>p, <1>a, ServerInforms
  <1>12. ServerWritten(t, r)
    BY <1>2, <1>7, <1>8, <1>11 DEF ServerWritten
  <1>13. r = items \o EndsWith(ends["server"], t.c)
    BY <1>2, <1>7, <1>9
  <1> QED BY <1>5, <1>6, <1>12, <1>13, ServerWriteKeeps

(* SendResponse keeps the invariant.                                        *)
LEMMA SendResponseKeeps ==
    ASSUME Inv, UNCHANGED setting, NEW h \in Responses, SendResponse(h)
    PROVE  Inv'
  <1>1. Sendable(h, "response")
    BY CallersSend
  <1>2. PICK c, s, wc, ws, pc, ps, hc, hs, xc, xs, a :
           /\ c = ends["client"] /\ s = ends["server"] /\ wc = wire["client"] /\ ws = wire["server"]
           /\ pc = pending["client"] /\ ps = pending["server"] /\ hc = shut["client"] /\ hs = shut["server"]
           /\ xc = cut["client"] /\ xs = cut["server"] /\ a = ahead
           /\ Accord(c, s, wc, ws, pc, ps, hc, hs, xc, xs, a)
    BY InvParts
  <1>3. PICK t : t = send_response(s, h)
    OBVIOUS
  <1>4. PICK items : items = <<HeadItem(h)>>
    OBVIOUS
  <1>5. items \in Seq(Items)
    BY <1>1, <1>4, HeadItemTyped
  <1>6. Write("server", t, items)
    BY <1>2, <1>3, <1>4 DEF SendResponse
  <1>7. PICK e : e = t.c
    OBVIOUS
  <1>8. PICK g : g = t.wire
    OBVIOUS
  <1>9. PICK r : r = items \o EndsWith(s, e)
    OBVIOUS
  <1>10. t.ok /\ ~hs
    BY <1>2, <1>6 DEF Write, Writable
  <1>a. s.st.server = "SendResponse"
    <2>1. local_state(s) = "SendResponse" /\ s.role = "server"
      BY <1>2 DEF SendResponse, Answering, Accord, EndOK
    <2> QED BY <2>1 DEF local_state, state
  <1>p. ResponseSent(s, h, e, g, r)
    BY <1>1, <1>3, <1>4, <1>7, <1>8, <1>9, <1>10 DEF ResponseSent
  <1>11. Accord(c, e, wc, Added(ws, g, xs), pc, Added(ps, r, xs), hc, hs, xc, xs, a)
    BY <1>2, <1>10, <1>p, <1>a, ServerResponds
  <1>12. ServerWritten(t, r)
    BY <1>2, <1>7, <1>8, <1>11 DEF ServerWritten
  <1>13. r = items \o EndsWith(ends["server"], t.c)
    BY <1>2, <1>7, <1>9
  <1> QED BY <1>5, <1>6, <1>12, <1>13, ServerWriteKeeps

(* SendResponseWithBody keeps the invariant.                                *)
LEMMA SendResponseWithBodyKeeps ==
    ASSUME Inv, UNCHANGED setting, NEW h \in Responses, NEW n \in 0..MaxData, SendResponseWithBody(h, n)
    PROVE  Inv'
  <1>1. Sendable(h, "response") /\ n \in Nat
    BY CallersSend
  <1>2. PICK c, s, wc, ws, pc, ps, hc, hs, xc, xs, a :
           /\ c = ends["client"] /\ s = ends["server"] /\ wc = wire["client"] /\ ws = wire["server"]
           /\ pc = pending["client"] /\ ps = pending["server"] /\ hc = shut["client"] /\ hs = shut["server"]
           /\ xc = cut["client"] /\ xs = cut["server"] /\ a = ahead
           /\ Accord(c, s, wc, ws, pc, ps, hc, hs, xc, xs, a)
    BY InvParts
  <1>3. PICK t : t = send_response_with_body(s, h, n)
    OBVIOUS
  <1>4. PICK items : items = Complete("server", t, h, n)
    OBVIOUS
  <1>5. items \in Seq(Items)
    BY <1>1, <1>4, CompleteTyped
  <1>6. Write("server", t, items)
    BY <1>2, <1>3, <1>4 DEF SendResponseWithBody
  <1>7. PICK e : e = t.c
    OBVIOUS
  <1>8. PICK g : g = t.wire
    OBVIOUS
  <1>9. PICK r : r = items \o EndsWith(s, e)
    OBVIOUS
  <1>10. t.ok /\ ~hs
    BY <1>2, <1>6 DEF Write, Writable
  <1>a. s.st.server = "SendResponse"
    <2>1. local_state(s) = "SendResponse" /\ s.role = "server"
      BY <1>2 DEF SendResponseWithBody, Answering, Accord, EndOK
    <2> QED BY <2>1 DEF local_state, state
  <1>p. AnswerSent(s, h, n, t, e, g, r)
    BY <1>1, <1>3, <1>4, <1>7, <1>8, <1>9, <1>10 DEF AnswerSent
  <1>11. Accord(c, e, wc, Added(ws, g, xs), pc, Added(ps, r, xs), hc, hs, xc, xs, a)
    BY <1>2, <1>10, <1>p, <1>a, ServerSendsComplete
  <1>12. ServerWritten(t, r)
    BY <1>2, <1>7, <1>8, <1>11 DEF ServerWritten
  <1>13. r = items \o EndsWith(ends["server"], t.c)
    BY <1>2, <1>7, <1>9
  <1> QED BY <1>5, <1>6, <1>12, <1>13, ServerWriteKeeps

(* SendData of the client keeps the invariant.                              *)
LEMMA ClientDataKeeps ==
    ASSUME Inv, UNCHANGED setting, NEW n \in 1..MaxData, SendData("client", n)
    PROVE  Inv'
  <1>1. n \in Nat \ {0} /\ n \in Nat
    BY CallersSend
  <1>2. PICK c, s, wc, ws, pc, ps, hc, hs, xc, xs, a :
           /\ c = ends["client"] /\ s = ends["server"] /\ wc = wire["client"] /\ ws = wire["server"]
           /\ pc = pending["client"] /\ ps = pending["server"] /\ hc = shut["client"] /\ hs = shut["server"]
           /\ xc = cut["client"] /\ xs = cut["server"] /\ a = ahead
           /\ Accord(c, s, wc, ws, pc, ps, hc, hs, xc, xs, a)
    BY InvParts
  <1>3. PICK t : t = send_data(c, n)
    OBVIOUS
  <1>4. PICK items : items = Bytes(n)
    OBVIOUS
  <1>5. items \in Seq(Items)
    BY <1>1, <1>4, BytesTyped
  <1>6. Write("client", t, items)
    BY <1>2, <1>3, <1>4 DEF SendData
  <1>7. PICK e : e = t.c
    OBVIOUS
  <1>8. PICK g : g = t.wire
    OBVIOUS
  <1>9. PICK r : r = items \o EndsWith(c, e)
    OBVIOUS
  <1>10. t.ok /\ ~hc
    BY <1>2, <1>6 DEF Write, Writable
  <1>p. PieceSent(c, n, e, g, r)
    BY <1>1, <1>3, <1>4, <1>7, <1>8, <1>9, <1>10 DEF PieceSent
  <1>11. Accord(e, s, Added(wc, g, xc), ws, Added(pc, r, xc), ps, hc, hs, xc, xs, a)
    BY <1>2, <1>10, <1>p, ClientSendsData
  <1>12. ClientWritten(t, r)
    BY <1>2, <1>7, <1>8, <1>11 DEF ClientWritten
  <1>13. r = items \o EndsWith(ends["client"], t.c)
    BY <1>2, <1>7, <1>9
  <1> QED BY <1>5, <1>6, <1>12, <1>13, ClientWriteKeeps

(* EndOfMessage of the client keeps the invariant.                          *)
LEMMA ClientEndKeeps ==
    ASSUME Inv, UNCHANGED setting, NEW trailers \in Trailers, EndOfMessage("client", trailers)
    PROVE  Inv'
  <1>1. trailers \in Seq(STRING) /\ Len(trailers) < MaxHead
    BY CallersSend
  <1>2. PICK c, s, wc, ws, pc, ps, hc, hs, xc, xs, a :
           /\ c = ends["client"] /\ s = ends["server"] /\ wc = wire["client"] /\ ws = wire["server"]
           /\ pc = pending["client"] /\ ps = pending["server"] /\ hc = shut["client"] /\ hs = shut["server"]
           /\ xc = cut["client"] /\ xs = cut["server"] /\ a = ahead
           /\ Accord(c, s, wc, ws, pc, ps, hc, hs, xc, xs, a)
    BY InvParts
  <1>3. PICK t : t = end_of_message(c, trailers)
    OBVIOUS
  <1>4. PICK items : items = (IF c.cycle.writer = Fixed(0) THEN <<>> ELSE <<EndItem>>)
    OBVIOUS
  <1>5. items \in Seq(Items)
    BY <1>1, <1>4, ItemKinds
  <1>6. Write("client", t, items)
    BY <1>2, <1>3, <1>4 DEF EndOfMessage
  <1>7. PICK e : e = t.c
    OBVIOUS
  <1>8. PICK g : g = t.wire
    OBVIOUS
  <1>9. PICK r : r = items \o EndsWith(c, e)
    OBVIOUS
  <1>10. t.ok /\ ~hc
    BY <1>2, <1>6 DEF Write, Writable
  <1>p. EndingSent(c, trailers, e, g, r)
    BY <1>1, <1>3, <1>4, <1>7, <1>8, <1>9, <1>10 DEF EndingSent, EndItems
  <1>11. Accord(e, s, Added(wc, g, xc), ws, Added(pc, r, xc), ps, hc, hs, xc, xs, a)
    BY <1>2, <1>10, <1>p, ClientEnds
  <1>12. ClientWritten(t, r)
    BY <1>2, <1>7, <1>8, <1>11 DEF ClientWritten
  <1>13. r = items \o EndsWith(ends["client"], t.c)
    BY <1>2, <1>7, <1>9
  <1> QED BY <1>5, <1>6, <1>12, <1>13, ClientWriteKeeps

(* SendData of the server keeps the invariant.                              *)
LEMMA ServerDataKeeps ==
    ASSUME Inv, UNCHANGED setting, NEW n \in 1..MaxData, SendData("server", n)
    PROVE  Inv'
  <1>1. n \in Nat \ {0} /\ n \in Nat
    BY CallersSend
  <1>2. PICK c, s, wc, ws, pc, ps, hc, hs, xc, xs, a :
           /\ c = ends["client"] /\ s = ends["server"] /\ wc = wire["client"] /\ ws = wire["server"]
           /\ pc = pending["client"] /\ ps = pending["server"] /\ hc = shut["client"] /\ hs = shut["server"]
           /\ xc = cut["client"] /\ xs = cut["server"] /\ a = ahead
           /\ Accord(c, s, wc, ws, pc, ps, hc, hs, xc, xs, a)
    BY InvParts
  <1>3. PICK t : t = send_data(s, n)
    OBVIOUS
  <1>4. PICK items : items = Bytes(n)
    OBVIOUS
  <1>5. items \in Seq(Items)
    BY <1>1, <1>4, BytesTyped
  <1>6. Write("server", t, items)
    BY <1>2, <1>3, <1>4 DEF SendData
  <1>7. PICK e : e = t.c
    OBVIOUS
  <1>8. PICK g : g = t.wire
    OBVIOUS
  <1>9. PICK r : r = items \o EndsWith(s, e)
    OBVIOUS
  <1>10. t.ok /\ ~hs
    BY <1>2, <1>6 DEF Write, Writable
  <1>p. PieceSent(s, n, e, g, r)
    BY <1>1, <1>3, <1>4, <1>7, <1>8, <1>9, <1>10 DEF PieceSent
  <1>11. Accord(c, e, wc, Added(ws, g, xs), pc, Added(ps, r, xs), hc, hs, xc, xs, a)
    BY <1>2, <1>10, <1>p, ServerSendsData
  <1>12. ServerWritten(t, r)
    BY <1>2, <1>7, <1>8, <1>11 DEF ServerWritten
  <1>13. r = items \o EndsWith(ends["server"], t.c)
    BY <1>2, <1>7, <1>9
  <1> QED BY <1>5, <1>6, <1>12, <1>13, ServerWriteKeeps

(* EndOfMessage of the server keeps the invariant.                          *)
LEMMA ServerEndKeeps ==
    ASSUME Inv, UNCHANGED setting, NEW trailers \in Trailers, EndOfMessage("server", trailers)
    PROVE  Inv'
  <1>1. trailers \in Seq(STRING) /\ Len(trailers) < MaxHead
    BY CallersSend
  <1>2. PICK c, s, wc, ws, pc, ps, hc, hs, xc, xs, a :
           /\ c = ends["client"] /\ s = ends["server"] /\ wc = wire["client"] /\ ws = wire["server"]
           /\ pc = pending["client"] /\ ps = pending["server"] /\ hc = shut["client"] /\ hs = shut["server"]
           /\ xc = cut["client"] /\ xs = cut["server"] /\ a = ahead
           /\ Accord(c, s, wc, ws, pc, ps, hc, hs, xc, xs, a)
    BY InvParts
  <1>3. PICK t : t = end_of_message(s, trailers)
    OBVIOUS
  <1>4. PICK items : items = (IF s.cycle.writer = Fixed(0) THEN <<>> ELSE <<EndItem>>)
    OBVIOUS
  <1>5. items \in Seq(Items)
    BY <1>1, <1>4, ItemKinds
  <1>6. Write("server", t, items)
    BY <1>2, <1>3, <1>4 DEF EndOfMessage
  <1>7. PICK e : e = t.c
    OBVIOUS
  <1>8. PICK g : g = t.wire
    OBVIOUS
  <1>9. PICK r : r = items \o EndsWith(s, e)
    OBVIOUS
  <1>10. t.ok /\ ~hs
    BY <1>2, <1>6 DEF Write, Writable
  <1>p. EndingSent(s, trailers, e, g, r)
    BY <1>1, <1>3, <1>4, <1>7, <1>8, <1>9, <1>10 DEF EndingSent, EndItems
  <1>11. Accord(c, e, wc, Added(ws, g, xs), pc, Added(ps, r, xs), hc, hs, xc, xs, a)
    BY <1>2, <1>10, <1>p, ServerEnds
  <1>12. ServerWritten(t, r)
    BY <1>2, <1>7, <1>8, <1>11 DEF ServerWritten
  <1>13. r = items \o EndsWith(ends["server"], t.c)
    BY <1>2, <1>7, <1>9
  <1> QED BY <1>5, <1>6, <1>12, <1>13, ServerWriteKeeps

----------------------------------------------------------------------------
(* The transport, close and the next cycle.                                 *)

(* Each variable of the exchange has a value for each role.                 *)
LEMMA InvPairs ==
    ASSUME Inv
    PROVE  Pair(ends) /\ Pair(wire) /\ Pair(pending) /\ Pair(shut) /\ Pair(cut)
           /\ setting \in DOMAIN Settings /\ ~garbled
  BY DEF Inv, World

(* The invariant after a step, of named values.                             *)
LEMMA InvAfter ==
    ASSUME Pair(ends'), Pair(wire'), Pair(pending'), Pair(shut'), Pair(cut'), setting' \in DOMAIN Settings, ~garbled',
           NEW c, NEW s, NEW wc, NEW ws, NEW pc, NEW ps, NEW hc, NEW hs, NEW xc, NEW xs, NEW a,
           c = ends'["client"], s = ends'["server"], wc = wire'["client"], ws = wire'["server"],
           pc = pending'["client"], ps = pending'["server"], hc = shut'["client"], hs = shut'["server"],
           xc = cut'["client"], xs = cut'["server"], a = ahead',
           Accord(c, s, wc, ws, pc, ps, hc, hs, xc, xs, a)
    PROVE  Inv'
  BY DEF Inv, World

(* Deliver from the client keeps the invariant.                             *)
LEMMA DeliverServerKeeps ==
    ASSUME Inv, UNCHANGED setting, Deliver("client")
    PROVE  Inv'
  <1>0. Pair(ends) /\ Pair(wire) /\ Pair(pending) /\ Pair(shut) /\ Pair(cut) /\ setting' \in DOMAIN Settings
    BY InvPairs
  <1>1. PICK c, s, wc, ws, pc, ps, hc, hs, xc, xs, a :
           /\ c = ends["client"] /\ s = ends["server"] /\ wc = wire["client"] /\ ws = wire["server"]
           /\ pc = pending["client"] /\ ps = pending["server"] /\ hc = shut["client"] /\ hs = shut["server"]
           /\ xc = cut["client"] /\ xs = cut["server"] /\ a = ahead
           /\ Accord(c, s, wc, ws, pc, ps, hc, hs, xc, xs, a)
    BY InvParts
  <1>2. PICK e : e = receive_bytes(s, wc)
    OBVIOUS
  <1>3. PICK w2 : w2 = <<>>
    OBVIOUS
  <1>p. wc # <<>>
    BY <1>1, <1>2, <1>3 DEF Deliver, peer
  <1>j. Accord(c, e, w2, ws, pc, ps, hc, hs, xc, xs, a)
    BY <1>1, <1>p, <1>2, <1>3, ServerFed
  <1>ends. Pair(ends') /\ ends'["server"] = e /\ ends'["client"] = ends["client"]
    <2>1. PICK f : f = ends'
      OBVIOUS
    <2>2. f = PutS(ends, e)
      BY <1>1, <1>p, <1>2, <1>3, <2>1 DEF Deliver, peer, PutS
    <2>3. Pair(f) /\ f["server"] = e /\ f["client"] = ends["client"]
      BY <1>0, <2>2, PutServer
    <2> QED BY <2>1, <2>3
  <1>wire. Pair(wire') /\ wire'["client"] = w2 /\ wire'["server"] = wire["server"]
    <2>1. PICK f : f = wire'
      OBVIOUS
    <2>2. f = PutC(wire, w2)
      BY <1>1, <1>p, <1>2, <1>3, <2>1 DEF Deliver, peer, PutC
    <2>3. Pair(f) /\ f["client"] = w2 /\ f["server"] = wire["server"]
      BY <1>0, <2>2, PutClient
    <2> QED BY <2>1, <2>3
  <1>u. pending' = pending /\ shut' = shut /\ cut' = cut /\ ahead' = ahead
    BY DEF Deliver, peer
  <1>g. ~garbled'
    BY InvPairs DEF Deliver, peer
  <1>k. Pair(pending') /\ Pair(shut') /\ Pair(cut')
    BY <1>0, <1>u
  <1> QED BY <1>0, <1>1, <1>p, <1>2, <1>3, <1>j, <1>u, <1>g, <1>k, <1>ends, <1>wire, InvAfter

(* DeliverEof from the client keeps the invariant.                          *)
LEMMA DeliverEofServerKeeps ==
    ASSUME Inv, UNCHANGED setting, DeliverEof("client")
    PROVE  Inv'
  <1>0. Pair(ends) /\ Pair(wire) /\ Pair(pending) /\ Pair(shut) /\ Pair(cut) /\ setting' \in DOMAIN Settings
    BY InvPairs
  <1>1. PICK c, s, wc, ws, pc, ps, hc, hs, xc, xs, a :
           /\ c = ends["client"] /\ s = ends["server"] /\ wc = wire["client"] /\ ws = wire["server"]
           /\ pc = pending["client"] /\ ps = pending["server"] /\ hc = shut["client"] /\ hs = shut["server"]
           /\ xc = cut["client"] /\ xs = cut["server"] /\ a = ahead
           /\ Accord(c, s, wc, ws, pc, ps, hc, hs, xc, xs, a)
    BY InvParts
  <1>2. PICK e : e = record_eof(s)
    OBVIOUS
  <1>p. wc = <<>> /\ (hc \/ xc)
    BY <1>1, <1>2 DEF DeliverEof, peer
  <1>j. Accord(c, e, wc, ws, pc, ps, hc, hs, xc, xs, a)
    BY <1>1, <1>p, <1>2, ServerEof
  <1>ends. Pair(ends') /\ ends'["server"] = e /\ ends'["client"] = ends["client"]
    <2>1. PICK f : f = ends'
      OBVIOUS
    <2>2. f = PutS(ends, e)
      BY <1>1, <1>p, <1>2, <2>1 DEF DeliverEof, peer, PutS
    <2>3. Pair(f) /\ f["server"] = e /\ f["client"] = ends["client"]
      BY <1>0, <2>2, PutServer
    <2> QED BY <2>1, <2>3
  <1>u. wire' = wire /\ pending' = pending /\ shut' = shut /\ cut' = cut /\ ahead' = ahead
    BY DEF DeliverEof, peer
  <1>g. ~garbled'
    BY InvPairs DEF DeliverEof, peer
  <1>k. Pair(wire') /\ Pair(pending') /\ Pair(shut') /\ Pair(cut')
    BY <1>0, <1>u
  <1> QED BY <1>0, <1>1, <1>p, <1>2, <1>j, <1>u, <1>g, <1>k, <1>ends, InvAfter

(* Cut of the client's direction keeps the invariant.                       *)
LEMMA CutClientKeeps ==
    ASSUME Inv, UNCHANGED setting, Cut("client")
    PROVE  Inv'
  <1>0. Pair(ends) /\ Pair(wire) /\ Pair(pending) /\ Pair(shut) /\ Pair(cut) /\ setting' \in DOMAIN Settings
    BY InvPairs
  <1>1. PICK c, s, wc, ws, pc, ps, hc, hs, xc, xs, a :
           /\ c = ends["client"] /\ s = ends["server"] /\ wc = wire["client"] /\ ws = wire["server"]
           /\ pc = pending["client"] /\ ps = pending["server"] /\ hc = shut["client"] /\ hs = shut["server"]
           /\ xc = cut["client"] /\ xs = cut["server"] /\ a = ahead
           /\ Accord(c, s, wc, ws, pc, ps, hc, hs, xc, xs, a)
    BY InvParts
  <1>2. PICK n \in 0..Len(wc) : wire' = [wire EXCEPT !["client"] = Prefix(@, n)]
    BY <1>1 DEF Cut
  <1>3. PICK w2 : w2 = Prefix(wc, n)
    OBVIOUS
  <1>4. PICK x2 : x2 = TRUE
    OBVIOUS
  <1>p. ~s.eof /\ x2
    BY <1>1, <1>2, <1>3, <1>4 DEF Cut, peer
  <1>j. Accord(c, s, w2, ws, pc, ps, hc, hs, x2, xs, a)
    BY <1>1, <1>p, <1>2, <1>3, <1>4, ClientCut
  <1>wire. Pair(wire') /\ wire'["client"] = w2 /\ wire'["server"] = wire["server"]
    <2>1. PICK f : f = wire'
      OBVIOUS
    <2>2. f = PutC(wire, w2)
      BY <1>1, <1>p, <1>2, <1>3, <1>4, <2>1 DEF Cut, peer, PutC
    <2>3. Pair(f) /\ f["client"] = w2 /\ f["server"] = wire["server"]
      BY <1>0, <2>2, PutClient
    <2> QED BY <2>1, <2>3
  <1>cut. Pair(cut') /\ cut'["client"] = x2 /\ cut'["server"] = cut["server"]
    <2>1. PICK f : f = cut'
      OBVIOUS
    <2>2. f = PutC(cut, x2)
      BY <1>1, <1>p, <1>2, <1>3, <1>4, <2>1 DEF Cut, peer, PutC
    <2>3. Pair(f) /\ f["client"] = x2 /\ f["server"] = cut["server"]
      BY <1>0, <2>2, PutClient
    <2> QED BY <2>1, <2>3
  <1>u. ends' = ends /\ pending' = pending /\ shut' = shut /\ ahead' = ahead
    BY DEF Cut, peer
  <1>g. ~garbled'
    BY InvPairs DEF Cut, peer
  <1>k. Pair(ends') /\ Pair(pending') /\ Pair(shut')
    BY <1>0, <1>u
  <1> QED BY <1>0, <1>1, <1>p, <1>2, <1>3, <1>4, <1>j, <1>u, <1>g, <1>k, <1>wire, <1>cut, InvAfter

(* StartNextCycle of the client keeps the invariant.                        *)
LEMMA NextClientKeeps ==
    ASSUME Inv, UNCHANGED setting, StartNextCycle("client")
    PROVE  Inv'
  <1>0. Pair(ends) /\ Pair(wire) /\ Pair(pending) /\ Pair(shut) /\ Pair(cut) /\ setting' \in DOMAIN Settings
    BY InvPairs
  <1>1. PICK c, s, wc, ws, pc, ps, hc, hs, xc, xs, a :
           /\ c = ends["client"] /\ s = ends["server"] /\ wc = wire["client"] /\ ws = wire["server"]
           /\ pc = pending["client"] /\ ps = pending["server"] /\ hc = shut["client"] /\ hs = shut["server"]
           /\ xc = cut["client"] /\ xs = cut["server"] /\ a = ahead
           /\ Accord(c, s, wc, ws, pc, ps, hc, hs, xc, xs, a)
    BY InvParts
  <1>2. PICK e : e = start_next_cycle(c)
    OBVIOUS
  <1>3. PICK a2 : a2 = ahead'
    OBVIOUS
  <1>p. Finished(c) /\ a2 = ahead'
    BY <1>1, <1>2, <1>3 DEF StartNextCycle, Finished
  <1>q. a2 = a + 1
    BY <1>1, <1>3 DEF StartNextCycle
  <1>j. Accord(e, s, wc, ws, pc, ps, hc, hs, xc, xs, a2)
    BY <1>1, <1>p, <1>q, <1>2, ClientGoesOn
  <1>ends. Pair(ends') /\ ends'["client"] = e /\ ends'["server"] = ends["server"]
    <2>1. PICK f : f = ends'
      OBVIOUS
    <2>2. f = PutC(ends, e)
      BY <1>1, <1>p, <1>2, <1>3, <2>1 DEF StartNextCycle, PutC
    <2>3. Pair(f) /\ f["client"] = e /\ f["server"] = ends["server"]
      BY <1>0, <2>2, PutClient
    <2> QED BY <2>1, <2>3
  <1>u. wire' = wire /\ pending' = pending /\ shut' = shut /\ cut' = cut
    BY DEF StartNextCycle
  <1>g. ~garbled'
    BY InvPairs DEF StartNextCycle
  <1>k. Pair(wire') /\ Pair(pending') /\ Pair(shut') /\ Pair(cut')
    BY <1>0, <1>u
  <1> QED BY <1>0, <1>1, <1>p, <1>2, <1>3, <1>j, <1>u, <1>g, <1>k, <1>ends, InvAfter

(* Close of the client keeps the invariant.                                 *)
LEMMA CloseClientKeeps ==
    ASSUME Inv, UNCHANGED setting, Close("client")
    PROVE  Inv'
  <1>0. Pair(ends) /\ Pair(wire) /\ Pair(pending) /\ Pair(shut) /\ Pair(cut) /\ setting' \in DOMAIN Settings
    BY InvPairs
  <1>1. PICK c, s, wc, ws, pc, ps, hc, hs, xc, xs, a :
           /\ c = ends["client"] /\ s = ends["server"] /\ wc = wire["client"] /\ ws = wire["server"]
           /\ pc = pending["client"] /\ ps = pending["server"] /\ hc = shut["client"] /\ hs = shut["server"]
           /\ xc = cut["client"] /\ xs = cut["server"] /\ a = ahead
           /\ Accord(c, s, wc, ws, pc, ps, hc, hs, xc, xs, a)
    BY InvParts
  <1>2. PICK e : e = close(c)
    OBVIOUS
  <1>3. PICK h2 : h2 = TRUE
    OBVIOUS
  <1>p. LocalAccepts(c, StateEvent("ConnectionClosed")) /\ (hc => h2)
    BY <1>1, <1>2, <1>3 DEF Close
  <1>j. Accord(e, s, wc, ws, pc, ps, h2, hs, xc, xs, a)
    BY <1>1, <1>p, <1>2, <1>3, ClientCloses
  <1>ends. Pair(ends') /\ ends'["client"] = e /\ ends'["server"] = ends["server"]
    <2>1. PICK f : f = ends'
      OBVIOUS
    <2>2. f = PutC(ends, e)
      BY <1>1, <1>p, <1>2, <1>3, <2>1 DEF Close, PutC
    <2>3. Pair(f) /\ f["client"] = e /\ f["server"] = ends["server"]
      BY <1>0, <2>2, PutClient
    <2> QED BY <2>1, <2>3
  <1>shut. Pair(shut') /\ shut'["client"] = h2 /\ shut'["server"] = shut["server"]
    <2>1. PICK f : f = shut'
      OBVIOUS
    <2>2. f = PutC(shut, h2)
      BY <1>1, <1>p, <1>2, <1>3, <2>1 DEF Close, PutC
    <2>3. Pair(f) /\ f["client"] = h2 /\ f["server"] = shut["server"]
      BY <1>0, <2>2, PutClient
    <2> QED BY <2>1, <2>3
  <1>u. wire' = wire /\ pending' = pending /\ cut' = cut /\ ahead' = ahead
    BY DEF Close
  <1>g. ~garbled'
    BY InvPairs DEF Close
  <1>k. Pair(wire') /\ Pair(pending') /\ Pair(cut')
    BY <1>0, <1>u
  <1> QED BY <1>0, <1>1, <1>p, <1>2, <1>3, <1>j, <1>u, <1>g, <1>k, <1>ends, <1>shut, InvAfter

(* Deliver from the server keeps the invariant.                             *)
LEMMA DeliverClientKeeps ==
    ASSUME Inv, UNCHANGED setting, Deliver("server")
    PROVE  Inv'
  <1>0. Pair(ends) /\ Pair(wire) /\ Pair(pending) /\ Pair(shut) /\ Pair(cut) /\ setting' \in DOMAIN Settings
    BY InvPairs
  <1>1. PICK c, s, wc, ws, pc, ps, hc, hs, xc, xs, a :
           /\ c = ends["client"] /\ s = ends["server"] /\ wc = wire["client"] /\ ws = wire["server"]
           /\ pc = pending["client"] /\ ps = pending["server"] /\ hc = shut["client"] /\ hs = shut["server"]
           /\ xc = cut["client"] /\ xs = cut["server"] /\ a = ahead
           /\ Accord(c, s, wc, ws, pc, ps, hc, hs, xc, xs, a)
    BY InvParts
  <1>2. PICK e : e = receive_bytes(c, ws)
    OBVIOUS
  <1>3. PICK w2 : w2 = <<>>
    OBVIOUS
  <1>p. ws # <<>>
    BY <1>1, <1>2, <1>3 DEF Deliver, peer
  <1>j. Accord(e, s, wc, w2, pc, ps, hc, hs, xc, xs, a)
    BY <1>1, <1>p, <1>2, <1>3, ClientFed
  <1>ends. Pair(ends') /\ ends'["client"] = e /\ ends'["server"] = ends["server"]
    <2>1. PICK f : f = ends'
      OBVIOUS
    <2>2. f = PutC(ends, e)
      BY <1>1, <1>p, <1>2, <1>3, <2>1 DEF Deliver, peer, PutC
    <2>3. Pair(f) /\ f["client"] = e /\ f["server"] = ends["server"]
      BY <1>0, <2>2, PutClient
    <2> QED BY <2>1, <2>3
  <1>wire. Pair(wire') /\ wire'["server"] = w2 /\ wire'["client"] = wire["client"]
    <2>1. PICK f : f = wire'
      OBVIOUS
    <2>2. f = PutS(wire, w2)
      BY <1>1, <1>p, <1>2, <1>3, <2>1 DEF Deliver, peer, PutS
    <2>3. Pair(f) /\ f["server"] = w2 /\ f["client"] = wire["client"]
      BY <1>0, <2>2, PutServer
    <2> QED BY <2>1, <2>3
  <1>u. pending' = pending /\ shut' = shut /\ cut' = cut /\ ahead' = ahead
    BY DEF Deliver, peer
  <1>g. ~garbled'
    BY InvPairs DEF Deliver, peer
  <1>k. Pair(pending') /\ Pair(shut') /\ Pair(cut')
    BY <1>0, <1>u
  <1> QED BY <1>0, <1>1, <1>p, <1>2, <1>3, <1>j, <1>u, <1>g, <1>k, <1>ends, <1>wire, InvAfter

(* DeliverEof from the server keeps the invariant.                          *)
LEMMA DeliverEofClientKeeps ==
    ASSUME Inv, UNCHANGED setting, DeliverEof("server")
    PROVE  Inv'
  <1>0. Pair(ends) /\ Pair(wire) /\ Pair(pending) /\ Pair(shut) /\ Pair(cut) /\ setting' \in DOMAIN Settings
    BY InvPairs
  <1>1. PICK c, s, wc, ws, pc, ps, hc, hs, xc, xs, a :
           /\ c = ends["client"] /\ s = ends["server"] /\ wc = wire["client"] /\ ws = wire["server"]
           /\ pc = pending["client"] /\ ps = pending["server"] /\ hc = shut["client"] /\ hs = shut["server"]
           /\ xc = cut["client"] /\ xs = cut["server"] /\ a = ahead
           /\ Accord(c, s, wc, ws, pc, ps, hc, hs, xc, xs, a)
    BY InvParts
  <1>2. PICK e : e = record_eof(c)
    OBVIOUS
  <1>p. ws = <<>> /\ (hs \/ xs)
    BY <1>1, <1>2 DEF DeliverEof, peer
  <1>j. Accord(e, s, wc, ws, pc, ps, hc, hs, xc, xs, a)
    BY <1>1, <1>p, <1>2, ClientEof
  <1>ends. Pair(ends') /\ ends'["client"] = e /\ ends'["server"] = ends["server"]
    <2>1. PICK f : f = ends'
      OBVIOUS
    <2>2. f = PutC(ends, e)
      BY <1>1, <1>p, <1>2, <2>1 DEF DeliverEof, peer, PutC
    <2>3. Pair(f) /\ f["client"] = e /\ f["server"] = ends["server"]
      BY <1>0, <2>2, PutClient
    <2> QED BY <2>1, <2>3
  <1>u. wire' = wire /\ pending' = pending /\ shut' = shut /\ cut' = cut /\ ahead' = ahead
    BY DEF DeliverEof, peer
  <1>g. ~garbled'
    BY InvPairs DEF DeliverEof, peer
  <1>k. Pair(wire') /\ Pair(pending') /\ Pair(shut') /\ Pair(cut')
    BY <1>0, <1>u
  <1> QED BY <1>0, <1>1, <1>p, <1>2, <1>j, <1>u, <1>g, <1>k, <1>ends, InvAfter

(* Cut of the server's direction keeps the invariant.                       *)
LEMMA CutServerKeeps ==
    ASSUME Inv, UNCHANGED setting, Cut("server")
    PROVE  Inv'
  <1>0. Pair(ends) /\ Pair(wire) /\ Pair(pending) /\ Pair(shut) /\ Pair(cut) /\ setting' \in DOMAIN Settings
    BY InvPairs
  <1>1. PICK c, s, wc, ws, pc, ps, hc, hs, xc, xs, a :
           /\ c = ends["client"] /\ s = ends["server"] /\ wc = wire["client"] /\ ws = wire["server"]
           /\ pc = pending["client"] /\ ps = pending["server"] /\ hc = shut["client"] /\ hs = shut["server"]
           /\ xc = cut["client"] /\ xs = cut["server"] /\ a = ahead
           /\ Accord(c, s, wc, ws, pc, ps, hc, hs, xc, xs, a)
    BY InvParts
  <1>2. PICK n \in 0..Len(ws) : wire' = [wire EXCEPT !["server"] = Prefix(@, n)]
    BY <1>1 DEF Cut
  <1>3. PICK w2 : w2 = Prefix(ws, n)
    OBVIOUS
  <1>4. PICK x2 : x2 = TRUE
    OBVIOUS
  <1>p. ~c.eof /\ x2
    BY <1>1, <1>2, <1>3, <1>4 DEF Cut, peer
  <1>j. Accord(c, s, wc, w2, pc, ps, hc, hs, xc, x2, a)
    BY <1>1, <1>p, <1>2, <1>3, <1>4, ServerCut
  <1>wire. Pair(wire') /\ wire'["server"] = w2 /\ wire'["client"] = wire["client"]
    <2>1. PICK f : f = wire'
      OBVIOUS
    <2>2. f = PutS(wire, w2)
      BY <1>1, <1>p, <1>2, <1>3, <1>4, <2>1 DEF Cut, peer, PutS
    <2>3. Pair(f) /\ f["server"] = w2 /\ f["client"] = wire["client"]
      BY <1>0, <2>2, PutServer
    <2> QED BY <2>1, <2>3
  <1>cut. Pair(cut') /\ cut'["server"] = x2 /\ cut'["client"] = cut["client"]
    <2>1. PICK f : f = cut'
      OBVIOUS
    <2>2. f = PutS(cut, x2)
      BY <1>1, <1>p, <1>2, <1>3, <1>4, <2>1 DEF Cut, peer, PutS
    <2>3. Pair(f) /\ f["server"] = x2 /\ f["client"] = cut["client"]
      BY <1>0, <2>2, PutServer
    <2> QED BY <2>1, <2>3
  <1>u. ends' = ends /\ pending' = pending /\ shut' = shut /\ ahead' = ahead
    BY DEF Cut, peer
  <1>g. ~garbled'
    BY InvPairs DEF Cut, peer
  <1>k. Pair(ends') /\ Pair(pending') /\ Pair(shut')
    BY <1>0, <1>u
  <1> QED BY <1>0, <1>1, <1>p, <1>2, <1>3, <1>4, <1>j, <1>u, <1>g, <1>k, <1>wire, <1>cut, InvAfter

(* StartNextCycle of the server keeps the invariant.                        *)
LEMMA NextServerKeeps ==
    ASSUME Inv, UNCHANGED setting, StartNextCycle("server")
    PROVE  Inv'
  <1>0. Pair(ends) /\ Pair(wire) /\ Pair(pending) /\ Pair(shut) /\ Pair(cut) /\ setting' \in DOMAIN Settings
    BY InvPairs
  <1>1. PICK c, s, wc, ws, pc, ps, hc, hs, xc, xs, a :
           /\ c = ends["client"] /\ s = ends["server"] /\ wc = wire["client"] /\ ws = wire["server"]
           /\ pc = pending["client"] /\ ps = pending["server"] /\ hc = shut["client"] /\ hs = shut["server"]
           /\ xc = cut["client"] /\ xs = cut["server"] /\ a = ahead
           /\ Accord(c, s, wc, ws, pc, ps, hc, hs, xc, xs, a)
    BY InvParts
  <1>2. PICK e : e = start_next_cycle(s)
    OBVIOUS
  <1>3. PICK a2 : a2 = ahead'
    OBVIOUS
  <1>p. Finished(s) /\ a2 = ahead'
    BY <1>1, <1>2, <1>3 DEF StartNextCycle, Finished
  <1>q. a2 = a - 1
    BY <1>1, <1>3 DEF StartNextCycle
  <1>j. Accord(c, e, wc, ws, pc, ps, hc, hs, xc, xs, a2)
    BY <1>1, <1>p, <1>q, <1>2, ServerGoesOn
  <1>ends. Pair(ends') /\ ends'["server"] = e /\ ends'["client"] = ends["client"]
    <2>1. PICK f : f = ends'
      OBVIOUS
    <2>2. f = PutS(ends, e)
      BY <1>1, <1>p, <1>2, <1>3, <2>1 DEF StartNextCycle, PutS
    <2>3. Pair(f) /\ f["server"] = e /\ f["client"] = ends["client"]
      BY <1>0, <2>2, PutServer
    <2> QED BY <2>1, <2>3
  <1>u. wire' = wire /\ pending' = pending /\ shut' = shut /\ cut' = cut
    BY DEF StartNextCycle
  <1>g. ~garbled'
    BY InvPairs DEF StartNextCycle
  <1>k. Pair(wire') /\ Pair(pending') /\ Pair(shut') /\ Pair(cut')
    BY <1>0, <1>u
  <1> QED BY <1>0, <1>1, <1>p, <1>2, <1>3, <1>j, <1>u, <1>g, <1>k, <1>ends, InvAfter

(* Close of the server keeps the invariant.                                 *)
LEMMA CloseServerKeeps ==
    ASSUME Inv, UNCHANGED setting, Close("server")
    PROVE  Inv'
  <1>0. Pair(ends) /\ Pair(wire) /\ Pair(pending) /\ Pair(shut) /\ Pair(cut) /\ setting' \in DOMAIN Settings
    BY InvPairs
  <1>1. PICK c, s, wc, ws, pc, ps, hc, hs, xc, xs, a :
           /\ c = ends["client"] /\ s = ends["server"] /\ wc = wire["client"] /\ ws = wire["server"]
           /\ pc = pending["client"] /\ ps = pending["server"] /\ hc = shut["client"] /\ hs = shut["server"]
           /\ xc = cut["client"] /\ xs = cut["server"] /\ a = ahead
           /\ Accord(c, s, wc, ws, pc, ps, hc, hs, xc, xs, a)
    BY InvParts
  <1>2. PICK e : e = close(s)
    OBVIOUS
  <1>3. PICK h2 : h2 = TRUE
    OBVIOUS
  <1>p. LocalAccepts(s, StateEvent("ConnectionClosed")) /\ (hs => h2)
    BY <1>1, <1>2, <1>3 DEF Close
  <1>j. Accord(c, e, wc, ws, pc, ps, hc, h2, xc, xs, a)
    BY <1>1, <1>p, <1>2, <1>3, ServerCloses
  <1>ends. Pair(ends') /\ ends'["server"] = e /\ ends'["client"] = ends["client"]
    <2>1. PICK f : f = ends'
      OBVIOUS
    <2>2. f = PutS(ends, e)
      BY <1>1, <1>p, <1>2, <1>3, <2>1 DEF Close, PutS
    <2>3. Pair(f) /\ f["server"] = e /\ f["client"] = ends["client"]
      BY <1>0, <2>2, PutServer
    <2> QED BY <2>1, <2>3
  <1>shut. Pair(shut') /\ shut'["server"] = h2 /\ shut'["client"] = shut["client"]
    <2>1. PICK f : f = shut'
      OBVIOUS
    <2>2. f = PutS(shut, h2)
      BY <1>1, <1>p, <1>2, <1>3, <2>1 DEF Close, PutS
    <2>3. Pair(f) /\ f["server"] = h2 /\ f["client"] = shut["client"]
      BY <1>0, <2>2, PutServer
    <2> QED BY <2>1, <2>3
  <1>u. wire' = wire /\ pending' = pending /\ cut' = cut /\ ahead' = ahead
    BY DEF Close
  <1>g. ~garbled'
    BY InvPairs DEF Close
  <1>k. Pair(wire') /\ Pair(pending') /\ Pair(cut')
    BY <1>0, <1>u
  <1> QED BY <1>0, <1>1, <1>p, <1>2, <1>3, <1>j, <1>u, <1>g, <1>k, <1>ends, <1>shut, InvAfter

----------------------------------------------------------------------------
(* Polls, and every step.                                                   *)

(* What an event of the client tells.                                       *)
LEMMA TellClientIs ==
    ASSUME NEW p, Tell("client", p), NEW c, c = ends["client"]
    PROVE  /\ ends' = [ends EXCEPT !["client"] = p.c]
           /\ pending' = [pending EXCEPT !["server"] = Heard(c, p, pending["server"])]
           /\ Faithful(c, p, pending["server"], cut["server"]) /\ ~garbled => ~garbled'
           /\ wire' = wire /\ shut' = shut /\ cut' = cut /\ ahead' = ahead
  <1>1. peer("client") = "server"
    BY DEF peer
  <1>2. PICK t : t = TellItems(c, p)
    OBVIOUS
  <1>3. t = IF p.kind \in MessageEvents THEN Told(c, p) ELSE <<>>
    BY <1>2 DEF TellItems
  <1>4. /\ ends' = [ends EXCEPT !["client"] = p.c]
        /\ pending' = [pending EXCEPT !["server"] = IF t = Prefix(pending["server"], Len(t))
                                                  THEN Skip(pending["server"], Len(t)) ELSE pending["server"]]
        /\ garbled' = (garbled \/ (t # Prefix(pending["server"], Len(t))
                                    /\ ~(cut["server"] /\ c.cycle.reader.kind = "CloseDelimited")))
        /\ wire' = wire /\ shut' = shut /\ cut' = cut /\ ahead' = ahead
    BY <1>1, <1>3, Zenon DEF Tell
  <1>5. Heard(c, p, pending["server"]) = IF t = Prefix(pending["server"], Len(t))
                                      THEN Skip(pending["server"], Len(t)) ELSE pending["server"]
    BY <1>2 DEF Heard, Fits
  <1>6. ASSUME Faithful(c, p, pending["server"], cut["server"]), ~garbled PROVE ~garbled'
    <2>1. t = Prefix(pending["server"], Len(t)) \/ (cut["server"] /\ c.cycle.reader.kind = "CloseDelimited")
      BY <1>2, <1>6 DEF Faithful, Fits
    <2> QED BY <1>4, <1>6, <2>1, Zenon
  <1> QED BY <1>4, <1>5, <1>6

(* Poll of the client keeps the invariant: above all it tells what the      *)
(* server sent, so garbled stays FALSE.                                     *)
LEMMA PollClientKeeps ==
    ASSUME Inv, UNCHANGED setting, Poll("client")
    PROVE  Inv'
  <1>0. Pair(ends) /\ Pair(wire) /\ Pair(pending) /\ Pair(shut) /\ Pair(cut) /\ setting' \in DOMAIN Settings /\ ~garbled
    BY InvPairs
  <1>1. PICK c, s, wc, ws, pc, ps, hc, hs, xc, xs, a :
           /\ c = ends["client"] /\ s = ends["server"] /\ wc = wire["client"] /\ ws = wire["server"]
           /\ pc = pending["client"] /\ ps = pending["server"] /\ hc = shut["client"] /\ hs = shut["server"]
           /\ xc = cut["client"] /\ xs = cut["server"] /\ a = ahead
           /\ Accord(c, s, wc, ws, pc, ps, hc, hs, xc, xs, a)
    BY InvParts
  <1>2. PICK due \in BOOLEAN : Tell("client", next_event(c, due))
    BY <1>1 DEF Poll
  <1>3. PICK p : p = next_event(c, due)
    OBVIOUS
  <1>4. PICK e : e = p.c
    OBVIOUS
  <1>5. PICK q2 : q2 = Heard(c, p, ps)
    OBVIOUS
  <1>6. Accord(e, s, wc, ws, pc, q2, hc, hs, xc, xs, a) /\ Faithful(c, p, ps, xs)
    BY <1>1, <1>3, <1>4, <1>5, ClientPolls
  <1>7. Tell("client", p)
    BY <1>2, <1>3
  <1>8. /\ ends' = [ends EXCEPT !["client"] = e]
        /\ pending' = [pending EXCEPT !["server"] = q2]
        /\ ~garbled'
        /\ wire' = wire /\ shut' = shut /\ cut' = cut /\ ahead' = ahead
    BY <1>0, <1>1, <1>4, <1>5, <1>6, <1>7, TellClientIs
  <1>9. Pair(ends') /\ ends'["client"] = e /\ ends'["server"] = ends["server"]
    <2>1. PICK f : f = ends'
      OBVIOUS
    <2>2. f = PutC(ends, e)
      BY <1>8, <2>1 DEF PutC
    <2>3. Pair(f) /\ f["client"] = e /\ f["server"] = ends["server"]
      BY <1>0, <2>2, PutClient
    <2> QED BY <2>1, <2>3
  <1>10. Pair(pending') /\ pending'["server"] = q2 /\ pending'["client"] = pending["client"]
    <2>1. PICK f : f = pending'
      OBVIOUS
    <2>2. f = PutS(pending, q2)
      BY <1>8, <2>1 DEF PutS
    <2>3. Pair(f) /\ f["server"] = q2 /\ f["client"] = pending["client"]
      BY <1>0, <2>2, PutServer
    <2> QED BY <2>1, <2>3
  <1>11. Pair(wire') /\ Pair(shut') /\ Pair(cut')
    BY <1>0, <1>8
  <1> QED BY <1>0, <1>1, <1>6, <1>8, <1>9, <1>10, <1>11, InvAfter

(* What an event of the server tells.                                       *)
LEMMA TellServerIs ==
    ASSUME NEW p, Tell("server", p), NEW c, c = ends["server"]
    PROVE  /\ ends' = [ends EXCEPT !["server"] = p.c]
           /\ pending' = [pending EXCEPT !["client"] = Heard(c, p, pending["client"])]
           /\ Faithful(c, p, pending["client"], cut["client"]) /\ ~garbled => ~garbled'
           /\ wire' = wire /\ shut' = shut /\ cut' = cut /\ ahead' = ahead
  <1>1. peer("server") = "client"
    BY DEF peer
  <1>2. PICK t : t = TellItems(c, p)
    OBVIOUS
  <1>3. t = IF p.kind \in MessageEvents THEN Told(c, p) ELSE <<>>
    BY <1>2 DEF TellItems
  <1>4. /\ ends' = [ends EXCEPT !["server"] = p.c]
        /\ pending' = [pending EXCEPT !["client"] = IF t = Prefix(pending["client"], Len(t))
                                                  THEN Skip(pending["client"], Len(t)) ELSE pending["client"]]
        /\ garbled' = (garbled \/ (t # Prefix(pending["client"], Len(t))
                                    /\ ~(cut["client"] /\ c.cycle.reader.kind = "CloseDelimited")))
        /\ wire' = wire /\ shut' = shut /\ cut' = cut /\ ahead' = ahead
    BY <1>1, <1>3, Zenon DEF Tell
  <1>5. Heard(c, p, pending["client"]) = IF t = Prefix(pending["client"], Len(t))
                                      THEN Skip(pending["client"], Len(t)) ELSE pending["client"]
    BY <1>2 DEF Heard, Fits
  <1>6. ASSUME Faithful(c, p, pending["client"], cut["client"]), ~garbled PROVE ~garbled'
    <2>1. t = Prefix(pending["client"], Len(t)) \/ (cut["client"] /\ c.cycle.reader.kind = "CloseDelimited")
      BY <1>2, <1>6 DEF Faithful, Fits
    <2> QED BY <1>4, <1>6, <2>1, Zenon
  <1> QED BY <1>4, <1>5, <1>6

(* Poll of the server keeps the invariant.                                  *)
LEMMA PollServerKeeps ==
    ASSUME Inv, UNCHANGED setting, Poll("server")
    PROVE  Inv'
  <1>0. Pair(ends) /\ Pair(wire) /\ Pair(pending) /\ Pair(shut) /\ Pair(cut) /\ setting' \in DOMAIN Settings /\ ~garbled
    BY InvPairs
  <1>1. PICK c, s, wc, ws, pc, ps, hc, hs, xc, xs, a :
           /\ c = ends["client"] /\ s = ends["server"] /\ wc = wire["client"] /\ ws = wire["server"]
           /\ pc = pending["client"] /\ ps = pending["server"] /\ hc = shut["client"] /\ hs = shut["server"]
           /\ xc = cut["client"] /\ xs = cut["server"] /\ a = ahead
           /\ Accord(c, s, wc, ws, pc, ps, hc, hs, xc, xs, a)
    BY InvParts
  <1>2. PICK due \in BOOLEAN : Tell("server", next_event(s, due))
    BY <1>1 DEF Poll
  <1>3. PICK p : p = next_event(s, due)
    OBVIOUS
  <1>4. PICK e : e = p.c
    OBVIOUS
  <1>5. PICK q2 : q2 = Heard(s, p, pc)
    OBVIOUS
  <1>6. Accord(c, e, wc, ws, q2, ps, hc, hs, xc, xs, a) /\ Faithful(s, p, pc, xc)
    BY <1>1, <1>3, <1>4, <1>5, ServerPolls
  <1>7. Tell("server", p)
    BY <1>2, <1>3
  <1>8. /\ ends' = [ends EXCEPT !["server"] = e]
        /\ pending' = [pending EXCEPT !["client"] = q2]
        /\ ~garbled'
        /\ wire' = wire /\ shut' = shut /\ cut' = cut /\ ahead' = ahead
    BY <1>0, <1>1, <1>4, <1>5, <1>6, <1>7, TellServerIs
  <1>9. Pair(ends') /\ ends'["server"] = e /\ ends'["client"] = ends["client"]
    <2>1. PICK f : f = ends'
      OBVIOUS
    <2>2. f = PutS(ends, e)
      BY <1>8, <2>1 DEF PutS
    <2>3. Pair(f) /\ f["server"] = e /\ f["client"] = ends["client"]
      BY <1>0, <2>2, PutServer
    <2> QED BY <2>1, <2>3
  <1>10. Pair(pending') /\ pending'["client"] = q2 /\ pending'["server"] = pending["server"]
    <2>1. PICK f : f = pending'
      OBVIOUS
    <2>2. f = PutC(pending, q2)
      BY <1>8, <2>1 DEF PutC
    <2>3. Pair(f) /\ f["client"] = q2 /\ f["server"] = pending["server"]
      BY <1>0, <2>2, PutClient
    <2> QED BY <2>1, <2>3
  <1>11. Pair(wire') /\ Pair(shut') /\ Pair(cut')
    BY <1>0, <1>8
  <1> QED BY <1>0, <1>1, <1>6, <1>8, <1>9, <1>10, <1>11, InvAfter

(* The invariant holds at the start: two new connections and empty          *)
(* directions.                                                              *)
LEMMA InvInit ==
    ASSUME Init
    PROVE  Inv
  <1>1. PICK c : c = ends["client"]
    OBVIOUS
  <1>2. PICK s : s = ends["server"]
    OBVIOUS
  <1>3. c = NewConnection("client", FALSE) /\ s = NewConnection("server", FALSE)
    BY <1>1, <1>2 DEF Init, Roles
  <1>4. Unused(c, "client") /\ Unused(s, "server")
    BY <1>3, NewUnused DEF Roles
  <1>5. Pair(ends) /\ Pair(wire) /\ Pair(pending) /\ Pair(shut) /\ Pair(cut)
    BY DEF Init, Pair
  <1>6. /\ wire["client"] = <<>> /\ wire["server"] = <<>> /\ pending["client"] = <<>> /\ pending["server"] = <<>>
        /\ ~shut["client"] /\ ~shut["server"] /\ ~cut["client"] /\ ~cut["server"] /\ ahead = 0
    BY DEF Init, Roles
  <1>7. Accord(c, s, wire["client"], wire["server"], pending["client"], pending["server"],
          shut["client"], shut["server"], cut["client"], cut["server"], ahead)
    BY <1>4, <1>6, AccordInit
  <1>8. setting \in DOMAIN Settings /\ ~garbled
    BY DEF Init
  <1> QED BY <1>1, <1>2, <1>5, <1>7, <1>8 DEF Inv, World

(* Every step keeps the invariant: a call of either end, or the transport.  *)
LEMMA InvNext ==
    ASSUME Inv, [Next]_vars
    PROVE  Inv'
  <1>1. CASE UNCHANGED vars
    BY <1>1 DEF vars, moving, Inv
  <1>2. CASE Next
    <2>0. UNCHANGED setting
      BY <1>2 DEF Next
    <2>1. PICK r \in Roles : Sending(r) \/ Deliver(r) \/ DeliverEof(r) \/ Cut(r) \/ Poll(r) \/ StartNextCycle(r) \/ Close(r)
      BY <1>2 DEF Next
    <2>2. r = "client" \/ r = "server"
      BY DEF Roles
    <2>3. CASE Sending(r)
      <3>1. CASE r = "client"
        <4>1. CASE \E h \in Requests : SendRequest(h)
          BY <2>0, <4>1, SendRequestKeeps
        <4>2. CASE \E h \in Requests : \E n \in 0..MaxData : SendRequestWithBody(h, n)
          BY <2>0, <4>2, SendRequestWithBodyKeeps
        <4>3. CASE \E n \in 1..MaxData : SendData(r, n)
          BY <2>0, <3>1, <4>3, ClientDataKeeps
        <4>4. CASE \E trailers \in Trailers : EndOfMessage(r, trailers)
          BY <2>0, <3>1, <4>4, ClientEndKeeps
        <4> QED BY <2>3, <3>1, <4>1, <4>2, <4>3, <4>4 DEF Sending
      <3>2. CASE r = "server"
        <4>1. CASE \E h \in Responses : SendResponse(h)
          BY <2>0, <4>1, SendResponseKeeps
        <4>2. CASE \E h \in Responses : \E n \in 0..MaxData : SendResponseWithBody(h, n)
          BY <2>0, <4>2, SendResponseWithBodyKeeps
        <4>3. CASE \E n \in 1..MaxData : SendData(r, n)
          BY <2>0, <3>2, <4>3, ServerDataKeeps
        <4>4. CASE \E trailers \in Trailers : EndOfMessage(r, trailers)
          BY <2>0, <3>2, <4>4, ServerEndKeeps
        <4>5. CASE \E h \in Responses : SendInformationalResponse(h)
          BY <2>0, <4>5, SendInformationalKeeps
        <4> QED BY <2>3, <3>2, <4>1, <4>2, <4>3, <4>4, <4>5 DEF Sending
      <3> QED BY <2>2, <3>1, <3>2
    <2>4. CASE Deliver(r)
      BY <2>0, <2>2, <2>4, DeliverServerKeeps, DeliverClientKeeps
    <2>5. CASE DeliverEof(r)
      BY <2>0, <2>2, <2>5, DeliverEofServerKeeps, DeliverEofClientKeeps
    <2>6. CASE Cut(r)
      BY <2>0, <2>2, <2>6, CutServerKeeps, CutClientKeeps
    <2>7. CASE Poll(r)
      BY <2>0, <2>2, <2>7, PollServerKeeps, PollClientKeeps
    <2>8. CASE StartNextCycle(r)
      BY <2>0, <2>2, <2>8, NextServerKeeps, NextClientKeeps
    <2>9. CASE Close(r)
      BY <2>0, <2>2, <2>9, CloseServerKeeps, CloseClientKeeps
    <2> QED BY <2>1, <2>3, <2>4, <2>5, <2>6, <2>7, <2>8, <2>9
  <1> QED BY <1>1, <1>2

----------------------------------------------------------------------------
(* The two properties.                                                      *)

(* A head that was written and not read is in the bytes that come, when     *)
(* nothing is cut.                                                          *)
LEMMA HeadsArrive ==
    ASSUME NEW d, NEW rk, NEW from, NEW to, NEW w, NEW q, NEW broken, Stream(d, rk, from, to, w, q, broken),
           ~broken, HeadsOf(d) # {}, to.input \in Seq(Wires)
    PROVE  w # <<>> \/ to.input # <<>>
  <1>1. d \in Flows /\ Carries(d, to.input \o w, q, broken) /\ d.came = d.wrote
    BY DEF Stream, Carries
  <1>2. PICK i \in HeadsOf(d) : TRUE
    OBVIOUS
  <1>3. i \in Nat /\ d.read + 1 <= i /\ i <= d.wrote /\ d.read \in Nat /\ d.wrote \in Nat /\ d.came \in Nat
    BY <1>1, <1>2, HeadsTyped, FlowTypes
  <1>4. d.came - d.read # 0
    BY <1>1, <1>3
  <1>5. PICK t : t = to.input \o w
    OBVIOUS
  <1>6. Len(t) # 0
    BY <1>1, <1>4, <1>5 DEF Carries
  <1>7. ASSUME w = <<>>, to.input = <<>> PROVE FALSE
    <2>1. t = <<>>
      BY <1>5, <1>7
    <2> QED BY <1>6, <2>1
  <1> QED BY <1>7

(* A client waits for 100 (Continue) only as long as the server knows of    *)
(* the wait, or something that will settle it is under way or unread.       *)
LEMMA WaitIsKnown ==
    ASSUME NEW c, NEW s, NEW wc, NEW ws, NEW pc, NEW ps, NEW hc, NEW hs, NEW xc, NEW xs, NEW a,
           Accord(c, s, wc, ws, pc, ps, hc, hs, xc, xs, a), c.cycle.waiting_for_continue, ~xc, ~xs
    PROVE  s.cycle.waiting_for_continue \/ wc # <<>> \/ s.input # <<>> \/ ws # <<>> \/ c.input # <<>>
  <1>0. /\ ClientPhase(c) /\ c.input \in Seq(Wires) /\ s.input \in Seq(Wires)
        /\ c.st.server \in {"SendResponse", "Error"}
    BY DEF Accord, Phase, EndOK, Connections, Sound, Coherent, WaitMatches
  <1>1. Asked(c)
    BY <1>0 DEF ClientPhase
  <1>2. CASE ~Begun(s, a)
    <2>1. PICK n : n = None
      OBVIOUS
    <2>2. PICK d : Stream(d, n, c, s, wc, pc, xc) /\ UpMarks(c, s, d, a)
      BY <2>1 DEF Accord, ServerFault, Up
    <2>3. HeadsOf(d) # {}
      BY <1>1, <1>2, <2>2 DEF UpMarks
    <2> QED BY <1>0, <2>2, <2>3, HeadsArrive
  <1>3. CASE Begun(s, a)
    <2>1. c.st.server = "SendResponse"
      BY <1>0, <1>3 DEF Accord, ClientFault
    <2>2. PICK k : k = c.cycle.request_kind
      OBVIOUS
    <2>3. PICK d : Stream(d, k, s, c, ws, ps, xs) /\ DownMarks(c, s, d, a)
      BY <2>1, <2>2 DEF Accord, Down, Follow
    <2>4. s.cycle.waiting_for_continue \/ HeadsOf(d) # {}
      BY <1>3, <2>3 DEF DownMarks, WaitsKnown, AnswerUnderWay
    <2> QED BY <1>0, <2>3, <2>4, HeadsArrive
  <1> QED BY <1>2, <1>3

(* An end takes its peer for faulty only after a cut, or, as a client, when *)
(* the server closed without a response.                                    *)
LEMMA FaultsExcused ==
    ASSUME NEW c, NEW s, NEW wc, NEW ws, NEW pc, NEW ps, NEW hc, NEW hs, NEW xc, NEW xs, NEW a,
           Accord(c, s, wc, ws, pc, ps, hc, hs, xc, xs, a)
    PROVE  /\ s.st.client = "Error" => xc
           /\ c.st.server = "Error" => xs \/ (hs /\ ws = <<>> /\ ps = <<>>)
  BY DEF Accord, ServerFault, ClientFault, LineOK

(* The ends are at most one cycle apart, the one behind has kept the        *)
(* connection, and no client has switched alone.                            *)
LEMMA PhasesAgree ==
    ASSUME NEW c, NEW s, NEW wc, NEW ws, NEW pc, NEW ps, NEW hc, NEW hs, NEW xc, NEW xs, NEW a,
           Accord(c, s, wc, ws, pc, ps, hc, hs, xc, xs, a)
    PROVE  /\ a \in {-1, 0, 1} /\ (a = 1 => s.st.keep_alive) /\ (a = -1 => c.st.keep_alive \/ c.eof)
           /\ c.st.client = "SwitchedProtocol" => s.st.server = "SwitchedProtocol"
  <1>1. SharedPhase(c, s, a) /\ Joint(c.st)
    BY DEF Accord, Phase, EndOK, Sound, Coherent, Lawful
  <1>2. a = 1 => s.st.keep_alive
    BY <1>1 DEF SharedPhase, Persists, WordKept
  <1>3. c.st.client = "SwitchedProtocol" => s.st.server = "SwitchedProtocol"
    BY <1>1 DEF SharedPhase, Joint
  <1>4. a \in {-1, 0, 1} /\ (a = -1 => c.st.keep_alive \/ c.eof)
    BY <1>1 DEF SharedPhase
  <1> QED BY <1>2, <1>3, <1>4

(* The invariant implies Understood.                                        *)
LEMMA InvUnderstood ==
    ASSUME Inv
    PROVE  Understood
  <1>1. PICK c, s, wc, ws, pc, ps, hc, hs, xc, xs, a :
           /\ c = ends["client"] /\ s = ends["server"] /\ wc = wire["client"] /\ ws = wire["server"]
           /\ pc = pending["client"] /\ ps = pending["server"] /\ hc = shut["client"] /\ hs = shut["server"]
           /\ xc = cut["client"] /\ xs = cut["server"] /\ a = ahead
           /\ Accord(c, s, wc, ws, pc, ps, hc, hs, xc, xs, a)
    BY InvParts
  <1>2. s.st.client = "Error" => xc
    BY <1>1, FaultsExcused
  <1>3. c.st.server = "Error" => xs \/ (hs /\ ws = <<>> /\ ps = <<>>)
    BY <1>1, FaultsExcused
  <1>4. BytesAccepted
    BY <1>1, <1>2, <1>3 DEF BytesAccepted
  <1> QED BY <1>4 DEF Inv, Understood

(* The invariant implies SidesAgree.                                        *)
LEMMA InvSidesAgree ==
    ASSUME Inv
    PROVE  SidesAgree
  <1>1. PICK c, s, wc, ws, pc, ps, hc, hs, xc, xs, a :
           /\ c = ends["client"] /\ s = ends["server"] /\ wc = wire["client"] /\ ws = wire["server"]
           /\ pc = pending["client"] /\ ps = pending["server"] /\ hc = shut["client"] /\ hs = shut["server"]
           /\ xc = cut["client"] /\ xs = cut["server"] /\ a = ahead
           /\ Accord(c, s, wc, ws, pc, ps, hc, hs, xc, xs, a)
    BY InvParts
  <1>2. /\ a \in {-1, 0, 1} /\ (a = 1 => s.st.keep_alive) /\ (a = -1 => c.st.keep_alive \/ c.eof)
        /\ c.st.client = "SwitchedProtocol" => s.st.server = "SwitchedProtocol"
    BY <1>1, PhasesAgree
  <1>3. ReuseAgreed
    BY <1>1, <1>2 DEF ReuseAgreed
  <1>4. SwitchAgreed
    BY <1>1, <1>2 DEF SwitchAgreed
  <1>5. c.cycle.waiting_for_continue /\ ~xc /\ ~xs =>
           s.cycle.waiting_for_continue \/ wc # <<>> \/ s.input # <<>> \/ ws # <<>> \/ c.input # <<>>
    BY <1>1, WaitIsKnown
  <1>6. Intact => ~xc /\ ~xs
    BY <1>1 DEF Intact, Roles
  <1>7. WaitKnown
    BY <1>1, <1>5, <1>6 DEF WaitKnown
  <1> QED BY <1>3, <1>4, <1>7 DEF SidesAgree

(* Whatever the two callers send, poll, close and restart, in whichever     *)
(* order the bytes of the two directions arrive, and wherever the transport *)
(* cuts one off: next_event of either Connection tells exactly the heads,   *)
(* the body bytes and the ends that the peer's send calls were given, in    *)
(* their order, never reports complete what a cut took (a close-delimited   *)
(* body aside, whose end is the end of the transport), and fails only after *)
(* a cut, or when the server closed without a response.                     *)
THEOREM ExchangeUnderstood == Spec => []Understood
  <1>1. Init => Inv
    BY InvInit
  <1>2. Inv /\ [Next]_vars => Inv'
    BY InvNext
  <1>3. Inv => Understood
    BY InvUnderstood
  <1> QED BY <1>1, <1>2, <1>3, PTL DEF Spec

(* The two Connections agree on what each must know of the other:           *)
(* start_next_cycle takes neither more than one exchange ahead of a peer    *)
(* that has kept the connection; the client switches protocols only after   *)
(* the server has; and a client that is waiting for 100 (Continue) has a    *)
(* server that knows it, or the bytes that will settle it are under way or  *)
(* unread.                                                                  *)
THEOREM ExchangeSidesAgree == Spec => []SidesAgree
  <1>1. Init => Inv
    BY InvInit
  <1>2. Inv /\ [Next]_vars => Inv'
    BY InvNext
  <1>3. Inv => SidesAgree
    BY InvSidesAgree
  <1> QED BY <1>1, <1>2, <1>3, PTL DEF Spec
=============================================================================
