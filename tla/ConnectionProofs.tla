--------------------------- MODULE ConnectionProofs ---------------------------
(***************************************************************************)
(* Proofs about Connection, for every setting, every bound and every order  *)
(* of calls: the invariants that its runs check follow from the inductive   *)
(* invariant Inv, and its action properties from what each action does to   *)
(* a connection that satisfies it.                                          *)
(***************************************************************************)
EXTENDS Connection, CallProofs

----------------------------------------------------------------------------
(* The inductive invariant.  Sound strengthens what the runs check of the   *)
(* connection itself; BodyFits relates the decoder to what the reader has   *)
(* seen, and WordKept the connection to what a response said of it.         *)
Inv ==
    /\ TypeOK
    /\ Sound(conn)
    /\ BodyFits(conn, body)
    /\ WordKept(conn, announced)
    /\ final => ~conn.st.keep_alive
    /\ last = "NeedData" => WithinLimit(conn)

(* The action properties, as predicates of one step.                        *)
ErrorStep ==
    last' = "LocalError" =>
        conn' = NoKeepAliveIf(UnsolicitedBytes(conn) /\ conn'.st # conn.st, conn)

(* EventsProgress, of one step.                                             *)
ProgressStep ==
    last' \in {"Request", "InformationalResponse", "Response", "Data", "EndOfMessage"} =>
        \/ Len(conn'.input) + conn'.held < Len(conn.input) + conn.held
        \/ last' = "EndOfMessage" /\ peer_state(conn) = "SendBody"
              /\ peer_state(conn') # "SendBody"

(* TrailingDataKept, of one step.                                           *)
TrailingStep ==
    peer_state(conn) \in {"Done", "MustClose", "MightSwitchProtocol", "SwitchedProtocol"} =>
        /\ Len(conn.input) <= Len(conn'.input)
        /\ conn.input = SubSeq(conn'.input, 1, Len(conn.input))

(* A step that keeps the invariant and all three.                           *)
Good == Inv' /\ ErrorStep /\ ProgressStep /\ TrailingStep

(* What ConnectionAssumption says of the setting that Init chose.           *)
LEMMA SettingTyped ==
    ASSUME Inv
    PROVE  /\ SymbolsOK(Setting.symbols) /\ Setting.heads \subseteq MessageHeads
           /\ MaxInput \in Nat /\ MaxHeld \in Nat /\ MaxData \in Nat
           /\ conn \in Connections(Setting.symbols) /\ Sound(conn) /\ Coherent(conn)
           /\ body \in Bodies /\ Len(conn.input) \in Nat /\ conn.held \in Nat
  <1>1. setting \in DOMAIN Settings /\ conn \in Connections(Setting.symbols) /\ body \in Bodies
    BY DEF Inv, TypeOK, Bodies
  <1>2. Len(conn.input) \in Nat /\ conn.held \in Nat
    BY <1>1 DEF Connections
  <1> QED BY <1>1, <1>2, ConnectionAssumption DEF Setting, SymbolsOK, Inv, Sound

(* The invariant after a step, from what the step did.                      *)
LEMMA InvAfter ==
    ASSUME Inv, setting' = setting, conn' \in Connections(Setting.symbols), Sound(conn'),
           conn'.role = conn.role, conn'.lenient = conn.lenient,
           Len(conn'.input) <= MaxInput, conn'.held <= MaxHeld,
           announced' \in {None, "persist", "close"}, WordKept(conn', announced'),
           body' \in Bodies, BodyFits(conn', body'),
           final' \in BOOLEAN, final' => ~conn'.st.keep_alive,
           last' = "NeedData" => WithinLimit(conn')
    PROVE  Inv'
  BY DEF Inv, TypeOK, Setting, Bodies

(* A step that keeps the buffer keeps what follows a message.               *)
LEMMA SameInput ==
    ASSUME Inv, conn'.input = conn.input
    PROVE  TrailingStep
  <1>1. conn.input \in Seq(Setting.symbols)
    BY SettingTyped DEF Connections
  <1>2. conn.input = SubSeq(conn.input, 1, Len(conn.input))
    BY <1>1, SubSeqFull
  <1>3. Len(conn.input) \in Nat
    BY SettingTyped
  <1> QED BY <1>2, <1>3 DEF TrailingStep

(* Any call but a poll or a new cycle: the invariant is that of the         *)
(* connection it leaves.                                                    *)
LEMMA CallKeeps ==
    ASSUME Inv, setting' = setting, UNCHANGED <<body, final>>,
           Preserves(Setting.symbols, conn, conn'),
           Len(conn'.input) <= MaxInput, conn'.held <= MaxHeld,
           announced' \in {announced, "persist", "close"}, WordKept(conn', announced'),
           last' \in {"Ok", "LocalError"}
    PROVE  Inv'
  <1>1. body \in Bodies /\ BodyFits(conn, body) /\ final \in BOOLEAN
        /\ (final => ~conn.st.keep_alive) /\ announced \in {None, "persist", "close"}
    BY DEF Inv, TypeOK, Bodies
  <1>2. body' \in Bodies /\ BodyFits(conn', body') /\ final' \in BOOLEAN /\ (final' => ~conn'.st.keep_alive)
    BY <1>1 DEF Preserves
  <1>3. announced' \in {None, "persist", "close"}
    BY <1>1
  <1>4. /\ conn' \in Connections(Setting.symbols) /\ Sound(conn')
        /\ conn'.role = conn.role /\ conn'.lenient = conn.lenient
    BY DEF Preserves
  <1>5. last' # "NeedData"
    OBVIOUS
  <1> QED BY <1>2, <1>3, <1>4, <1>5, InvAfter

(* A call that leaves the connection alone.                                 *)
LEMMA NothingDone ==
    ASSUME Inv, setting' = setting, UNCHANGED <<announced, body, final>>, conn' = conn,
           last' \in {"Ok", "LocalError"}
    PROVE  Good
  <1>1. Preserves(Setting.symbols, conn, conn)
    BY SettingTyped DEF Preserves
  <1>2. Len(conn.input) <= MaxInput /\ conn.held <= MaxHeld /\ WordKept(conn, announced)
    BY DEF Inv, TypeOK
  <1>3. Inv'
    BY <1>1, <1>2, CallKeeps
  <1>4. ErrorStep
    BY DEF ErrorStep, NoKeepAliveIf
  <1>5. ProgressStep
    BY DEF ProgressStep
  <1> QED BY <1>3, <1>4, <1>5, SameInput DEF Good

----------------------------------------------------------------------------
(* Receiving.                                                               *)
LEMMA ReceiveDataGood ==
    ASSUME Inv, setting' = setting, NEW symbol \in Setting.symbols, ReceiveData(symbol)
    PROVE  Good
  <1>1. UNCHANGED <<announced, body, final>> /\ Len(conn.input) < MaxInput
    BY DEF ReceiveData
  <1>2. CASE conn.eof
    BY <1>1, <1>2, NothingDone DEF ReceiveData
  <1>3. CASE ~conn.eof
    <2>1. conn' = receive_bytes(conn, <<symbol>>) /\ last' = "Ok"
      BY <1>3 DEF ReceiveData
    <2>2. /\ Preserves(Setting.symbols, conn, conn') /\ conn'.held = conn.held
          /\ Len(conn'.input) = Len(conn.input) + 1
          /\ conn.input = SubSeq(conn'.input, 1, Len(conn.input))
          /\ \A a : WordKept(conn, a) => WordKept(conn', a)
      BY <2>1, SettingTyped, ReceiveSymbolEffect
    <2>3. Len(conn'.input) <= MaxInput /\ conn'.held <= MaxHeld /\ Len(conn.input) <= Len(conn'.input)
      BY <1>1, <2>2, SettingTyped DEF Inv, TypeOK
    <2>4. WordKept(conn', announced')
      BY <1>1, <2>2 DEF Inv
    <2>5. Inv'
      BY <1>1, <2>1, <2>2, <2>3, <2>4, CallKeeps
    <2>6. ErrorStep /\ ProgressStep
      BY <2>1 DEF ErrorStep, ProgressStep
    <2>7. TrailingStep
      BY <2>2, <2>3 DEF TrailingStep
    <2> QED BY <2>5, <2>6, <2>7 DEF Good
  <1> QED BY <1>2, <1>3

(* receive_eof records the end and moves nobody.                            *)
LEMMA ReceiveEofGood ==
    ASSUME Inv, setting' = setting, ReceiveEof
    PROVE  Good
  <1>1. UNCHANGED <<announced, body, final>> /\ conn' = record_eof(conn) /\ last' = "Ok"
    BY DEF ReceiveEof
  <1>2. /\ Preserves(Setting.symbols, conn, conn') /\ conn'.held = conn.held /\ conn'.input = conn.input
        /\ \A a : WordKept(conn, a) => WordKept(conn', a)
    BY <1>1, SettingTyped, RecordEofEffect
  <1>3. Len(conn'.input) <= MaxInput /\ conn'.held <= MaxHeld /\ WordKept(conn', announced')
    BY <1>1, <1>2 DEF Inv, TypeOK
  <1>4. Inv'
    BY <1>1, <1>2, <1>3, CallKeeps
  <1>5. ErrorStep /\ ProgressStep
    BY <1>1 DEF ErrorStep, ProgressStep
  <1> QED BY <1>2, <1>4, <1>5, SameInput DEF Good

(* hold_body_data only counts bytes that lie within the payload to come.    *)
LEMMA HoldBodyDataGood ==
    ASSUME Inv, setting' = setting, NEW count \in 0..MaxHeld, HoldBodyData(count)
    PROVE  Good
  <1>1. UNCHANGED <<announced, body, final>> /\ conn.held + count <= MaxHeld /\ last' = "Ok"
    BY DEF HoldBodyData
  <1>2. CASE ~hold_body_data(conn, count)
    BY <1>1, <1>2, NothingDone DEF HoldBodyData
  <1>3. CASE hold_body_data(conn, count)
    <2>1. conn' = [conn EXCEPT !.held = @ + count]
      BY <1>3 DEF HoldBodyData
    <2>2. /\ Preserves(Setting.symbols, conn, conn') /\ conn'.held = conn.held + count
          /\ conn'.input = conn.input
          /\ \A a : WordKept(conn, a) => WordKept(conn', a)
      <3>1. count \in Nat
        BY SettingTyped
      <3> QED BY <1>3, <2>1, <3>1, SettingTyped, HoldEffect
    <2>3. Len(conn'.input) <= MaxInput /\ conn'.held <= MaxHeld /\ WordKept(conn', announced')
      BY <1>1, <2>2 DEF Inv, TypeOK
    <2>4. Inv'
      BY <1>1, <2>2, <2>3, CallKeeps
    <2>5. ErrorStep /\ ProgressStep
      BY <1>1 DEF ErrorStep, ProgressStep
    <2> QED BY <2>2, <2>4, <2>5, SameInput DEF Good
  <1> QED BY <1>2, <1>3

----------------------------------------------------------------------------
(* Polling.                                                                 *)

(* The body after an event, as Deliver defines it.                          *)
LEMMA DeliverIs ==
    ASSUME NEW p, Deliver(p)
    PROVE  body' = Delivered(conn, body, p)
  BY DEF Deliver, Delivered

(* The head that NoteHead looks at is the first one in the buffer.          *)
LEMMA NotedHead ==
    ASSUME NEW s, NEW k \in 1..Len(s), FirstHead(s, k), DOMAIN s = 1..Len(s), Len(s) \in Nat
    PROVE  (CHOOSE i \in DOMAIN s : /\ s[i].tok = "head"
                                    /\ \A j \in 1..(i - 1) : s[j].tok # "head") = k
  <1> DEFINE P(i) == s[i].tok = "head" /\ \A j \in 1..(i - 1) : s[j].tok # "head"
  <1>1. k \in DOMAIN s /\ P(k)
    BY DEF FirstHead
  <1>2. ASSUME NEW i \in DOMAIN s, P(i) PROVE i = k
    <2>1. i \in Nat /\ k \in Nat /\ i >= 1 /\ k >= 1
      OBVIOUS
    <2>2. ~(i < k)
      BY <1>1, <1>2, <2>1
    <2>3. ~(k < i)
      BY <1>1, <1>2, <2>1
    <2> QED BY <2>1, <2>2, <2>3
  <1> HIDE DEF P
  <1>3. (CHOOSE i \in DOMAIN s : P(i)) = k
    BY <1>1, <1>2
  <1> QED BY <1>3 DEF P

(* next_event_in_place delivers bytes that were held.                       *)
LEMMA NextEventInPlaceGood ==
    ASSUME Inv, setting' = setting, NEW count \in 0..MaxHeld, NextEventInPlace(count)
    PROVE  Good
  <1> DEFINE X == Setting.symbols
  <1>1. PICK p : /\ p = next_event_in_place(conn, count)
                 /\ conn' = p.c /\ last' = p.kind /\ Deliver(p)
    BY DEF NextEventInPlace
  <1>2. UNCHANGED <<announced, final>>
    BY DEF NextEventInPlace
  <1>3. count \in Nat
    BY SettingTyped
  <1>4. InPlaceResult(X, conn, count, p)
    BY <1>1, <1>3, SettingTyped, InPlaceEffect
  <1>5. body' \in Bodies /\ BodyFits(conn', body')
    BY <1>1, <1>4, DeliverIs, SettingTyped DEF InPlaceResult, Inv
  <1>6. /\ conn' \in Connections(X) /\ Sound(conn')
        /\ conn'.role = conn.role /\ conn'.lenient = conn.lenient /\ conn'.input = conn.input
        /\ conn'.st.keep_alive => conn.st.keep_alive
        /\ \/ last' = "LocalError" /\ conn' = conn
           \/ last' = "Data" /\ conn'.held < conn.held
        /\ WordKept(conn', announced)
    <2>1. count \in 1..conn.held => conn.held - count < conn.held
      BY SettingTyped
    <2> QED BY <1>1, <1>4, <2>1 DEF InPlaceResult, Inv
  <1>7. conn'.held <= MaxHeld /\ Len(conn'.input) <= MaxInput
    <2>1. conn.held <= MaxHeld /\ Len(conn.input) <= MaxInput /\ MaxHeld \in Nat /\ conn.held \in Nat
      BY SettingTyped DEF Inv, TypeOK
    <2>2. conn'.held \in Nat
      BY <1>6 DEF Connections
    <2> QED BY <1>6, <2>1, <2>2
  <1>8. announced \in {None, "persist", "close"} /\ final \in BOOLEAN /\ (final => ~conn.st.keep_alive)
    BY DEF Inv, TypeOK
  <1>9. Inv'
    BY <1>2, <1>5, <1>6, <1>7, <1>8, InvAfter
  <1>10. ErrorStep
    BY <1>6 DEF ErrorStep, NoKeepAliveIf
  <1>11. ProgressStep
    <2>1. conn'.held \in Nat /\ conn.held \in Nat /\ Len(conn.input) \in Nat
      BY <1>6, SettingTyped DEF Connections
    <2> QED BY <1>6, <2>1 DEF ProgressStep
  <1> QED BY <1>6, <1>9, <1>10, <1>11, SameInput DEF Good

(* next_event, whatever it reads and however it ends.                       *)
LEMMA NextEventGood ==
    ASSUME Inv, setting' = setting, NextEvent
    PROVE  Good
  <1> DEFINE X == Setting.symbols
  <1>0. PICK due \in BOOLEAN : \E p : /\ p = next_event(conn, due)
                                      /\ conn' = p.c /\ last' = p.kind
                                      /\ Deliver(p) /\ NoteHead(p)
    BY DEF NextEvent
  <1>1. PICK p : /\ p = next_event(conn, due)
                 /\ conn' = p.c /\ last' = p.kind
                 /\ Deliver(p) /\ NoteHead(p)
    BY <1>0
  <1>2. announced' = announced /\ conn.held = 0
    BY DEF NextEvent
  <1>3. PollResult(X, conn, p)
    BY <1>1, <1>2, SettingTyped, NextEventEffect
  <1>4. body' \in Bodies /\ BodyFits(conn', body')
    BY <1>1, <1>3, DeliverIs, SettingTyped DEF PollResult, Inv
  <1>5. /\ conn' \in Connections(X) /\ Sound(conn')
        /\ conn'.role = conn.role /\ conn'.lenient = conn.lenient /\ conn'.held = conn.held
        /\ Len(conn'.input) <= Len(conn.input)
        /\ conn'.st.keep_alive => conn.st.keep_alive
        /\ last' # "LocalError"
        /\ last' = "NeedData" => WithinLimit(conn')
        /\ last' \in Events => \/ Len(conn'.input) < Len(conn.input)
                               \/ /\ last' = "EndOfMessage"
                                  /\ peer_state(conn) = "SendBody" /\ peer_state(conn') # "SendBody"
        /\ peer_state(conn) \in {"Done", "MustClose", "MightSwitchProtocol", "SwitchedProtocol"} =>
              conn'.input = conn.input
        /\ WordKept(conn', announced)
    BY <1>1, <1>3 DEF PollResult, Inv
  <1>6. Len(conn'.input) \in Nat /\ Len(conn.input) \in Nat /\ conn.held \in Nat
    BY <1>5, SettingTyped DEF Connections
  <1>7. conn'.held <= MaxHeld /\ Len(conn'.input) <= MaxInput
    <2>1. conn.held <= MaxHeld /\ Len(conn.input) <= MaxInput /\ MaxInput \in Nat
      BY SettingTyped DEF Inv, TypeOK
    <2> QED BY <1>5, <1>6, <2>1
  <1>8. announced \in {None, "persist", "close"} /\ final \in BOOLEAN /\ (final => ~conn.st.keep_alive)
    BY DEF Inv, TypeOK
  <1>9. final' \in BOOLEAN /\ (final' => ~conn'.st.keep_alive)
    <2> DEFINE at == CHOOSE i \in DOMAIN conn.input :
                        /\ conn.input[i].tok = "head"
                        /\ \A j \in 1..(i - 1) : conn.input[j].tok # "head"
    <2>1. final' = (final \/ (/\ p.kind \in {"Request", "InformationalResponse", "Response"}
                              /\ IsFinal(conn.input[at].h)))
      BY <1>1 DEF NoteHead
    <2>2. ASSUME p.kind \in {"Request", "InformationalResponse", "Response"}, conn'.st.keep_alive
          PROVE  ~IsFinal(conn.input[at].h)
      <3>1. PICK k \in 1..Len(conn.input) : /\ FirstHead(conn.input, k)
                                            /\ p.c.st.keep_alive => ~IsFinal(conn.input[k].h)
        BY <1>3, <2>2 DEF PollResult
      <3>2. DOMAIN conn.input = 1..Len(conn.input)
        BY SettingTyped DEF Connections
      <3>3. at = k
        BY <1>6, <3>1, <3>2, NotedHead
      <3> QED BY <1>1, <2>2, <3>1, <3>3
    <2> HIDE DEF at
    <2>3. final' \in BOOLEAN
      BY <1>8, <2>1
    <2> QED BY <1>5, <1>8, <2>1, <2>2, <2>3
  <1>10. Inv'
    BY <1>2, <1>4, <1>5, <1>7, <1>8, <1>9, InvAfter
  <1>11. ErrorStep
    BY <1>5 DEF ErrorStep
  <1>12. ProgressStep
    BY <1>5, <1>6 DEF ProgressStep, Events
  <1>13. TrailingStep
    <2>1. conn'.input = conn.input => TrailingStep
      BY SameInput
    <2> QED BY <1>5, <2>1 DEF TrailingStep
  <1> QED BY <1>10, <1>11, <1>12, <1>13 DEF Good

----------------------------------------------------------------------------
(* Sending.  A call of either kind, from its outcome r.                     *)
LEMMA SentGood ==
    ASSUME Inv, setting' = setting, UNCHANGED <<body, final>>, NEW r,
           SendResult(Setting.symbols, conn, r), conn' = r.c,
           last' = (IF r.ok THEN "Ok" ELSE "LocalError"),
           announced' \in {announced, "persist", "close"}, WordKept(conn', announced')
    PROVE  Good
  <1>1. Moves(Setting.symbols, conn, conn')
    BY SettingTyped, MovesNowhere DEF SendResult
  <1>2. Preserves(Setting.symbols, conn, conn') /\ conn'.held = conn.held /\ conn'.input = conn.input
    BY <1>1, SettingTyped, MovesPreserve
  <1>3. Len(conn'.input) <= MaxInput /\ conn'.held <= MaxHeld
    BY <1>2 DEF Inv, TypeOK
  <1>4. last' \in {"Ok", "LocalError"} /\ (last' = "LocalError" => conn' = conn)
    BY DEF SendResult
  <1>5. Inv'
    BY <1>2, <1>3, <1>4, CallKeeps
  <1>6. ErrorStep /\ ProgressStep
    BY <1>4 DEF ErrorStep, ProgressStep, NoKeepAliveIf
  <1> QED BY <1>2, <1>5, <1>6, SameInput DEF Good

(* A call that sends anything but a response.                               *)
LEMMA CallGood ==
    ASSUME Inv, setting' = setting, NEW r, Sends(Setting.symbols, conn, r), Call({r})
    PROVE  Good
  <1>1. /\ UNCHANGED <<announced, body, final>> /\ conn' = r.c
        /\ last' = (IF r.ok THEN "Ok" ELSE "LocalError")
    BY DEF Call
  <1>2. WordKept(conn', announced')
    BY <1>1 DEF Sends, Inv
  <1> QED BY <1>1, <1>2, SentGood DEF Sends

(* A call that sends a response.                                            *)
LEMMA RespondGood ==
    ASSUME Inv, setting' = setting, NEW r, Answers(Setting.symbols, conn, r), Respond({r})
    PROVE  Good
  <1>1. /\ UNCHANGED <<body, final>> /\ conn' = r.c
        /\ last' = (IF r.ok THEN "Ok" ELSE "LocalError") /\ Announce(r)
    BY DEF Respond
  <1>2. announced' = Announced(conn, r, announced)
    BY <1>1 DEF Announce, Announced, Says
  <1>3. WordKept(conn', announced') /\ announced' \in {announced, "persist", "close"}
    BY <1>1, <1>2 DEF Answers, Inv
  <1> QED BY <1>1, <1>3, SentGood DEF Answers

(* The sends, which change nothing when they are refused.                   *)
LEMMA SendingGood ==
    ASSUME Inv, setting' = setting, Sending
    PROVE  Good
  <1> DEFINE X == Setting.symbols
  <1>1. conn \in Connections(X) /\ Coherent(conn) /\ Setting.heads \subseteq MessageHeads
        /\ 0..MaxData \subseteq Nat
    BY SettingTyped
  <1>2. Requests \subseteq MessageHeads /\ Responses \subseteq MessageHeads
    BY <1>1 DEF Requests, Responses
  <1>3. ASSUME NEW h \in Requests, SendRequest(h) PROVE Good
    BY <1>1, <1>2, <1>3, SendRequestSends, CallGood DEF SendRequest
  <1>4. ASSUME NEW h \in Requests, NEW n \in 0..MaxData, SendRequestWithBody(h, n) PROVE Good
    BY <1>1, <1>2, <1>4, SendRequestWithBodySends, CallGood DEF SendRequestWithBody
  <1>5. ASSUME NEW h \in Responses, SendResponse(h) PROVE Good
    BY <1>1, <1>2, <1>5, SendResponseAnswers, RespondGood DEF SendResponse
  <1>6. ASSUME NEW h \in Responses, SendInformationalResponse(h) PROVE Good
    BY <1>1, <1>2, <1>6, SendInformationalSends, CallGood DEF SendInformationalResponse
  <1>7. ASSUME NEW h \in Responses, NEW n \in 0..MaxData, SendResponseWithBody(h, n) PROVE Good
    BY <1>1, <1>2, <1>7, SendResponseWithBodyAnswers, RespondGood DEF SendResponseWithBody
  <1>8. ASSUME NEW n \in 0..MaxData, SendData(n) PROVE Good
    BY <1>1, <1>8, SendDataSends, CallGood DEF SendData
  <1>9. ASSUME NEW trailers, EndOfMessage(trailers) PROVE Good
    BY <1>1, <1>9, EndOfMessageSends, CallGood DEF EndOfMessage
  <1> QED BY <1>3, <1>4, <1>5, <1>6, <1>7, <1>8, <1>9 DEF Sending

----------------------------------------------------------------------------
(* A new cycle clears what belongs to the exchange, and a head that ruled   *)
(* it out was not received.                                                 *)
LEMMA StartNextCycleGood ==
    ASSUME Inv, setting' = setting, StartNextCycle
    PROVE  Good
  <1> DEFINE X == Setting.symbols
  <1>1. conn \in Connections(X) /\ Sound(conn)
    BY SettingTyped
  <1>2. Len(conn.input) <= MaxInput /\ conn.held <= MaxHeld
    BY DEF Inv, TypeOK
  <1>3. CASE CanReuse(conn)
    <2>1. /\ conn' = start_next_cycle(conn) /\ last' = "Ok" /\ announced' = None
          /\ body' = NoBody /\ final' = final
      BY <1>3 DEF StartNextCycle
    <2>2. /\ conn' \in Connections(X) /\ Sound(conn') /\ conn.st.keep_alive
          /\ conn'.role = conn.role /\ conn'.lenient = conn.lenient
          /\ conn'.held = conn.held /\ conn'.input = conn.input
          /\ BodyFits(conn', NoBody) /\ WordKept(conn', None)
      BY <1>1, <1>3, <2>1, StartNextCycleEffect
    <2>3. final = FALSE
      BY <2>2 DEF Inv, TypeOK
    <2>4. NoBody \in Bodies
      BY DEF NoBody, Bodies
    <2>5. Inv'
      BY <1>2, <2>1, <2>2, <2>3, <2>4, InvAfter
    <2>6. ErrorStep /\ ProgressStep
      BY <2>1 DEF ErrorStep, ProgressStep
    <2> QED BY <2>2, <2>5, <2>6, SameInput DEF Good
  <1>4. CASE ~CanReuse(conn)
    <2>1. /\ conn' = NoKeepAliveIf(UnsolicitedBytes(conn), conn) /\ last' = "LocalError"
          /\ UNCHANGED <<announced, body, final>>
      BY <1>4 DEF StartNextCycle
    <2>2. /\ Preserves(X, conn, conn') /\ conn'.held = conn.held /\ conn'.input = conn.input
          /\ \A a : WordKept(conn, a) => WordKept(conn', a)
      BY <1>1, <2>1, UnsolicitedEffect
    <2>3. WordKept(conn', announced')
      BY <2>1, <2>2 DEF Inv
    <2>4. Inv'
      BY <1>2, <2>1, <2>2, <2>3, CallKeeps
    <2>5. ErrorStep
      <3>1. CASE conn'.st = conn.st
        <4>1. conn' = conn
          BY <1>1, <2>1, <3>1 DEF NoKeepAliveIf, Connections
        <4> QED BY <4>1 DEF ErrorStep, NoKeepAliveIf
      <3>2. CASE conn'.st # conn.st
        <4>1. UnsolicitedBytes(conn)
          BY <2>1, <3>2 DEF NoKeepAliveIf
        <4> QED BY <2>1, <3>2, <4>1 DEF ErrorStep, NoKeepAliveIf
      <3> QED BY <3>1, <3>2
    <2>6. ProgressStep
      BY <2>1 DEF ProgressStep
    <2> QED BY <2>2, <2>4, <2>5, <2>6, SameInput DEF Good
  <1> QED BY <1>3, <1>4

(* close, which only moves the local actor.                                 *)
LEMMA CloseGood ==
    ASSUME Inv, setting' = setting, Close
    PROVE  Good
  <1> DEFINE X == Setting.symbols
             allowed == LocalAccepts(conn, StateEvent("ConnectionClosed"))
  <1>1. conn \in Connections(X) /\ Sound(conn) /\ Coherent(conn)
    BY SettingTyped
  <1>2. UNCHANGED <<announced, body, final>>
    BY DEF Close
  <1>3. CASE allowed
    <2>1. conn' = close(conn) /\ last' = "Ok"
      BY <1>3 DEF Close
    <2>2. Moves(X, conn, conn') /\ \A a : WordKept(conn, a) => WordKept(conn', a)
      BY <1>1, <1>3, <2>1, CloseEffect
    <2>3. Preserves(X, conn, conn') /\ conn'.held = conn.held /\ conn'.input = conn.input
      BY <1>1, <2>2, MovesPreserve
    <2>4. Len(conn'.input) <= MaxInput /\ conn'.held <= MaxHeld /\ WordKept(conn', announced')
      BY <1>2, <2>2, <2>3 DEF Inv, TypeOK
    <2>5. Inv'
      BY <1>2, <2>1, <2>3, <2>4, CallKeeps
    <2>6. ErrorStep /\ ProgressStep
      BY <2>1 DEF ErrorStep, ProgressStep
    <2> QED BY <2>3, <2>5, <2>6, SameInput DEF Good
  <1>4. CASE ~allowed
    BY <1>2, <1>4, NothingDone DEF Close
  <1> QED BY <1>3, <1>4

----------------------------------------------------------------------------
(* Every call of a caller and every behaviour of a peer.                    *)
LEMMA StepGood ==
    ASSUME Inv, Next
    PROVE  Good
  <1>1. setting' = setting
    BY DEF Next
  <1>2. CASE Receiving
    BY <1>1, <1>2, ReceiveDataGood, ReceiveEofGood, HoldBodyDataGood DEF Receiving
  <1>3. CASE Polling
    BY <1>1, <1>3, NextEventInPlaceGood, NextEventGood DEF Polling
  <1>4. CASE Sending
    BY <1>1, <1>4, SendingGood
  <1>5. CASE StartNextCycle
    BY <1>1, <1>5, StartNextCycleGood
  <1>6. CASE Close
    BY <1>1, <1>6, CloseGood
  <1> QED BY <1>2, <1>3, <1>4, <1>5, <1>6 DEF Next

(* A new connection satisfies the invariant.                                *)
LEMMA InitIsGood == Init => Inv
  <1> SUFFICES ASSUME Init PROVE Inv
    OBVIOUS
  <1>1. /\ setting \in DOMAIN Settings /\ conn = NewConnection(Setting.role, Setting.lenient)
        /\ last = "Ok" /\ announced = None /\ body = NoBody /\ final = FALSE
    BY DEF Init
  <1>2. Setting.role \in Roles /\ Setting.lenient \in BOOLEAN /\ MaxInput \in Nat /\ MaxHeld \in Nat
    BY <1>1, ConnectionAssumption DEF Setting
  <1>3. conn \in Connections(Setting.symbols)
    BY <1>1, <1>2, NewConnectionTyped
  <1>4. /\ conn.role = Setting.role /\ conn.lenient = Setting.lenient /\ conn.input = <<>>
        /\ conn.held = 0 /\ conn.st = new /\ conn.cycle = DefaultCycle
    BY <1>1 DEF NewConnection
  <1>6. conn.cycle.reader = ReadHead
    BY <1>4 DEF DefaultCycle
  <1>9. Sound(conn)
    BY <1>1, <1>2, NewConnectionSound
  <1>10. BodyFits(conn, body) /\ WordKept(conn, announced)
    BY <1>1, <1>6 DEF BodyFits, NoBody, WordKept, None, ReadHead, Reader
  <1>11. TypeOK
    <2>1. NoBody \in [due : Nat, got : Nat, open : BOOLEAN]
      BY DEF NoBody
    <2>2. Len(conn.input) = 0
      BY <1>4
    <2>3. Len(conn.input) <= MaxInput /\ conn.held <= MaxHeld
      BY <1>2, <1>4, <2>2
    <2>4. /\ announced \in {None, "persist", "close"} /\ final \in BOOLEAN
          /\ body \in [due : Nat, got : Nat, open : BOOLEAN]
      BY <1>1, <2>1
    <2> QED BY <1>1, <1>3, <1>4, <2>3, <2>4 DEF TypeOK
  <1> QED BY <1>1, <1>9, <1>10, <1>11 DEF Inv

(* The invariant holds in every reachable state.                            *)
LEMMA InvHolds == Spec => []Inv
  <1>1. Inv /\ [Next]_vars => Inv'
    <2>1. Inv /\ Next => Inv'
      BY StepGood DEF Good
    <2>2. Inv /\ UNCHANGED vars => Inv'
      BY DEF vars, Inv, TypeOK, Setting
    <2> QED BY <2>1, <2>2
  <1> QED BY InitIsGood, <1>1, PTL DEF Spec

----------------------------------------------------------------------------
(* The fields of the Connection struct keep their types: no subtraction of  *)
(* the decoder or the writer goes below zero, and the role never changes.   *)
THEOREM ConnectionTyped == Spec => []TypeOK
  <1>1. Inv => TypeOK
    BY DEF Inv
  <1> QED BY <1>1, InvHolds, PTL

(* Whatever the calls of a connection do to its state, they keep it lawful. *)
THEOREM LifecycleHolds == Spec => []LifecycleInvariant
  <1>1. Inv => LifecycleInvariant
    <2> SUFFICES ASSUME Inv PROVE LifecycleInvariant
      OBVIOUS
    <2>1. conn.st \in ConnectionStates /\ Stable(conn.st) /\ Joint(conn.st)
      BY DEF Inv, Sound, Coherent, Lawful
    <2>2. S!Stabilized
      <3>1. ASSUME NEW c PROVE S!ResolveSwitch(c) = ResolveSwitch(c)
        BY Zenon DEF S!ResolveSwitch, ResolveSwitch
      <3>2. ASSUME NEW c PROVE S!RequireClose(c) = RequireClose(c)
        BY Zenon DEF S!RequireClose, RequireClose
      <3>3. ASSUME NEW c PROVE S!PropagateClose(c) = PropagateClose(c)
        BY Zenon DEF S!PropagateClose, PropagateClose
      <3>4. S!StabilizePass(conn.st) = StabilizePass(conn.st)
        BY <3>1, <3>2, <3>3 DEF S!StabilizePass, StabilizePass
      <3> QED BY <2>1, <3>4, PassEstablishesStable DEF S!Stabilized
    <2>3. S!ExchangeOrder /\ S!SwitchDecision
      BY <2>1 DEF S!ExchangeOrder, S!SwitchDecision, Joint
    <2>4. S!CompleteIsReusable
      BY <2>1 DEF S!CompleteIsReusable, S!CanStartNextCycle, S!keep_alive, Joint, Stable, Resolved, Closing
    <2> QED BY <2>2, <2>3, <2>4 DEF LifecycleInvariant
  <1> QED BY <1>1, InvHolds, PTL

(* cycle.writer exists exactly while the local actor is in its body.        *)
THEOREM WriterFollowsState == Spec => []WriterMatchesState
  <1>1. Inv => WriterMatchesState
    BY DEF Inv, Sound, Coherent, WriterMatches, WriterMatchesState
  <1> QED BY <1>1, InvHolds, PTL

(* cycle.reader is inside a body exactly while the peer sends one.          *)
THEOREM ReaderFollowsState == Spec => []ReaderMatchesState
  <1>1. Inv => ReaderMatchesState
    BY DEF Inv, Sound, ReaderMatches, ReaderMatchesState
  <1> QED BY <1>1, InvHolds, PTL

(* Between hold_body_data and next_event_in_place the decoder stays inside  *)
(* a payload with room for every held byte.                                 *)
THEOREM HeldStaysPayload == Spec => []HeldIsPayload
  <1>1. Inv => HeldIsPayload
    BY DEF Inv, Sound, HeldFits, HeldIsPayload
  <1> QED BY <1>1, InvHolds, PTL

(* The Data events of a body or a chunk add up to its declared length.      *)
THEOREM BodiesAddUp == Spec => []BodyAddsUp
  <1>1. Inv => BodyAddsUp
    BY DEF Inv, BodyFits, BodyAddsUp
  <1> QED BY <1>1, InvHolds, PTL

(* A head that rules out a next message, and a body that only the end of    *)
(* the connection delimits, end keep-alive for good.                        *)
THEOREM FinalHeadsEndReuse == Spec => []FinalHeadEndsReuse
  <1>1. Inv => FinalHeadEndsReuse
    BY DEF Inv, Sound, Coherent, ReaderShape, FinalHeadEndsReuse, CloseDelimited
  <1> QED BY <1>1, InvHolds, PTL

(* What send_response said of reuse holds until the next cycle.             *)
THEOREM AnnouncementsKept == Spec => []AnnouncementKept
  <1>1. Inv => AnnouncementKept
    BY DEF Inv, WordKept, AnnouncementKept
  <1> QED BY <1>1, InvHolds, PTL

(* The proposals of the state machine and of the cycle agree until the      *)
(* server has decided.                                                      *)
THEOREM ProposalsStayAgreed == Spec => []ProposalsAgree
  <1>1. Inv => ProposalsAgree
    <2> SUFFICES ASSUME Inv, conn.st.server = "SendResponse"
                 PROVE  conn.st.proposals = {k \in SwitchKinds :
                                                IF k = "Connect" THEN conn.cycle.request_kind = "CONNECT"
                                                ELSE conn.cycle.upgrade_proposals # {}}
      BY DEF ProposalsAgree
    <2>1. /\ ("Connect" \in conn.st.proposals) <=> (conn.cycle.request_kind = "CONNECT")
          /\ ("Upgrade" \in conn.st.proposals) <=> (conn.cycle.upgrade_proposals # {})
          /\ conn.st.proposals \subseteq SwitchKinds
      BY DEF Inv, Sound, Coherent, ProposalsMatch, Lawful, ConnectionStates
    <2> QED BY <2>1 DEF SwitchKinds
  <1> QED BY <1>1, InvHolds, PTL

(* max_head_bytes bounds what a poll leaves unparsed when it asks for more, *)
(* and the extensions of all chunks of an accepted body together.           *)
THEOREM LimitsAlwaysHold == Spec => []LimitsHold
  <1>1. Inv => LimitsHold
    BY DEF Inv, Sound, ExtensionsFit, LimitsHold
  <1> QED BY <1>1, InvHolds, PTL

(* Nobody waits for 100 Continue once the server has answered or switched.  *)
THEOREM AnswerEndsWait == Spec => []NoWaitAfterAnswer
  <1>1. Inv => NoWaitAfterAnswer
    BY DEF Inv, Sound, Coherent, WaitMatches, NoWaitAfterAnswer
  <1> QED BY <1>1, InvHolds, PTL

----------------------------------------------------------------------------
(* A call that fails with LocalProtocolError changes nothing, the rollback  *)
(* of send_complete included.                                               *)
THEOREM LocalErrorsChangeNothing == Spec => LocalErrorChangesNothing
  <1>1. Inv /\ [Next]_vars => [ErrorStep]_vars
    BY StepGood DEF Good
  <1> QED BY <1>1, InvHolds, PTL DEF Spec, LocalErrorChangesNothing, ErrorStep

(* Every event that next_event or next_event_in_place returns takes bytes   *)
(* or moves the peer out of its body.                                       *)
THEOREM EventsMakeProgress == Spec => EventsProgress
  <1>1. Inv /\ [Next]_vars => [ProgressStep]_vars
    BY StepGood DEF Good
  <1> QED BY <1>1, InvHolds, PTL DEF Spec, EventsProgress, ProgressStep

(* No call takes away or reorders the bytes that follow a complete message  *)
(* or a protocol switch (trailing_data).                                    *)
THEOREM TrailingBytesKept == Spec => TrailingDataKept
  <1>1. Inv /\ [Next]_vars => [TrailingStep]_vars
    BY StepGood DEF Good
  <1> QED BY <1>1, InvHolds, PTL DEF Spec, TrailingDataKept, TrailingStep
=============================================================================
