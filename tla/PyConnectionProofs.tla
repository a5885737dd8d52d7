-------------------------- MODULE PyConnectionProofs --------------------------
(***************************************************************************)
(* Proofs about PyConnection, for every setting: the core connection and    *)
(* the queue of the binding never disagree, and the queue cannot be told    *)
(* from outside.                                                            *)
(***************************************************************************)
EXTENDS PyConnection, CallProofs

LOCAL INSTANCE SequencesExt

----------------------------------------------------------------------------
(* FlattenSeq, which joins the objects of the queue one by one.             *)

(* Its partial results, for the first m sequences of q.                     *)
Joins(f, q, m) == f = [i \in 1..m |-> IF i = 1 THEN q[i] ELSE f[i - 1] \o q[i]]

(* FlattenSeq returns the last of them.                                     *)
LEMMA FlattenIsJoin ==
    ASSUME NEW q, Len(q) # 0
    PROVE  FlattenSeq(q) = (CHOOSE f : Joins(f, q, Len(q)))[Len(q)]
  BY Zenon DEF FlattenSeq, Joins

(* They exist, whatever the sequences.                                      *)
LEMMA JoinsExist ==
    ASSUME NEW q, NEW n \in Nat
    PROVE  \E f : Joins(f, q, n)
  <1> DEFINE Without == {m \in Nat : ~ \E f : Joins(f, q, m)}
  <1>1. SUFFICES ASSUME Without # {} PROVE FALSE
    OBVIOUS
  <1>2. PICK m \in Without : \A k \in Without : m <= k
    BY <1>1, LeastExists
  <1>3. m # 0
    <2> DEFINE z == [i \in 1..0 |-> q[i]]
    <2>1. z = [i \in 1..0 |-> IF i = 1 THEN q[i] ELSE z[i - 1] \o q[i]]
      OBVIOUS
    <2> QED BY <2>1 DEF Joins
  <1>4. m \in Nat /\ m - 1 \in Nat /\ m - 1 \notin Without
    BY <1>2, <1>3
  <1>5. PICK f : Joins(f, q, m - 1)
    BY <1>4
  <1> DEFINE next == IF m = 1 THEN q[m] ELSE f[m - 1] \o q[m]
             g == [i \in 1..m |-> IF i < m THEN f[i] ELSE next]
  <1>6. ASSUME NEW i \in 1..m
        PROVE  g[i] = IF i = 1 THEN q[i] ELSE g[i - 1] \o q[i]
    <2>1. CASE i < m
      <3>1. i \in 1..(m - 1) /\ g[i] = f[i] /\ (i # 1 => g[i - 1] = f[i - 1])
        BY <1>4, <2>1
      <3>2. f[i] = IF i = 1 THEN q[i] ELSE f[i - 1] \o q[i]
        BY <1>5, <3>1 DEF Joins
      <3> QED BY <3>1, <3>2
    <2>2. CASE i = m
      <3>1. g[m] = next /\ (m # 1 => g[m - 1] = f[m - 1])
        BY <1>3, <1>4
      <3> HIDE DEF g
      <3> QED BY <3>1, <2>2
    <2> QED BY <2>1, <2>2, <1>4
  <1>7. Joins(g, q, m)
    <2> HIDE DEF next
    <2> QED BY <1>6 DEF Joins
  <1> QED BY <1>2, <1>7

(* FlattenSeq of a queue that is not empty is one of them.                  *)
LEMMA FlattenJoins ==
    ASSUME NEW q, Len(q) \in Nat \ {0}
    PROVE  \E f : Joins(f, q, Len(q)) /\ FlattenSeq(q) = f[Len(q)]
  <1>1. \E f : Joins(f, q, Len(q))
    BY JoinsExist
  <1>2. Joins(CHOOSE f : Joins(f, q, Len(q)), q, Len(q))
    BY <1>1, Zenon
  <1> QED BY <1>2, FlattenIsJoin, Zenon

(* They are sequences.                                                      *)
LEMMA JoinsTyped ==
    ASSUME NEW X, NEW q, NEW m \in Nat, \A i \in 1..m : q[i] \in Seq(X),
           NEW f, Joins(f, q, m), NEW n \in 1..m
    PROVE  f[n] \in Seq(X)
  <1> DEFINE P(i) == f[i] \in Seq(X)
             Wrong == {i \in 1..m : ~P(i)}
  <1> HIDE DEF P
  <1>1. SUFFICES ASSUME Wrong # {} PROVE FALSE
    <2>1. Wrong = {} => P(n)
      OBVIOUS
    <2> QED BY <2>1 DEF P
  <1>2. Wrong \subseteq Nat
    OBVIOUS
  <1>3. PICK i \in Wrong : \A k \in Wrong : i <= k
    BY <1>1, <1>2, LeastExists
  <1>4. /\ i \in 1..m /\ q[i] \in Seq(X) /\ ~P(i)
        /\ i # 1 => i - 1 \in 1..m /\ P(i - 1)
    BY <1>3
  <1> HIDE DEF Wrong
  <1>5. f[i] = IF i = 1 THEN q[i] ELSE f[i - 1] \o q[i]
    BY <1>4 DEF Joins
  <1>6. i # 1 => f[i - 1] \in Seq(X)
    BY <1>4 DEF P
  <1>7. f[i] \in Seq(X)
    BY <1>4, <1>5, <1>6, ConcatProperties
  <1> QED BY <1>4, <1>7 DEF P

(* Those of two queues that begin alike are alike.                          *)
LEMMA JoinsAgree ==
    ASSUME NEW f, NEW q, NEW g, NEW r, NEW m \in Nat, NEW l \in Nat, m <= l,
           Joins(f, q, m), Joins(g, r, l), \A i \in 1..m : q[i] = r[i], NEW n \in 1..m
    PROVE  f[n] = g[n]
  <1> DEFINE P(i) == f[i] = g[i]
             Wrong == {i \in 1..m : ~P(i)}
  <1> HIDE DEF P
  <1>1. SUFFICES ASSUME Wrong # {} PROVE FALSE
    <2>1. Wrong = {} => P(n)
      OBVIOUS
    <2> QED BY <2>1 DEF P
  <1>2. Wrong \subseteq Nat
    OBVIOUS
  <1>3. PICK i \in Wrong : \A k \in Wrong : i <= k
    BY <1>1, <1>2, LeastExists
  <1>4. /\ i \in 1..m /\ i \in 1..l /\ q[i] = r[i] /\ ~P(i)
        /\ i # 1 => i - 1 \in 1..m /\ P(i - 1)
    BY <1>3
  <1> HIDE DEF Wrong
  <1>5. \A k \in 1..m : f[k] = IF k = 1 THEN q[k] ELSE f[k - 1] \o q[k]
    BY DEF Joins
  <1>6. \A k \in 1..l : g[k] = IF k = 1 THEN r[k] ELSE g[k - 1] \o r[k]
    BY DEF Joins
  <1>7. i # 1 => f[i - 1] = g[i - 1]
    BY <1>4 DEF P
  <1>8. f[i] = g[i]
    BY <1>4, <1>5, <1>6, <1>7
  <1> QED BY <1>4, <1>8 DEF P

(* The m sequences of r follow the first one of q.                          *)
Follow(X, r, q, m) ==
    /\ \A i \in 1..(m + 1) : q[i] \in Seq(X)
    /\ \A i \in 1..m : r[i] = q[i + 1]

(* The m-th partial result lacks only the first one.                        *)
Lacks(g, f, first, m) == f[m + 1] = first \o g[m]

(* The partial results of both.                                             *)
LEMMA JoinsShift ==
    ASSUME NEW X, NEW q, NEW r, NEW m \in Nat, m # 0, Follow(X, r, q, m),
           NEW f, Joins(f, q, m + 1), NEW g, Joins(g, r, m)
    PROVE  Lacks(g, f, q[1], m)
  <1> DEFINE P(i) == f[i + 1] = q[1] \o g[i]
             Wrong == {i \in 1..m : ~P(i)}
  <1> HIDE DEF P
  <1>1. SUFFICES ASSUME Wrong # {} PROVE FALSE
    <2>1. Wrong = {} => P(m)
      OBVIOUS
    <2> QED BY <2>1 DEF P, Lacks
  <1>2. Wrong \subseteq Nat /\ m + 1 \in Nat
    OBVIOUS
  <1>3. PICK i \in Wrong : \A k \in Wrong : i <= k
    BY <1>1, <1>2, LeastExists
  <1>4. /\ i \in 1..m /\ i \in 1..((m + 1) - 1) /\ 1 \in 1..(m + 1) /\ (i - 1) + 1 = i
        /\ ~P(i) /\ (i # 1 => i - 1 \in 1..m /\ P(i - 1))
    BY <1>3
  <1> HIDE DEF Wrong
  <1>5. r[i] = q[i + 1] /\ r[i] \in Seq(X) /\ q[1] \in Seq(X)
    BY <1>4 DEF Follow
  <1>6. f[i + 1] = f[i] \o r[i] /\ f[1] = q[1]
    <2>1. \A k \in 1..(m + 1) : f[k] = IF k = 1 THEN q[k] ELSE f[k - 1] \o q[k]
      BY DEF Joins
    <2>2. i + 1 \in 1..(m + 1) /\ i + 1 # 1 /\ (i + 1) - 1 = i
      BY <1>4
    <2>3. f[i + 1] = IF i + 1 = 1 THEN q[i + 1] ELSE f[(i + 1) - 1] \o q[i + 1]
      BY <2>1, <2>2
    <2> QED BY <1>4, <1>5, <2>1, <2>2, <2>3
  <1>7. g[i] = IF i = 1 THEN r[i] ELSE g[i - 1] \o r[i]
    BY <1>4 DEF Joins
  <1>9. CASE i = 1
    BY <1>4, <1>6, <1>7, <1>9 DEF P
  <1>10. CASE i # 1
    <2>1. f[i] = q[1] \o g[i - 1]
      BY <1>4, <1>10 DEF P
    <2>2. g[i - 1] \in Seq(X)
      <3>1. \A k \in 1..m : r[k] \in Seq(X)
        BY DEF Follow
      <3> QED BY <1>4, <1>10, <3>1, JoinsTyped
    <2>3. (q[1] \o g[i - 1]) \o r[i] = q[1] \o (g[i - 1] \o r[i])
      <3>1. \A a, b, z \in Seq(X) : (a \o b) \o z = a \o (b \o z)
        BY ConcatAssociative
      <3> QED BY <1>5, <2>2, <3>1
    <2> QED BY <1>4, <1>6, <1>7, <1>10, <2>1, <2>3 DEF P
  <1> QED BY <1>9, <1>10

(* What the model needs of it: no queue, one object more, one object less.  *)
LEMMA FlattenEmpty == FlattenSeq(<<>>) = <<>>
  BY EmptySeq DEF FlattenSeq

(* It is a sequence of what the objects are made of.                        *)
LEMMA FlattenTyped ==
    ASSUME NEW X, NEW q \in Seq(Seq(X))
    PROVE  FlattenSeq(q) \in Seq(X)
  <1>1. CASE q = <<>>
    BY <1>1, FlattenEmpty, EmptySeq
  <1>2. CASE q # <<>>
    <2>1. Len(q) \in Nat \ {0} /\ Len(q) \in 1..Len(q)
      BY <1>2, EmptySeq
    <2>2. PICK f : Joins(f, q, Len(q)) /\ FlattenSeq(q) = f[Len(q)]
      BY <2>1, FlattenJoins
    <2>3. \A i \in 1..Len(q) : q[i] \in Seq(X)
      OBVIOUS
    <2> QED BY <2>1, <2>2, <2>3, JoinsTyped
  <1> QED BY <1>1, <1>2

(* An object that joins the queue comes last.                               *)
LEMMA FlattenAppend ==
    ASSUME NEW X, NEW q \in Seq(Seq(X)), NEW s \in Seq(X)
    PROVE  FlattenSeq(Append(q, s)) = FlattenSeq(q) \o s
  <1> DEFINE r == Append(q, s)
             n == Len(q)
  <1>1. /\ r \in Seq(Seq(X)) /\ Len(r) = n + 1 /\ r[n + 1] = s /\ n \in Nat
        /\ \A i \in 1..n : r[i] = q[i]
    BY AppendProperties
  <1> HIDE DEF r
  <1>2. PICK g : Joins(g, r, Len(r)) /\ FlattenSeq(r) = g[Len(r)]
    BY <1>1, FlattenJoins
  <1>3. g[n + 1] = IF n + 1 = 1 THEN r[n + 1] ELSE g[(n + 1) - 1] \o r[n + 1]
    <2>1. \A k \in 1..Len(r) : g[k] = IF k = 1 THEN r[k] ELSE g[k - 1] \o r[k]
      BY <1>2 DEF Joins
    <2>2. n + 1 \in 1..Len(r)
      BY <1>1
    <2> HIDE DEF n
    <2> QED BY <2>1, <2>2
  <1>4. CASE q = <<>>
    <2>1. n = 0
      BY <1>4, EmptySeq
    <2>2. FlattenSeq(r) = s
      BY <1>1, <1>2, <1>3, <2>1
    <2> QED BY <1>4, <2>2, FlattenEmpty, ConcatEmptySeq DEF r
  <1>5. CASE q # <<>>
    <2>1. n \in Nat \ {0} /\ n \in 1..n /\ (n + 1) - 1 = n /\ n + 1 # 1 /\ n <= n + 1
      BY <1>5, EmptySeq
    <2>2. PICK f : Joins(f, q, n) /\ FlattenSeq(q) = f[n]
      BY <2>1, FlattenJoins
    <2>3. f[n] = g[n]
      <3>1. Joins(g, r, n + 1) /\ n + 1 \in Nat /\ \A i \in 1..n : q[i] = r[i]
        BY <1>1, <1>2
      <3> HIDE DEF n
      <3> QED BY <2>1, <2>2, <3>1, JoinsAgree
    <2>4. g[n + 1] = g[n] \o s
      BY <1>1, <1>3, <2>1
    <2>5. FlattenSeq(r) = FlattenSeq(q) \o s
      BY <1>1, <1>2, <2>2, <2>3, <2>4
    <2> QED BY <2>5 DEF r
  <1> QED BY <1>4, <1>5

(* The oldest object comes first.                                           *)
LEMMA FlattenTail ==
    ASSUME NEW X, NEW q \in Seq(Seq(X)), q # <<>>
    PROVE  /\ Head(q) \in Seq(X) /\ Tail(q) \in Seq(Seq(X))
           /\ FlattenSeq(q) = Head(q) \o FlattenSeq(Tail(q))
  <1> DEFINE r == Tail(q)
  <1>1. /\ Head(q) = q[1] /\ q[1] \in Seq(X) /\ r \in Seq(Seq(X)) /\ Len(q) = Len(r) + 1
        /\ Len(r) \in Nat /\ Len(q) \in Nat \ {0} /\ \A i \in 1..Len(r) : r[i] = q[i + 1]
    <2>1. Len(q) \in Nat \ {0}
      BY EmptySeq
    <2>2. r \in Seq(Seq(X)) /\ Len(r) = Len(q) - 1 /\ \A i \in 1..Len(r) : r[i] = q[i + 1]
      BY <2>1, HeadTailProperties
    <2> HIDE DEF r
    <2> QED BY <2>1, <2>2
  <1> HIDE DEF r
  <1>2. PICK f : Joins(f, q, Len(q)) /\ FlattenSeq(q) = f[Len(q)]
    BY <1>1, FlattenJoins
  <1>3. CASE r = <<>>
    <2>1. Len(r) = 0 /\ Len(q) = 1
      BY <1>1, <1>3, EmptySeq
    <2>2. f[1] = q[1]
      BY <1>1, <1>2 DEF Joins
    <2>3. FlattenSeq(q) = q[1]
      BY <1>2, <2>1, <2>2
    <2>4. q[1] \o <<>> = q[1]
      BY <1>1, ConcatEmptySeq
    <2> QED BY <1>1, <1>3, <2>3, <2>4, FlattenEmpty DEF r
  <1>4. CASE r # <<>>
    <2>1. Len(r) \in Nat \ {0} /\ Len(r) \in 1..Len(r)
      BY <1>1, <1>4, EmptySeq
    <2>2. PICK g : Joins(g, r, Len(r)) /\ FlattenSeq(r) = g[Len(r)]
      BY <2>1, FlattenJoins
    <2>3. f[Len(r) + 1] = q[1] \o g[Len(r)]
      <3> DEFINE m == Len(r)
      <3>1. /\ m \in Nat /\ m # 0 /\ Joins(f, q, m + 1) /\ Joins(g, r, m)
            /\ Follow(X, r, q, m)
        BY <1>1, <1>2, <2>1, <2>2 DEF Follow
      <3> HIDE DEF m
      <3>2. Lacks(g, f, q[1], m)
        BY <3>1, JoinsShift
      <3> QED BY <3>2 DEF m, Lacks
    <2>4. FlattenSeq(q) = q[1] \o FlattenSeq(r)
      BY <1>1, <1>2, <2>2, <2>3
    <2> QED BY <1>1, <2>4 DEF r
  <1> QED BY <1>3, <1>4

----------------------------------------------------------------------------
(* The inductive invariant.  That the held bytes lie within the payload, a  *)
(* part of Sound, is why no object is refused once it has left the queue.   *)
Queued(X) ==
    /\ queue \in Seq(Seq(X))
    /\ \A i \in DOMAIN queue : queue[i] # <<>>
    /\ conn.held = Len(FlattenSeq(queue))

(* All of it.                                                               *)
Inv ==
    /\ setting \in DOMAIN Settings
    /\ conn \in Connections(Symbols(Setting))
    /\ Sound(conn)
    /\ Queued(Symbols(Setting))

(* What CallerAssumption says of the setting that Init chose.               *)
LEMMA SettingTyped ==
    ASSUME setting \in DOMAIN Settings
    PROVE  /\ Setting.role \in Roles /\ Setting.heads \subseteq MessageHeads
           /\ SymbolsOK(Symbols(Setting)) /\ Setting.pieces \subseteq Seq(Symbols(Setting))
           /\ Lengths \subseteq Nat
  BY CallerAssumption DEF Setting, SymbolsOK, Lengths

(* A step that leaves the queue and the bytes held as they are.             *)
LEMMA QueueKept ==
    ASSUME Inv, setting' = setting, queue' = queue, conn'.held = conn.held,
           conn' \in Connections(Symbols(Setting)), Sound(conn')
    PROVE  Inv'
  BY DEF Inv, Queued, Setting

(* receive_data keeps an object that lies within the payload to come, and   *)
(* passes anything else to the core.                                        *)
LEMMA ReceiveDataKeeps ==
    ASSUME Inv, setting' = setting, NEW piece \in Setting.pieces, NEW exact, ReceiveData(piece, exact)
    PROVE  Inv'
  <1> DEFINE X == Symbols(Setting)
  <1>1. /\ setting \in DOMAIN Settings /\ conn \in Connections(X) /\ Sound(conn) /\ Queued(X)
        /\ piece \in Seq(X) /\ Len(piece) \in Nat
    BY SettingTyped, LenProperties DEF Inv
  <1>2. CASE Hold(piece) /\ hold_body_data(conn, Len(piece))
    <2>1. conn' = [conn EXCEPT !.held = @ + Len(piece)] /\ queue' = Append(queue, piece)
      BY <1>2 DEF Hold
    <2>2. conn' \in Connections(X) /\ Sound(conn') /\ conn'.held = conn.held + Len(piece)
      BY <1>1, <1>2, <2>1, HoldEffect DEF Preserves
    <2>3. piece # <<>>
      BY <1>2 DEF hold_body_data
    <2>4. Queued(X)'
      <3> HIDE DEF X
      <3>1. queue \in Seq(Seq(X)) /\ FlattenSeq(queue) \in Seq(X)
        BY <1>1, FlattenTyped DEF Queued
      <3>2. FlattenSeq(queue') = FlattenSeq(queue) \o piece
        BY <1>1, <2>1, <3>1, FlattenAppend
      <3>3. Len(FlattenSeq(queue')) = Len(FlattenSeq(queue)) + Len(piece)
        BY <1>1, <3>1, <3>2, ConcatProperties
      <3>4. queue' \in Seq(Seq(X)) /\ \A i \in DOMAIN queue' : queue'[i] # <<>>
        BY <1>1, <2>1, <2>3, <3>1, AppendProperties DEF Queued
      <3>5. conn'.held = Len(FlattenSeq(queue'))
        BY <1>1, <2>2, <3>3 DEF Queued
      <3>6. X' = X
        BY DEF X, Setting
      <3> QED BY <3>4, <3>5, <3>6 DEF Queued
    <2> QED BY <1>1, <2>2, <2>4 DEF Inv, Setting
  <1>3. CASE Copy(piece)
    <2>1. conn' \in Connections(X) /\ Sound(conn') /\ conn'.held = conn.held
      BY <1>1, <1>3, ReceiveBytesEffect DEF Copy, Preserves
    <2> QED BY <1>3, <2>1, QueueKept DEF Copy
  <1> QED BY <1>2, <1>3 DEF ReceiveData

(* next_event with a queue: the core accepts the oldest object, because it  *)
(* is not empty and not longer than what is held.                           *)
LEMMA NextObjectKeeps ==
    ASSUME Inv, setting' = setting, NextObject
    PROVE  Inv'
  <1> DEFINE X == Symbols(Setting)
             n == Len(Head(queue))
  <1>1. /\ setting \in DOMAIN Settings /\ conn \in Connections(X) /\ Sound(conn) /\ Queued(X)
        /\ queue # <<>> /\ queue' = Tail(queue) /\ conn' = next_event_in_place(conn, n).c
    BY DEF Inv, NextObject
  <1> HIDE DEF X
  <1>2. queue \in Seq(Seq(X)) /\ conn.held = Len(FlattenSeq(queue))
        /\ \A i \in DOMAIN queue : queue[i] # <<>>
    BY <1>1 DEF Queued
  <1>3. /\ Head(queue) \in Seq(X) /\ queue' \in Seq(Seq(X))
        /\ FlattenSeq(queue) = Head(queue) \o FlattenSeq(queue')
    BY <1>1, <1>2, FlattenTail
  <1>4. FlattenSeq(queue') \in Seq(X)
    BY <1>3, FlattenTyped
  <1>5. /\ n \in Nat /\ Len(FlattenSeq(queue')) \in Nat
        /\ conn.held = n + Len(FlattenSeq(queue'))
    BY <1>2, <1>3, <1>4, ConcatProperties, LenProperties
  <1>6. /\ Head(queue) # <<>>
        /\ \A i \in DOMAIN queue' : queue'[i] # <<>>
    <2>1. Len(queue) \in Nat \ {0}
      BY <1>1, <1>2, EmptySeq
    <2>2. Head(queue) = queue[1] /\ 1 \in DOMAIN queue
      BY <1>2, <2>1
    <2>3. /\ Len(queue') = Len(queue) - 1 /\ DOMAIN queue' = 1..Len(queue')
          /\ DOMAIN queue = 1..Len(queue)
          /\ \A i \in 1..Len(queue') : queue'[i] = queue[i + 1]
      BY <1>1, <1>2, <1>3, <2>1, HeadTailProperties
    <2>4. ASSUME NEW i \in DOMAIN queue' PROVE queue'[i] # <<>>
      <3>1. i + 1 \in DOMAIN queue /\ queue'[i] = queue[i + 1]
        BY <2>1, <2>3, <2>4
      <3> QED BY <1>2, <3>1
    <2> QED BY <1>2, <2>2, <2>4
  <1>7. n \in 1..conn.held
    BY <1>3, <1>5, <1>6, EmptySeq
  <1>8. InPlaceResult(X, conn, n, next_event_in_place(conn, n))
    BY <1>1, <1>5, InPlaceEffect
  <1>9. conn' \in Connections(X) /\ Sound(conn') /\ conn'.held = conn.held - n
    BY <1>1, <1>7, <1>8 DEF InPlaceResult
  <1>10. conn'.held = Len(FlattenSeq(queue'))
    BY <1>5, <1>9
  <1>11. X' = X
    BY DEF X, Setting
  <1>12. Queued(X)'
    BY <1>3, <1>6, <1>10, <1>11 DEF Queued
  <1> QED BY <1>1, <1>9, <1>11, <1>12 DEF Inv, X

(* next_event with no queue polls the core, which then holds nothing.       *)
LEMMA NextBufferedKeeps ==
    ASSUME Inv, setting' = setting, NEW due, NextBuffered(due)
    PROVE  Inv'
  <1> DEFINE X == Symbols(Setting)
  <1>1. /\ setting \in DOMAIN Settings /\ conn \in Connections(X) /\ Sound(conn) /\ SymbolsOK(X)
        /\ queue = <<>> /\ queue' = queue /\ conn' = next_event(conn, due).c
    BY SettingTyped DEF Inv, NextBuffered
  <1>2. conn.held = 0
    BY <1>1, FlattenEmpty, EmptySeq DEF Inv, Queued
  <1>3. PollResult(X, conn, next_event(conn, due))
    BY <1>1, <1>2, NextEventEffect
  <1> QED BY <1>1, <1>3, QueueKept DEF PollResult

(* Every other call is the core's, and none touches the bytes held or       *)
(* buffered.                                                                *)
LEMMA CallKeepsBytes ==
    ASSUME Inv, NEW r \in Calls(conn, Setting.heads)
    PROVE  /\ r.c \in Connections(Symbols(Setting)) /\ Sound(r.c)
           /\ r.c.held = conn.held /\ r.c.input = conn.input
  <1> DEFINE X == Symbols(Setting)
             Keeps(x) == /\ x.c \in Connections(X) /\ Sound(x.c)
                         /\ x.c.held = conn.held /\ x.c.input = conn.input
  <1>1. /\ setting \in DOMAIN Settings /\ conn \in Connections(X) /\ Sound(conn) /\ Coherent(conn)
        /\ Setting.heads \subseteq MessageHeads /\ Lengths \subseteq Nat
    BY SettingTyped DEF Inv, Sound
  <1>2. ASSUME NEW x, SendResult(X, conn, x) PROVE Keeps(x)
    <2>1. Moves(X, conn, x.c)
      BY <1>1, <1>2, MovesNowhere DEF SendResult
    <2> QED BY <1>1, <2>1, MovesPreserve DEF Preserves
  <1>3. ASSUME NEW h \in Setting.heads
        PROVE  /\ Keeps(send_request(conn, h)) /\ Keeps(send_informational_response(conn, h))
               /\ Keeps(send_response(conn, h))
    <2>1. h \in MessageHeads
      BY <1>1, <1>3
    <2>2. /\ SendResult(X, conn, send_request(conn, h))
          /\ SendResult(X, conn, send_informational_response(conn, h))
          /\ SendResult(X, conn, send_response(conn, h))
      BY <1>1, <2>1, SendRequestSends, SendInformationalSends, SendResponseAnswers DEF Sends, Answers
    <2> HIDE DEF Keeps
    <2> QED BY <1>2, <2>2
  <1>4. ASSUME NEW h \in Setting.heads, NEW k \in Lengths
        PROVE  /\ Keeps(send_request_with_body(conn, h, k))
               /\ Keeps(send_response_with_body(conn, h, k))
    <2>1. h \in MessageHeads /\ k \in Nat
      BY <1>1, <1>4
    <2>2. /\ SendResult(X, conn, send_request_with_body(conn, h, k))
          /\ SendResult(X, conn, send_response_with_body(conn, h, k))
      BY <1>1, <2>1, SendRequestWithBodySends, SendResponseWithBodyAnswers DEF Sends, Answers
    <2> HIDE DEF Keeps
    <2> QED BY <1>2, <2>2
  <1>5. ASSUME NEW k \in Lengths PROVE Keeps(send_data(conn, k))
    <2>1. SendResult(X, conn, send_data(conn, k))
      BY <1>1, <1>5, SendDataSends DEF Sends
    <2> HIDE DEF Keeps
    <2> QED BY <1>2, <2>1
  <1>6. ASSUME NEW trailers PROVE Keeps(end_of_message(conn, trailers))
    <2>1. SendResult(X, conn, end_of_message(conn, trailers))
      BY <1>1, EndOfMessageSends DEF Sends
    <2> HIDE DEF Keeps
    <2> QED BY <1>2, <2>1
  <1>7. Keeps(Restarted(conn))
    <2>1. CASE CanReuse(conn)
      BY <1>1, <2>1, StartNextCycleEffect DEF Restarted, Sent
    <2>2. CASE ~CanReuse(conn)
      BY <1>1, <2>2, UnsolicitedEffect DEF Restarted, Refused, Preserves
    <2> QED BY <2>1, <2>2
  <1>8. Keeps(Closed(conn))
    <2>1. CASE LocalAccepts(conn, StateEvent("ConnectionClosed"))
      <3>1. Moves(X, conn, close(conn))
        BY <1>1, <2>1, CloseEffect
      <3> QED BY <1>1, <2>1, <3>1, MovesPreserve DEF Closed, Sent, Preserves
    <2>2. CASE ~LocalAccepts(conn, StateEvent("ConnectionClosed"))
      BY <1>1, <2>2 DEF Closed, Refused
    <2> QED BY <2>1, <2>2
  <1>9. Keeps(r)
    <2> HIDE DEF Keeps
    <2> QED BY <1>3, <1>4, <1>5, <1>6, <1>7, <1>8 DEF Calls
  <1> QED BY <1>9

(* So the invariant holds after it.                                         *)
LEMMA CallKeeps ==
    ASSUME Inv, setting' = setting, Call
    PROVE  Inv'
  <1>1. PICK r \in Calls(conn, Setting.heads) : conn' = r.c
    BY DEF Call
  <1> QED BY <1>1, CallKeepsBytes, QueueKept DEF Call

----------------------------------------------------------------------------
(* A new connection holds nothing.                                          *)
LEMMA InitIsGood == Init => Inv
  <1> SUFFICES ASSUME Init PROVE Inv
    OBVIOUS
  <1>1. setting \in DOMAIN Settings /\ conn = NewConnection(Setting.role, FALSE) /\ queue = <<>>
    BY DEF Init
  <1>2. conn \in Connections(Symbols(Setting)) /\ Sound(conn)
    BY <1>1, SettingTyped, NewConnectionTyped, NewConnectionSound
  <1>3. conn.held = 0
    BY <1>1 DEF NewConnection
  <1>4. /\ <<>> \in Seq(Seq(Symbols(Setting))) /\ Len(FlattenSeq(<<>>)) = 0
        /\ \A i \in DOMAIN <<>> : FALSE
    BY FlattenEmpty
  <1> QED BY <1>1, <1>2, <1>3, <1>4 DEF Inv, Queued

(* The invariant holds in every reachable state.                            *)
LEMMA InvHolds == Spec => []Inv
  <1>1. Inv /\ [Next]_vars => Inv'
    <2> SUFFICES ASSUME Inv, [Next]_vars PROVE Inv'
      OBVIOUS
    <2>1. CASE UNCHANGED vars
      BY <2>1 DEF vars, Inv, Queued, Setting
    <2>2. CASE Next
      <3>1. setting' = setting
        BY <2>2 DEF Next
      <3>2. CASE ReceiveEof
        <4>1. /\ conn \in Connections(Symbols(Setting)) /\ Sound(conn)
              /\ conn' = record_eof(conn) /\ queue' = queue
          BY <3>2 DEF Inv, ReceiveEof
        <4>2. conn' \in Connections(Symbols(Setting)) /\ Sound(conn') /\ conn'.held = conn.held
          BY <4>1, RecordEofEffect DEF Preserves
        <4> QED BY <3>1, <4>1, <4>2, QueueKept
      <3> QED BY <2>2, <3>1, <3>2, ReceiveDataKeeps, NextObjectKeeps, NextBufferedKeeps, CallKeeps
              DEF Next, NextEvent
    <2> QED BY <2>1, <2>2
  <1> QED BY InitIsGood, <1>1, PTL DEF Spec

(* The connection and its queue speak of the same bytes, and                *)
(* buffered_nbytes counts every byte received and not told, in every        *)
(* setting and for objects of any size.                                     *)
THEOREM HeldIsQueued == Spec => []QueueIsHeld
  <1>1. Inv => QueueIsHeld
    <2> SUFFICES ASSUME Inv PROVE QueueIsHeld
      OBVIOUS
    <2> DEFINE X == Symbols(Setting)
    <2>1. queue \in Seq(Seq(X)) /\ conn.input \in Seq(X) /\ conn.held = Len(FlattenSeq(queue))
      BY DEF Inv, Queued, Connections
    <2>2. FlattenSeq(queue) \in Seq(X)
      BY <2>1, FlattenTyped
    <2>3. Len(Received) = Len(FlattenSeq(queue)) + Len(conn.input)
      BY <2>1, <2>2, ConcatProperties DEF Received
    <2>4. Len(FlattenSeq(queue)) \in Nat /\ Len(conn.input) \in Nat
      BY <2>1, <2>2, LenProperties
    <2> QED BY <2>1, <2>3, <2>4 DEF Inv, Queued, QueueIsHeld, buffered_nbytes
  <1> QED BY <1>1, InvHolds, PTL

----------------------------------------------------------------------------
(* Delivers.  Every call does the same to a connection whose received bytes *)
(* lie somewhere else.                                                      *)

(* A connection that has i in its buffer and holds nothing.                 *)
At(c, i) == [c EXCEPT !.input = i, !.held = 0]

(* The outcome of a call on such a connection.                              *)
Moved(r, i) == [ok |-> r.ok, c |-> At(r.c, i), wire |-> r.wire]

(* The fields of a connection, whatever they contain.                       *)
Shaped(c) ==
    c \in [role : {c.role}, lenient : {c.lenient}, st : {c.st}, input : {c.input}, held : {c.held},
           eof : {c.eof}, peer_version : {c.peer_version}, cycle : {c.cycle}]

(* A connection that a call has changed.                                    *)
Changed(c, s, y) == [c EXCEPT !.st = s, !.cycle = y]

(* Every connection has them.                                               *)
LEMMA ConnectionShape ==
    ASSUME NEW X, NEW c \in Connections(X)
    PROVE  Shaped(c)
  BY DEF Connections, Shaped

(* Nothing else is different in a connection with another buffer.           *)
LEMMA AtFields ==
    ASSUME NEW c, Shaped(c), NEW i
    PROVE  /\ Shaped(At(c, i)) /\ At(c, i).input = i /\ At(c, i).held = 0
           /\ At(c, i).role = c.role /\ At(c, i).lenient = c.lenient /\ At(c, i).st = c.st
           /\ At(c, i).eof = c.eof /\ At(c, i).peer_version = c.peer_version
           /\ At(c, i).cycle = c.cycle
  BY DEF At, Shaped

(* The buffer and the other fields can be changed in either order,          *)
LEMMA AtChanged ==
    ASSUME NEW c, Shaped(c), NEW i, NEW s, NEW y
    PROVE  /\ Shaped(Changed(c, s, y)) /\ Changed(c, s, y).cycle = y /\ Changed(c, s, y).st = s
           /\ Changed(c, s, y).role = c.role
           /\ Changed(At(c, i), s, y) = At(Changed(c, s, y), i)
  BY DEF At, Changed, Shaped

(* The same of an outcome.                                                  *)
LEMMA AtOutcome ==
    ASSUME NEW d, NEW i, NEW w
    PROVE  Moved(Sent(d, w), i) = Sent(At(d, i), w) /\ Moved(Refused(d), i) = Refused(At(d, i))
  BY DEF Moved, Sent, Refused

(* What the state machine allows does not depend on the buffer.             *)
LEMMA AtState ==
    ASSUME NEW c, Shaped(c), NEW i, NEW ev
    PROVE  /\ local_state(At(c, i)) = local_state(c) /\ peer_state(At(c, i)) = peer_state(c)
           /\ LocalAccepts(At(c, i), ev) = LocalAccepts(c, ev)
  BY AtFields DEF local_state, peer_state, LocalAccepts

(* The outcome of a call that leads to the state s and the cycle y.         *)
Outcome(c, allowed, s, y, wire) == IF ~allowed THEN Refused(c) ELSE Sent(Changed(c, s, y), wire)

(* It may be moved before or after.                                         *)
LEMMA OutcomeAt ==
    ASSUME NEW c, Shaped(c), NEW i, NEW allowed, NEW s, NEW y, NEW wire
    PROVE  /\ Outcome(At(c, i), allowed, s, y, wire) = Moved(Outcome(c, allowed, s, y, wire), i)
           /\ Shaped(Outcome(c, allowed, s, y, wire).c)
  <1>1. CASE allowed
    BY <1>1, AtChanged, AtOutcome DEF Outcome, Sent
  <1>2. CASE ~allowed
    BY <1>2, AtOutcome DEF Outcome, Refused
  <1> QED BY <1>1, <1>2

(* Two connections that differ in their buffers only.                       *)
Alike(c, d) ==
    /\ Shaped(c) /\ Shaped(d)
    /\ d.role = c.role /\ d.st = c.st /\ d.cycle = c.cycle /\ d.peer_version = c.peer_version

(* Moving the buffer leaves a connection alike.                             *)
LEMMA AtAlike ==
    ASSUME NEW c, Shaped(c), NEW i
    PROVE  Alike(c, c) /\ Alike(c, At(c, i))
  BY AtFields DEF Alike

(* send_data.                                                               *)
LEMMA SendDataAt ==
    ASSUME NEW c, Shaped(c), NEW i, NEW n
    PROVE  send_data(At(c, i), n) = Moved(send_data(c, n), i) /\ Shaped(send_data(c, n).c)
  <1> DEFINE w == c.cycle.writer
             ev == StateEvent("Data")
             next == IF w.kind = "Fixed" THEN Fixed(w.n - n) ELSE w
             allowed == w # NoFraming /\ (w.kind = "Fixed" => n <= w.n) /\ LocalAccepts(c, ev)
             wire == IF w = Chunked /\ n # 0
                     THEN <<Hex(n), Symbol("crlf")>> \o Body(n) \o <<Symbol("crlf")>>
                     ELSE Body(n)
             s == process_event(c.st, c.role, ev)
             y == [c.cycle EXCEPT !.writer = next, !.waiting_for_continue = FALSE]
  <1>1. ASSUME NEW x, Alike(c, x) PROVE send_data(x, n) = Outcome(x, allowed, s, y, wire)
    <2> DEFINE after == [advance_local(x, ev) EXCEPT !.cycle.writer = next,
                                                     !.cycle.waiting_for_continue = FALSE]
    <2>1. send_data(x, n) = IF ~allowed THEN Refused(x) ELSE Sent(after, wire)
      BY <1>1 DEF send_data, Alike, LocalAccepts
    <2>2. after = Changed(x, s, y)
      <3> HIDE DEF next
      <3> QED BY <1>1 DEF advance_local, Changed, Shaped, Alike
    <2> HIDE DEF after, s, y, wire, allowed
    <2> QED BY <2>1, <2>2 DEF Outcome
  <1> HIDE DEF s, y, wire, allowed
  <1> QED BY <1>1, AtAlike, OutcomeAt

(* end_of_message.                                                          *)
LEMMA EndOfMessageAt ==
    ASSUME NEW c, Shaped(c), NEW i, NEW trailers
    PROVE  /\ end_of_message(At(c, i), trailers) = Moved(end_of_message(c, trailers), i)
           /\ Shaped(end_of_message(c, trailers).c)
  <1> DEFINE w == c.cycle.writer
             ev == StateEvent("EndOfMessage")
             allowed == /\ "forbidden" \notin {trailers[j] : j \in DOMAIN trailers}
                        /\ w # NoFraming
                        /\ w.kind = "Fixed" => w.n = 0
                        /\ w # Chunked => trailers = <<>>
                        /\ LocalAccepts(c, ev)
             wire == IF w = Chunked THEN last_chunk(trailers) ELSE <<>>
             s == process_event(c.st, c.role, ev)
             y == [c.cycle EXCEPT !.writer = NoFraming, !.waiting_for_continue = FALSE]
  <1>1. ASSUME NEW x, Alike(c, x) PROVE end_of_message(x, trailers) = Outcome(x, allowed, s, y, wire)
    <2> DEFINE after == [advance_local(x, ev) EXCEPT !.cycle.writer = NoFraming,
                                                     !.cycle.waiting_for_continue = FALSE]
    <2>1. end_of_message(x, trailers) = IF ~allowed THEN Refused(x) ELSE Sent(after, wire)
      BY <1>1 DEF end_of_message, Alike, LocalAccepts
    <2>2. after = Changed(x, s, y)
      BY <1>1 DEF advance_local, Changed, Shaped, Alike
    <2> HIDE DEF after, s, y, wire, allowed
    <2> QED BY <2>1, <2>2 DEF Outcome
  <1> HIDE DEF s, y, wire, allowed
  <1> QED BY <1>1, AtAlike, OutcomeAt

(* close.                                                                   *)
LEMMA CloseAt ==
    ASSUME NEW c, Shaped(c), NEW i
    PROVE  Closed(At(c, i)) = Moved(Closed(c), i)
  <1> DEFINE ev == StateEvent("ConnectionClosed")
             allowed == LocalAccepts(c, ev)
             s == process_event(c.st, c.role, ev)
             y == [c.cycle EXCEPT !.writer = NoFraming]
  <1>1. ASSUME NEW x, Alike(c, x) PROVE Closed(x) = Outcome(x, allowed, s, y, <<>>)
    <2>1. close(x) = Changed(x, s, y)
      BY <1>1 DEF close, advance_local, Changed, Shaped, Alike
    <2>2. LocalAccepts(x, ev) = LocalAccepts(c, ev)
      BY <1>1 DEF Alike, LocalAccepts
    <2> HIDE DEF s, y
    <2> QED BY <2>1, <2>2 DEF Outcome, Closed
  <1> HIDE DEF s, y, allowed
  <1> QED BY <1>1, AtAlike, OutcomeAt

(* send_informational_response.                                             *)
LEMMA SendInformationalAt ==
    ASSUME NEW c, Shaped(c), NEW i, NEW h
    PROVE  send_informational_response(At(c, i), h) = Moved(send_informational_response(c, h), i)
  <1> DEFINE ev == informational_event(h)
             allowed == /\ c.role = "server" /\ is_informational(h.status)
                        /\ c.peer_version # 10
                        /\ check_send(h)
                        /\ ~has_framing(h)
                        /\ HasInformationalEvent(c, h)
                        /\ LocalAccepts(c, ev)
             s == process_event(c.st, c.role, ev)
             y == IF h.status = 100
                  THEN [c.cycle EXCEPT !.waiting_for_continue = FALSE, !.continue_before_upgrade = FALSE]
                  ELSE c.cycle
  <1>1. ASSUME NEW x, Alike(c, x)
        PROVE  send_informational_response(x, h) = Outcome(x, allowed, s, y, <<HeadOf(h)>>)
    <2> DEFINE after == record_informational(advance_local(x, ev), h.status)
    <2>1. HasInformationalEvent(x, h) = HasInformationalEvent(c, h) /\ LocalAccepts(x, ev) = LocalAccepts(c, ev)
      BY <1>1 DEF HasInformationalEvent, valid_upgrade_response, Alike, LocalAccepts
    <2>2. send_informational_response(x, h) = IF ~allowed THEN Refused(x) ELSE Sent(after, <<HeadOf(h)>>)
      BY <1>1, <2>1 DEF send_informational_response, Alike
    <2>3. after = Changed(x, s, y)
      BY <1>1 DEF record_informational, advance_local, Changed, Shaped, Alike
    <2> HIDE DEF after, s, y, allowed
    <2> QED BY <2>2, <2>3 DEF Outcome
  <1> HIDE DEF s, y, allowed
  <1> QED BY <1>1, AtAlike, OutcomeAt

(* A response asks how much of the request has come: it does not matter     *)
(* where it is.                                                             *)
LEMMA SendResponseAt ==
    ASSUME NEW c, Shaped(c), NEW i, unread(At(c, i)) = unread(c), NEW h
    PROVE  /\ send_response(At(c, i), h) = Moved(send_response(c, h), i)
           /\ Shaped(send_response(c, h).c)
  <1> DEFINE connect == opens_tunnel(c, h.status)
             f == response_framing(c, h)
             ev == final_response_event(c, h.status)
             allowed == /\ c.role = "server" /\ ~is_informational(h.status)
                        /\ check_send(h)
                        /\ h.status = 426 => h.upgrade # {} /\ BadProtocol \notin h.upgrade
                        /\ ~((h.status = 204 \/ connect) /\ has_framing(h))
                        /\ f # FramingError
                        /\ LocalAccepts(c, ev)
             t == process_event(c.st, c.role, ev)
             closes == \/ f = CloseDelimited
                       \/ state(t, peer(c.role)) = "SendBody" /\ unread(c)
                       \/ "close" \in h.opts
             s == IF closes THEN disable_keep_alive(t) ELSE t
             y == [c.cycle EXCEPT !.waiting_for_continue = FALSE, !.continue_before_upgrade = FALSE,
                                  !.upgrade_proposals = {},
                                  !.writer = IF connect THEN NoFraming ELSE f]
             head == framed_head(c, h, f)
             wire == <<HeadOf(CASE connect -> head
                                [] ~connect /\ ~s.keep_alive -> set_connection_option(head, "close")
                                [] ~connect /\ s.keep_alive /\ ~Http11(c, h) ->
                                      set_connection_option(head, "keep-alive")
                                [] OTHER -> head)>>
  <1>1. ASSUME NEW x, Alike(c, x), unread(x) = unread(c)
        PROVE  send_response(x, h) = Outcome(x, allowed, s, y, wire)
    <2> DEFINE advanced == advance_local(x, ev)
               shuts == \/ f = CloseDelimited
                        \/ peer_state(advanced) = "SendBody" /\ unread(x)
                        \/ "close" \in h.opts
               after == [record_response(NoKeepAliveIf(shuts, advanced))
                            EXCEPT !.cycle.writer = IF connect THEN NoFraming ELSE f]
    <2>1. /\ opens_tunnel(x, h.status) = connect /\ Http11(x, h) = Http11(c, h)
          /\ Stripped(x, h) = Stripped(c, h) /\ Declared(x, h) = Declared(c, h)
          /\ response_has_no_body(x, h.status) = response_has_no_body(c, h.status)
          /\ LocalAccepts(x, ev) = LocalAccepts(c, ev)
      BY <1>1 DEF opens_tunnel, Http11, Stripped, Declared, response_has_no_body, Alike, LocalAccepts
    <2>2. final_response_event(x, h.status) = ev /\ response_framing(x, h) = f /\ framed_head(x, h, f) = head
      BY <2>1 DEF final_response_event, response_framing, framed_head
    <2> HIDE DEF connect, f, ev
    <2>3. advanced = Changed(x, t, x.cycle) /\ Shaped(advanced) /\ advanced.st = t /\ advanced.role = c.role
      BY <1>1 DEF advance_local, Changed, Shaped, Alike
    <2>4. shuts = closes
      BY <1>1, <2>3 DEF peer_state
    <2>5. after = Changed(x, s, y)
      <3> HIDE DEF shuts, closes, t
      <3> QED BY <1>1, <2>3, <2>4 DEF record_response, NoKeepAliveIf, advance_local, Changed, Shaped, Alike
    <2>6. after.st = s
      <3> HIDE DEF after, s, y
      <3> QED BY <1>1, <2>5, AtChanged DEF Alike
    <2>7. send_response(x, h) =
             IF ~allowed THEN Refused(x)
             ELSE Sent(after, <<HeadOf(CASE connect -> head
                                         [] ~connect /\ ~after.st.keep_alive ->
                                               set_connection_option(head, "close")
                                         [] ~connect /\ after.st.keep_alive /\ ~Http11(c, h) ->
                                               set_connection_option(head, "keep-alive")
                                         [] OTHER -> head)>>)
      BY <1>1, <2>1, <2>2 DEF send_response, Alike, connect, f, ev
    <2> HIDE DEF after, s, y, allowed, head
    <2> QED BY <2>5, <2>6, <2>7 DEF Outcome
  <1>2. Alike(c, c) /\ Alike(c, At(c, i))
    BY AtAlike
  <1> HIDE DEF s, y, wire, allowed
  <1>3. /\ send_response(c, h) = Outcome(c, allowed, s, y, wire)
        /\ send_response(At(c, i), h) = Outcome(At(c, i), allowed, s, y, wire)
    BY <1>1, <1>2
  <1> QED BY <1>3, OutcomeAt

(* What both connections answer to the same call, and what it leaves.       *)
Matches(r, s, i) == s.ok = r.ok /\ s.c = At(r.c, i) /\ s.wire = r.wire

(* A moved outcome answers the same.                                        *)
LEMMA MovedMatches ==
    ASSUME NEW r, NEW i
    PROVE  Matches(r, Moved(r, i), i)
  BY DEF Matches, Moved

(* The three parts of a complete message, and the rollback between them.    *)
LEMMA SendCompleteAt ==
    ASSUME NEW c, Shaped(c), NEW i, NEW n, NEW head, Shaped(head.c)
    PROVE  Matches(send_complete(c, head, n), send_complete(At(c, i), Moved(head, i), n), i)
  <1> DEFINE data == IF n # 0 THEN send_data(head.c, n) ELSE Sent(head.c, <<>>)
             end == end_of_message(data.c, <<>>)
             moved == Moved(head, i)
             dataAt == IF n # 0 THEN send_data(moved.c, n) ELSE Sent(moved.c, <<>>)
             endAt == end_of_message(dataAt.c, <<>>)
             r == send_complete(c, head, n)
             s == send_complete(At(c, i), moved, n)
  <1> SUFFICES Matches(r, s, i)
    OBVIOUS
  <1>1. moved.ok = head.ok /\ moved.c = At(head.c, i) /\ moved.wire = head.wire
    BY DEF Moved
  <1> HIDE DEF moved
  <1>2. dataAt = Moved(data, i) /\ Shaped(data.c)
    <2>1. CASE n # 0
      BY <1>1, <2>1, SendDataAt
    <2>2. CASE n = 0
      BY <1>1, <2>2, AtOutcome DEF Sent
    <2> QED BY <2>1, <2>2
  <1>3. dataAt.ok = data.ok /\ dataAt.c = At(data.c, i) /\ dataAt.wire = data.wire
    BY <1>2 DEF Moved
  <1> HIDE DEF data, dataAt
  <1>4. endAt = Moved(end, i) /\ Shaped(end.c)
    BY <1>2, <1>3, EndOfMessageAt
  <1>5. endAt.ok = end.ok /\ endAt.c = At(end.c, i) /\ endAt.wire = end.wire
    BY <1>4 DEF Moved
  <1> HIDE DEF end, endAt
  <1>6. ASSUME NEW d, Shaped(d) PROVE Restored(At(c, i), At(d, i)) = At(Restored(c, d), i)
    <2>1. Restored(At(c, i), At(d, i)) = Changed(At(d, i), c.st, c.cycle)
      BY AtFields DEF Restored, Changed
    <2>2. Restored(c, d) = Changed(d, c.st, c.cycle)
      BY DEF Restored, Changed
    <2> QED BY <1>6, <2>1, <2>2, AtChanged
  <1>7. local_state(moved.c) = local_state(head.c)
    BY <1>1, AtState
  <1>8. CASE ~head.ok
    <2>1. r = Refused(Restored(c, head.c)) /\ s = Refused(Restored(At(c, i), moved.c))
      BY <1>1, <1>8 DEF send_complete
    <2>2. Restored(At(c, i), moved.c) = At(Restored(c, head.c), i)
      BY <1>1, <1>6
    <2> HIDE DEF r, s
    <2> QED BY <2>1, <2>2 DEF Refused, Matches
  <1>9. CASE head.ok /\ local_state(head.c) = "SwitchedProtocol"
    <2>1. /\ r = IF n = 0 THEN head ELSE Refused(Restored(c, head.c))
          /\ s = IF n = 0 THEN moved ELSE Refused(Restored(At(c, i), moved.c))
      BY <1>1, <1>7, <1>9 DEF send_complete
    <2>2. Restored(At(c, i), moved.c) = At(Restored(c, head.c), i)
      BY <1>1, <1>6
    <2> HIDE DEF r, s
    <2> QED BY <1>1, <2>1, <2>2 DEF Refused, Matches
  <1>10. CASE head.ok /\ local_state(head.c) # "SwitchedProtocol"
    <2>1. /\ r = IF data.ok /\ end.ok THEN Sent(end.c, head.wire \o data.wire \o end.wire)
                 ELSE Refused(Restored(c, end.c))
          /\ s = IF dataAt.ok /\ endAt.ok
                 THEN Sent(endAt.c, moved.wire \o dataAt.wire \o endAt.wire)
                 ELSE Refused(Restored(At(c, i), endAt.c))
      BY <1>1, <1>7, <1>10 DEF send_complete, data, end, dataAt, endAt
    <2>2. Restored(At(c, i), endAt.c) = At(Restored(c, end.c), i)
      BY <1>4, <1>5, <1>6
    <2>3. moved.wire \o dataAt.wire \o endAt.wire = head.wire \o data.wire \o end.wire
      BY <1>1, <1>3, <1>5
    <2> HIDE DEF r, s
    <2>4. CASE data.ok /\ end.ok
      <3>1. /\ r = Sent(end.c, head.wire \o data.wire \o end.wire)
            /\ s = Sent(endAt.c, head.wire \o data.wire \o end.wire)
        BY <1>3, <1>5, <2>1, <2>3, <2>4
      <3> QED BY <1>5, <3>1 DEF Sent, Matches
    <2>5. CASE ~(data.ok /\ end.ok)
      <3>1. r = Refused(Restored(c, end.c)) /\ s = Refused(At(Restored(c, end.c), i))
        BY <1>3, <1>5, <2>1, <2>2, <2>5
      <3> QED BY <3>1 DEF Refused, Matches
    <2> QED BY <2>4, <2>5
  <1> QED BY <1>8, <1>9, <1>10

(* send_response_with_body, whose head is a response's and whose parts are  *)
(* the above.                                                               *)
LEMMA SendResponseWithBodyAt ==
    ASSUME NEW c, Shaped(c), NEW i, unread(At(c, i)) = unread(c), NEW h, NEW n
    PROVE  Matches(send_response_with_body(c, h, n), send_response_with_body(At(c, i), h, n), i)
  <1> DEFINE adds == ~has_framing(h) /\ ~response_has_no_body(c, h.status)
             g == IF adds THEN WithLength(h, n) ELSE h
  <1>1. response_has_no_body(At(c, i), h.status) = response_has_no_body(c, h.status)
    BY AtFields DEF response_has_no_body, opens_tunnel
  <1>2. /\ send_response_with_body(c, h, n) = send_complete(c, send_response(c, g), n)
        /\ send_response_with_body(At(c, i), h, n) = send_complete(At(c, i), send_response(At(c, i), g), n)
    BY <1>1 DEF send_response_with_body
  <1> HIDE DEF g
  <1>3. send_response(At(c, i), g) = Moved(send_response(c, g), i) /\ Shaped(send_response(c, g).c)
    BY SendResponseAt
  <1> QED BY <1>2, <1>3, SendCompleteAt

(* No request can be sent while the peer is in its body.                    *)
LEMMA NoRequestInBody ==
    ASSUME NEW c, Lawful(c.st), peer_state(c) = "SendBody", Shaped(c), NEW h, NEW n
    PROVE  /\ send_request(c, h) = Refused(c)
           /\ send_request_with_body(c, h, n) = Refused(c)
  <1>1. ASSUME NEW g PROVE send_request(c, g) = Refused(c)
    <2> DEFINE upgrades == IF g.version = 11 THEN g.upgrade ELSE {}
               ev == request_event(g.method, upgrades)
    <2>1. PICK p \in SUBSET SwitchKinds : ev = Request(p)
      BY RequestEventProposals
    <2>2. ~(c.role = "client" /\ LocalAccepts(c, ev))
      <3> SUFFICES ASSUME c.role = "client", Accepts(c.st, "client", Request(p)) PROVE FALSE
        BY <2>1 DEF LocalAccepts
      <3>1. c.st.server = "Idle"
        BY RequestEffect
      <3> QED BY <3>1 DEF peer_state, peer, state
    <2> HIDE DEF ev
    <2> QED BY <2>2 DEF send_request, ev
  <1>2. Restored(c, c) = c
    BY DEF Restored, Shaped
  <1>3. PICK g : send_request_with_body(c, h, n) = send_complete(c, send_request(c, g), n)
    BY DEF send_request_with_body
  <1>4. send_complete(c, Refused(c), n) = Refused(Restored(c, c))
    BY DEF send_complete, Refused
  <1> QED BY <1>1, <1>2, <1>3, <1>4

(* Nor can a cycle be started.                                              *)
LEMMA NoRestartInBody ==
    ASSUME NEW c, Lawful(c.st), peer_state(c) = "SendBody"
    PROVE  Restarted(c) = Refused(c)
  <1>1. ~UnsolicitedBytes(c) /\ ~CanStartNextCycle(c.st)
    BY DEF UnsolicitedBytes, CanStartNextCycle, peer_state, state, peer
  <1> QED BY <1>1 DEF Restarted, CanReuse, NoKeepAliveIf

(* The outcome of a poll, with another buffer.                              *)
MovedPoll(p, i) ==
    [kind |-> p.kind, c |-> At(p.c, i), count |-> p.count, chunk_start |-> p.chunk_start,
     chunk_end |-> p.chunk_end]

(* Telling body data: only the state and the cycle change.                  *)
LEMMA PeerDataAt ==
    ASSUME NEW c, Shaped(c), NEW i, NEW count, NEW first, NEW end
    PROVE  peer_data(At(c, i), count, first, end) = MovedPoll(peer_data(c, count, first, end), i)
  <1> DEFINE ev == StateEvent("Data")
             s == process_event(c.st, peer(c.role), ev)
             y == [c.cycle EXCEPT !.waiting_for_continue = FALSE]
             o(x) == [kind |-> "Data", c |-> Changed(x, s, y), count |-> count, chunk_start |-> first,
                      chunk_end |-> end]
             e(x) == [kind |-> "Err", c |-> x, count |-> 0, chunk_start |-> FALSE, chunk_end |-> FALSE]
             accepts == PeerAccepts(c, ev)
  <1>1. ASSUME NEW x, Alike(c, x) PROVE peer_data(x, count, first, end) = IF accepts THEN o(x) ELSE e(x)
    <2> DEFINE a == [advance_peer(x, ev) EXCEPT !.cycle.waiting_for_continue = FALSE]
    <2>1. a = Changed(x, s, y)
      BY <1>1 DEF advance_peer, Changed, Shaped, Alike
    <2>2. PeerAccepts(x, ev) = accepts
      BY <1>1 DEF PeerAccepts, Alike
    <2>3. peer_data(x, count, first, end) =
             IfPeerAccepts(x, ev, [Polled("Data", a) EXCEPT !.count = count, !.chunk_start = first,
                                                           !.chunk_end = end])
      BY DEF peer_data
    <2> HIDE DEF a, s, y, accepts, ev
    <2> QED BY <2>1, <2>2, <2>3 DEF IfPeerAccepts, Polled
  <1>2. Alike(c, c) /\ Alike(c, At(c, i))
    BY AtAlike
  <1>3. Changed(At(c, i), s, y) = At(Changed(c, s, y), i)
    BY AtChanged
  <1> HIDE DEF s, y, accepts
  <1>4. CASE accepts
    BY <1>1, <1>2, <1>3, <1>4 DEF MovedPoll
  <1>5. CASE ~accepts
    <2>1. peer_data(c, count, first, end) = e(c) /\ peer_data(At(c, i), count, first, end) = e(At(c, i))
      BY <1>1, <1>2, <1>5
    <2> QED BY <2>1 DEF MovedPoll
  <1> QED BY <1>4, <1>5

(* Payload is decoded alike wherever it lies.                               *)
LEMMA AdvancePayloadAt ==
    ASSUME NEW c, Shaped(c), NEW i, NEW n
    PROVE  advance_payload(At(c, i), n) = MovedPoll(advance_payload(c, n), i)
  <1> DEFINE r == c.cycle.reader
             sized == r.kind \in {"Fixed", "ChunkData"}
             count == IF sized /\ r.n < n THEN r.n ELSE n
             atEnd == r.kind = "ChunkData" /\ count = r.n
             next == CASE ~sized -> r
                       [] atEnd -> Reader("ChunkDataEnd", 0)
                       [] OTHER -> Reader(r.kind, r.n - count)
             d(x) == [x EXCEPT !.cycle.reader = next]
             y == [c.cycle EXCEPT !.reader = next]
  <1>1. ASSUME NEW x, x.cycle = c.cycle
        PROVE  advance_payload(x, n) = peer_data(d(x), count, r.first, atEnd)
    BY <1>1 DEF advance_payload
  <1> HIDE DEF next, count, atEnd
  <1>2. ASSUME NEW x, Alike(c, x) PROVE d(x) = Changed(x, c.st, y)
    BY <1>2 DEF Alike, Shaped, Changed
  <1> HIDE DEF d, y
  <1>3. d(At(c, i)) = At(d(c), i) /\ Shaped(d(c))
    BY <1>2, AtAlike, AtChanged
  <1>4. /\ advance_payload(c, n) = peer_data(d(c), count, r.first, atEnd)
        /\ advance_payload(At(c, i), n) = peer_data(At(d(c), i), count, r.first, atEnd)
    BY <1>1, <1>3, AtFields
  <1> QED BY <1>3, <1>4, PeerDataAt

(* A poll of payload that is in the buffer.                                 *)
LEMMA PollInPayload ==
    ASSUME NEW X, NEW c \in Connections(X), ReaderShape(c), payload_reader(c), c.input # <<>>, NEW due
    PROVE  next_event_inner(c, due) = advance_payload(c, Len(c.input))
  <1>1. peer_state(c) = "SendBody" /\ c.cycle.reader.kind \in {"Fixed", "ChunkData", "CloseDelimited"}
    BY DEF payload_reader
  <1>2. next_event_inner(c, due) = read_message(c, due)
    BY <1>1 DEF next_event_inner
  <1>3. CASE c.cycle.reader.kind \in {"Fixed", "ChunkData"}
    <2>1. c.cycle.reader.kind = "Fixed" => c.cycle.reader.n # 0
      BY DEF payload_reader, Connections, Cycles, Readers
    <2>2. read_message(c, due) = read_payload(c)
      BY <1>3, <2>1 DEF read_message
    <2> QED BY <1>2, <2>2 DEF read_payload
  <1>4. CASE c.cycle.reader.kind = "CloseDelimited"
    <2> DEFINE n == Len(c.input)
               r == c.cycle.reader
               d == [c EXCEPT !.cycle.reader = r]
    <2>1. read_message(c, due) = peer_data(c, n, FALSE, FALSE)
      BY <1>4 DEF read_message, read_close_delimited
    <2>2. r.first = FALSE
      BY <1>4 DEF ReaderShape, Connections, Cycles, Readers
    <2>3. d = c
      BY DEF Connections, Cycles
    <2>4. advance_payload(c, n) = peer_data(d, n, r.first, FALSE)
      <3> HIDE DEF n
      <3> QED BY <1>4 DEF advance_payload
    <2> QED BY <1>2, <2>1, <2>2, <2>3, <2>4
  <1> QED BY <1>1, <1>3, <1>4

(* Two polls that tell the same n bytes and leave the same behind.          *)
SameData(p, q, n) ==
    /\ p.kind = "Data" /\ q.kind = "Data" /\ q.count = n
    /\ q.chunk_start = p.chunk_start /\ q.chunk_end = p.chunk_end
    /\ \A i : [q.c EXCEPT !.input = i] = At(p.c, i)

(* Handing over s of what is held, and polling a connection that has s in   *)
(* its buffer, tell the same and leave the same.                            *)
LEMMA InPlaceIsPoll ==
    ASSUME NEW X, NEW c \in Connections(X), Sound(c), NEW s \in Seq(X), Len(s) \in 1..c.held,
           NEW p, p = next_event_in_place(c, Len(s)), NEW q, q = next_event(At(c, s), FALSE)
    PROVE  SameData(p, q, Len(s))
  <1> DEFINE n == Len(s)
             e == At(c, s)
             a == advance_payload(c, n)
             b == next_event_inner(e, FALSE)
  <1>1. /\ payload_reader(c) /\ a.c \in Connections(X) /\ TakesPayload(c, a, n) /\ a.count = n
        /\ p.c = Released(a.c, n) /\ p.kind = "Data"
        /\ p.chunk_start = a.chunk_start /\ p.chunk_end = a.chunk_end
    BY InPlaceTakes
  <1>2. a.kind = "Data"
    BY <1>1 DEF TakesPayload
  <1>3. Shaped(c) /\ Shaped(a.c) /\ ReaderShape(c)
    BY <1>1, ConnectionShape DEF Sound, Coherent
  <1>4. /\ e \in Connections(X) /\ e.input = s /\ e.cycle = c.cycle /\ e.st = c.st /\ e.role = c.role
        /\ e.held = 0
    BY DEF At, Connections
  <1>5. s # <<>>
    <2>1. c.held \in Nat
      BY DEF Connections
    <2> QED BY <2>1, EmptySeq
  <1>6. ReaderShape(e) /\ payload_reader(e)
    BY <1>1, <1>3, <1>4 DEF ReaderShape, payload_reader, peer_state
  <1> HIDE DEF a, e
  <1>7. b = advance_payload(e, n)
    BY <1>4, <1>5, <1>6, PollInPayload
  <1>8. b = MovedPoll(a, s)
    BY <1>3, <1>7, AdvancePayloadAt DEF a, e
  <1> HIDE DEF b
  <1>9. /\ b.kind = "Data" /\ b.count = n /\ b.c = At(a.c, s)
        /\ b.chunk_start = a.chunk_start /\ b.chunk_end = a.chunk_end
    BY <1>1, <1>2, <1>8 DEF MovedPoll
  <1>10. Concludes(e, b, q)
    BY <1>4, NextEventConcludes DEF e, b
  <1>11. /\ q.kind = "Data" /\ q.count = n /\ q.c = Consumed(At(a.c, s), n)
         /\ q.chunk_start = a.chunk_start /\ q.chunk_end = a.chunk_end
    BY <1>9, <1>10 DEF Concludes
  <1>12. ASSUME NEW x, Shaped(x), NEW i
         PROVE  [Consumed(At(x, s), n) EXCEPT !.input = i] = At(Released(x, n), i)
    <2> DEFINE t == Skip(At(x, s).input, n)
               k == x.held - n
    <2>1. Consumed(At(x, s), n) = [At(x, s) EXCEPT !.input = t] /\ Released(x, n) = [x EXCEPT !.held = k]
      BY DEF Consumed, Released
    <2> HIDE DEF t, k
    <2> QED BY <1>12, <2>1 DEF At, Shaped
  <1> QED BY <1>1, <1>3, <1>11, <1>12 DEF SameData

----------------------------------------------------------------------------
(* The mapping: all that was received is in the buffer.                     *)
LEMMA MappedFields ==
    ASSUME Inv
    PROVE  /\ Buffering = At(conn, Received) /\ Received \in Seq(Symbols(Setting))
           /\ Shaped(conn) /\ conn \in Connections(Symbols(Setting))
           /\ Buffering.input = Received /\ Buffering.eof = conn.eof
           /\ Len(Received) = conn.held + Len(conn.input)
  <1> DEFINE X == Symbols(Setting)
  <1>1. conn \in Connections(X) /\ conn.input \in Seq(X) /\ queue \in Seq(Seq(X))
        /\ conn.held = Len(FlattenSeq(queue))
    BY DEF Inv, Queued, Connections
  <1>2. FlattenSeq(queue) \in Seq(X)
    BY <1>1, FlattenTyped
  <1>3. Received \in Seq(X) /\ Len(Received) = conn.held + Len(conn.input)
    BY <1>1, <1>2, ConcatProperties DEF Received
  <1>4. Buffering = At(conn, Received) /\ Shaped(conn)
    BY <1>1, ConnectionShape DEF Buffering, At
  <1> QED BY <1>1, <1>3, <1>4, AtFields

(* Without a queue it is the core connection itself.                        *)
LEMMA WithoutQueue ==
    ASSUME Inv, queue = <<>>
    PROVE  Received = conn.input /\ Buffering = conn /\ conn.held = 0
  <1> DEFINE X == Symbols(Setting)
  <1>1. conn \in Connections(X) /\ conn.input \in Seq(X) /\ conn.held = Len(FlattenSeq(queue))
    BY DEF Inv, Queued, Connections
  <1>2. FlattenSeq(queue) = <<>>
    BY FlattenEmpty
  <1>3. conn.held = 0
    BY <1>1, <1>2
  <1>4. Received = conn.input
    BY <1>1, <1>2, ConcatEmptySeq DEF Received
  <1> QED BY <1>1, <1>3, <1>4 DEF Buffering, Connections

(* Objects are held only while the peer is in its body.                     *)
LEMMA WithQueue ==
    ASSUME Inv, queue # <<>>
    PROVE  /\ Lawful(conn.st) /\ peer_state(conn) = "SendBody"
           /\ Head(queue) \in Seq(Symbols(Setting)) /\ Len(Head(queue)) \in 1..conn.held
           /\ FlattenSeq(queue) = Head(queue) \o FlattenSeq(Tail(queue))
           /\ FlattenSeq(Tail(queue)) \in Seq(Symbols(Setting))
  <1> DEFINE X == Symbols(Setting)
             n == Len(Head(queue))
  <1>1. /\ conn \in Connections(X) /\ Sound(conn) /\ queue \in Seq(Seq(X))
        /\ conn.held = Len(FlattenSeq(queue)) /\ \A i \in DOMAIN queue : queue[i] # <<>>
    BY DEF Inv, Queued
  <1>2. /\ Head(queue) \in Seq(X) /\ Tail(queue) \in Seq(Seq(X))
        /\ FlattenSeq(queue) = Head(queue) \o FlattenSeq(Tail(queue))
    BY <1>1, FlattenTail
  <1>3. FlattenSeq(Tail(queue)) \in Seq(X)
    BY <1>2, FlattenTyped
  <1>4. /\ n \in Nat /\ Len(FlattenSeq(Tail(queue))) \in Nat
        /\ conn.held = n + Len(FlattenSeq(Tail(queue)))
    BY <1>1, <1>2, <1>3, ConcatProperties, LenProperties
  <1>5. Head(queue) # <<>>
    <2>1. Len(queue) \in Nat \ {0}
      BY <1>1, EmptySeq
    <2>2. Head(queue) = queue[1] /\ 1 \in DOMAIN queue
      BY <1>1, <2>1
    <2> QED BY <1>1, <2>2
  <1>6. n \in 1..conn.held
    BY <1>2, <1>4, <1>5, EmptySeq
  <1>7. peer_state(conn) = "SendBody" /\ Lawful(conn.st)
    <2>1. conn.held > 0
      BY <1>4, <1>6
    <2> QED BY <1>1, <2>1 DEF Sound, Coherent, HeldFits, WithinPayload, payload_reader
  <1> QED BY <1>2, <1>3, <1>6, <1>7

(* receive_data appends to what was received, wherever it puts the object.  *)
LEMMA ReceiveDataRefines ==
    ASSUME Inv, NEW piece \in Setting.pieces, NEW exact, ReceiveData(piece, exact)
    PROVE  D!Receive(piece)
  <1> DEFINE X == Symbols(Setting)
  <1>1. /\ Buffering = At(conn, Received) /\ Shaped(conn) /\ conn \in Connections(X)
        /\ Buffering.input = Received /\ Buffering.eof = conn.eof /\ Received \in Seq(X)
    BY MappedFields
  <1>2. piece \in Seq(X) /\ conn.input \in Seq(X) /\ queue \in Seq(Seq(X))
    BY SettingTyped DEF Inv, Queued, Connections
  <1>3. FlattenSeq(queue) \in Seq(X)
    BY <1>2, FlattenTyped
  <1>4. Len(Received) + Len(piece) <= D!Setting.max_input
    BY DEF ReceiveData, D!Setting, Setting
  <1>5. ASSUME ~conn.eof, Received' = Received \o piece, NEW i, NEW k,
               conn' = [conn EXCEPT !.input = i, !.held = k], out' = Answer("Ok", <<>>)
        PROVE  D!Receive(piece)
    <2>1. Buffering' = [conn' EXCEPT !.input = Received', !.held = 0]
      BY DEF Buffering
    <2>2. receive_bytes(Buffering, piece) = [Buffering EXCEPT !.input = Received \o piece]
      BY <1>1 DEF receive_bytes
    <2> DEFINE j == Received \o piece
    <2>3. /\ Buffering' = [[conn EXCEPT !.input = i, !.held = k] EXCEPT !.input = j, !.held = 0]
          /\ receive_bytes(Buffering, piece) = [At(conn, Received) EXCEPT !.input = j]
      BY <1>1, <1>5, <2>1, <2>2
    <2> HIDE DEF j
    <2>4. Buffering' = receive_bytes(Buffering, piece)
      BY <1>1, <2>3 DEF At, Shaped
    <2> QED BY <1>1, <1>4, <1>5, <2>4 DEF D!Receive
  <1>6. CASE Hold(piece) /\ hold_body_data(conn, Len(piece))
    <2>1. /\ conn' = [conn EXCEPT !.held = @ + Len(piece)] /\ queue' = Append(queue, piece)
          /\ out' = Answer("Ok", <<>>) /\ ~conn.eof /\ conn.input = <<>>
      BY <1>6 DEF Hold, hold_body_data
    <2>2. FlattenSeq(queue') = FlattenSeq(queue) \o piece
      BY <1>2, <2>1, FlattenAppend
    <2>3. conn'.input = <<>>
      BY <1>1, <2>1 DEF Connections
    <2>4. Received = FlattenSeq(queue)
      BY <1>3, <2>1, ConcatEmptySeq DEF Received
    <2>5. Received' = Received \o piece
      <3>1. FlattenSeq(queue) \o piece \in Seq(X)
        BY <1>2, <1>3, ConcatProperties
      <3>2. Received' = (FlattenSeq(queue) \o piece) \o <<>>
        BY <2>2, <2>3 DEF Received
      <3> QED BY <2>4, <3>1, <3>2, ConcatEmptySeq
    <2> DEFINE k == conn.held + Len(piece)
    <2>6. conn' = [conn EXCEPT !.input = conn.input, !.held = k]
      <3>1. conn' = [conn EXCEPT !.held = k]
        BY <2>1
      <3> HIDE DEF k
      <3> QED BY <1>1, <3>1 DEF Shaped
    <2> HIDE DEF k
    <2> QED BY <1>5, <2>1, <2>5, <2>6
  <1>7. CASE Copy(piece)
    <2>1. CASE conn.eof
      <3>1. conn' = conn /\ queue' = queue /\ out' = Answer("LocalError", <<>>)
        BY <1>7, <2>1 DEF Copy
      <3>2. Buffering' = Buffering
        BY <3>1 DEF Buffering, Received
      <3> QED BY <1>1, <1>4, <2>1, <3>1, <3>2 DEF D!Receive
    <2>2. CASE ~conn.eof
      <3> DEFINE j == conn.input \o piece
      <3>1. conn' = [conn EXCEPT !.input = j] /\ queue' = queue /\ out' = Answer("Ok", <<>>)
        BY <1>7, <2>2 DEF Copy, receive_bytes
      <3>2. Received' = Received \o piece
        <4>1. conn'.input = conn.input \o piece
          BY <1>1, <3>1 DEF Shaped
        <4>2. Received' = FlattenSeq(queue) \o (conn.input \o piece)
          BY <3>1, <4>1 DEF Received
        <4>3. \A a, b, z \in Seq(X) : (a \o b) \o z = a \o (b \o z)
          BY ConcatAssociative
        <4> QED BY <1>2, <1>3, <4>2, <4>3 DEF Received
      <3> HIDE DEF j
      <3>3. conn' = [conn EXCEPT !.input = j, !.held = conn.held]
        BY <1>1, <3>1 DEF Shaped
      <3> QED BY <1>5, <2>2, <3>1, <3>2, <3>3
    <2> QED BY <2>1, <2>2
  <1> QED BY <1>6, <1>7 DEF ReceiveData

(* receive_data with no bytes looks at neither buffer.                      *)
LEMMA ReceiveEofRefines ==
    ASSUME Inv, ReceiveEof
    PROVE  D!ReceiveEof
  <1>1. conn' = record_eof(conn) /\ queue' = queue /\ out' = Answer("Ok", <<>>)
    BY DEF ReceiveEof
  <1>2. Buffering = At(conn, Received) /\ Shaped(conn)
    BY MappedFields
  <1> DEFINE s == IF conn.role = "client" THEN disable_keep_alive(conn.st) ELSE conn.st
  <1>3. ASSUME NEW x, Alike(conn, x) PROVE record_eof(x) = [x EXCEPT !.eof = TRUE, !.st = s]
    BY <1>3 DEF record_eof, NoKeepAliveIf, Alike, Shaped
  <1> HIDE DEF s
  <1>4. /\ conn' = [conn EXCEPT !.eof = TRUE, !.st = s]
        /\ record_eof(Buffering) = [At(conn, Received) EXCEPT !.eof = TRUE, !.st = s]
    BY <1>1, <1>2, <1>3, AtAlike
  <1>5. conn'.input = conn.input
    BY <1>2, <1>4 DEF Shaped
  <1>6. Received' = Received
    BY <1>1, <1>5 DEF Received
  <1>7. Buffering' = [conn' EXCEPT !.input = Received, !.held = 0]
    BY <1>6 DEF Buffering
  <1>8. Buffering' = record_eof(Buffering)
    BY <1>2, <1>4, <1>7 DEF At, Shaped
  <1> QED BY <1>1, <1>8 DEF D!ReceiveEof

(* A concatenation is its two parts.                                        *)
LEMMA ConcatParts ==
    ASSUME NEW X, NEW a \in Seq(X), NEW z \in Seq(X)
    PROVE  /\ SubSeq(a \o z, 1, Len(a)) = a /\ Prefix(a \o z, Len(a)) = a
           /\ SubSeq(a \o z, Len(a) + 1, Len(a \o z)) = z
           /\ Len(a) <= Len(a \o z)
  <1> DEFINE s == a \o z
             n == Len(a)
             m == Len(s)
             first == SubSeq(s, 1, n)
             second == SubSeq(s, n + 1, m)
  <1>1. /\ s \in Seq(X) /\ n \in Nat /\ Len(z) \in Nat /\ m = n + Len(z)
        /\ \A i \in 1..m : s[i] = IF i <= n THEN a[i] ELSE z[i - n]
    BY ConcatProperties, LenProperties
  <1> HIDE DEF s, n, m
  <1>2. first = a
    <2>1. /\ first \in Seq(X) /\ Len(first) = n /\ \A i \in 1..n : first[i] = s[i]
      BY <1>1, SubSeqProperties DEF m
    <2> HIDE DEF first
    <2>2. \A i \in 1..n : first[i] = a[i]
      BY <1>1, <2>1
    <2> QED BY <2>1, <2>2, SeqEqual DEF n
  <1>3. second = z
    <2>1. /\ second \in Seq(X) /\ Len(second) = Len(z)
          /\ \A i \in 1..Len(z) : second[i] = s[i + n]
      BY <1>1, SubSeqProperties DEF m
    <2> HIDE DEF second
    <2>2. ASSUME NEW i \in 1..Len(z) PROVE second[i] = z[i]
      <3>1. i + n \in 1..m /\ ~(i + n <= n) /\ (i + n) - n = i
        BY <1>1, <2>2
      <3>2. s[i + n] = z[(i + n) - n]
        BY <1>1, <3>1
      <3> QED BY <2>1, <3>1, <3>2
    <2> QED BY <2>1, <2>2, SeqEqual
  <1>4. Prefix(s, n) = first /\ n <= m
    <2>1. (IF n < m THEN n ELSE m) = n /\ n <= m
      BY <1>1
    <2> QED BY <2>1 DEF Prefix, m
  <1> QED BY <1>2, <1>3, <1>4 DEF s, n, m

(* next_event with a queue tells the oldest object as if no more had come.  *)
LEMMA NextObjectRefines ==
    ASSUME Inv, NextObject
    PROVE  \E n \in 1..Len(Buffering.input) : D!PollPiece(n)
  <1> DEFINE X == Symbols(Setting)
             s == Head(queue)
             n == Len(s)
             rest == FlattenSeq(Tail(queue)) \o conn.input
             p == next_event_in_place(conn, n)
             cut == [Buffering EXCEPT !.input = SubSeq(@, 1, n)]
             q == next_event(cut, FALSE)
  <1>1. /\ queue # <<>> /\ queue' = Tail(queue) /\ conn' = p.c
        /\ out' = IF p.kind = "LocalError" THEN Answer("LocalError", <<>>)
                  ELSE Out("Data", s, p.chunk_start, p.chunk_end)
    BY DEF NextObject
  <1>2. /\ Buffering = At(conn, Received) /\ Shaped(conn) /\ conn \in Connections(X)
        /\ Buffering.input = Received /\ conn.input \in Seq(X) /\ Sound(conn)
    BY MappedFields DEF Connections, Inv
  <1>3. /\ s \in Seq(X) /\ n \in 1..conn.held /\ FlattenSeq(Tail(queue)) \in Seq(X)
        /\ FlattenSeq(queue) = s \o FlattenSeq(Tail(queue))
    BY <1>1, WithQueue
  <1>4. rest \in Seq(X) /\ Received = s \o rest
    <2>1. \A a, b, z \in Seq(X) : (a \o b) \o z = a \o (b \o z)
      BY ConcatAssociative
    <2>2. Received = (s \o FlattenSeq(Tail(queue))) \o conn.input
      BY <1>3 DEF Received
    <2>3. rest \in Seq(X)
      BY <1>2, <1>3, ConcatProperties
    <2> HIDE DEF s
    <2> QED BY <1>2, <1>3, <2>1, <2>2, <2>3
  <1> HIDE DEF X
  <1>5. /\ SubSeq(Received, 1, n) = s /\ Prefix(Received, n) = s
        /\ SubSeq(Received, n + 1, Len(Received)) = rest /\ n <= Len(Received)
    <2> HIDE DEF rest, s
    <2> QED BY <1>3, <1>4, ConcatParts
  <1>6. n \in 1..Len(Received)
    <2>1. conn.held \in Nat
      BY <1>2 DEF Connections
    <2>2. Len(Received) \in Nat
      BY <1>3, <1>4, ConcatProperties, LenProperties
    <2> HIDE DEF n
    <2> QED BY <1>3, <1>5, <2>1, <2>2
  <1>7. cut = At(conn, s)
    <2>1. cut = [At(conn, Received) EXCEPT !.input = s]
      BY <1>2, <1>5, AtFields
    <2> HIDE DEF s, cut
    <2> QED BY <1>2, <2>1 DEF At, Shaped
  <1>8. /\ p.kind = "Data" /\ q.kind = "Data" /\ q.count = n
        /\ q.chunk_start = p.chunk_start /\ q.chunk_end = p.chunk_end
        /\ \A i : [q.c EXCEPT !.input = i] = At(p.c, i)
    <2> HIDE DEF cut
    <2>1. q = next_event(At(conn, s), FALSE)
      BY <1>7
    <2>2. Len(s) \in 1..conn.held /\ p = next_event_in_place(conn, Len(s))
      BY <1>3
    <2> HIDE DEF s, q, p
    <2>3. SameData(p, q, Len(s))
      BY <1>2, <1>3, <2>1, <2>2, InPlaceIsPoll
    <2> QED BY <2>3 DEF SameData, n
  <1>9. p.c.input = conn.input
    <2>1. n \in Nat
      BY <1>3, LenProperties
    <2>2. InPlaceResult(X, conn, n, p)
      BY <1>2, <2>1, InPlaceEffect
    <2> QED BY <2>2 DEF InPlaceResult
  <1>10. Received' = rest
    BY <1>1, <1>9 DEF Received
  <1> DEFINE after == SubSeq(Buffering.input, n + 1, Len(Buffering.input))
  <1>11. after = rest
    BY <1>2, <1>5
  <1>12. Buffering' = [q.c EXCEPT !.input = after]
    <2>1. Buffering' = At(p.c, rest)
      BY <1>1, <1>10 DEF Buffering, At
    <2> HIDE DEF p, q, rest, after
    <2> QED BY <1>8, <1>11, <2>1
  <1>13. out' = Told(q, Buffering.input)
    <2>1. out' = Out("Data", s, p.chunk_start, p.chunk_end)
      BY <1>1, <1>8
    <2>2. Told(q, Received) = Out("Data", Prefix(Received, n), q.chunk_start, q.chunk_end)
      <3> HIDE DEF q, n
      <3> QED BY <1>8 DEF Told
    <2> QED BY <1>2, <1>5, <1>8, <2>1, <2>2
  <1>14. D!PollPiece(n)
    <2> HIDE DEF q, n, after
    <2> SUFFICES /\ q.kind = "Data" /\ q.count = n /\ Buffering' = [q.c EXCEPT !.input = after]
                 /\ out' = Told(q, Buffering.input)
      BY DEF D!PollPiece, q, after
    <2> QED BY <1>8, <1>12, <1>13
  <1> QED BY <1>2, <1>6, <1>14

(* The same of the state that a step leads to.                              *)
LEMMA WithoutQueueAfter == (Inv /\ queue = <<>> => Buffering = conn)'
  <1>1. Inv /\ queue = <<>> => Buffering = conn
    BY WithoutQueue
  <1> QED BY <1>1, PTL

(* next_event with no queue is a poll of a connection that buffers          *)
(* everything.                                                              *)
LEMMA NextBufferedRefines ==
    ASSUME Inv, Inv', NEW due, NextBuffered(due)
    PROVE  D!Poll(due)
  <1>1. queue = <<>> /\ queue' = <<>> /\ conn' = next_event(conn, due).c
        /\ out' = Told(next_event(conn, due), next_event_inner(conn, due).c.input)
    BY DEF NextBuffered
  <1>2. Buffering = conn
    BY <1>1, WithoutQueue
  <1>3. Buffering' = conn'
    BY <1>1, WithoutQueueAfter
  <1> QED BY <1>1, <1>2, <1>3 DEF D!Poll

(* The other calls change no buffer and answer alike, wherever the bytes    *)
(* are.  With a queue the peer is in its body, so the two calls that look   *)
(* at the buffer for anything but its length are refused.                   *)
LEMMA CallRefines ==
    ASSUME Inv, Inv', Call
    PROVE  D!Call
  <1> DEFINE X == Symbols(Setting)
             heads == Setting.heads
  <1>1. PICK r \in Calls(conn, heads) : conn' = r.c /\ out' = ToldOfCall(r)
    BY DEF Call
  <1>2. queue' = queue
    BY DEF Call
  <1>3. D!Setting.heads = heads
    BY DEF D!Setting, Setting
  <1>4. CASE queue = <<>>
    <2>1. Buffering = conn /\ Buffering' = conn'
      BY <1>2, <1>4, WithoutQueue, WithoutQueueAfter
    <2> QED BY <1>1, <1>3, <2>1 DEF D!Call
  <1>5. CASE queue # <<>>
    <2> DEFINE b == Buffering
               i == Received
    <2>1. /\ b = At(conn, i) /\ Shaped(conn) /\ conn \in Connections(X)
          /\ Len(i) = conn.held + Len(conn.input) /\ Lawful(conn.st)
          /\ peer_state(conn) = "SendBody"
      BY <1>5, MappedFields, WithQueue
    <2>2. /\ Shaped(b) /\ b.st = conn.st /\ b.cycle = conn.cycle /\ b.held = 0 /\ b.input = i
          /\ Lawful(b.st) /\ peer_state(b) = "SendBody"
      BY <2>1, AtFields, AtState
    <2>3. unread(b) = unread(conn)
      <3>1. b.held + Len(b.input) = conn.held + Len(conn.input)
        <4>1. conn.held \in Nat /\ Len(conn.input) \in Nat
          BY <2>1, LenProperties DEF Connections
        <4> HIDE DEF b, i
        <4> QED BY <2>1, <2>2, <4>1
      <3> QED BY <2>2, <3>1 DEF unread
    <2> HIDE DEF b, i
    <2> DEFINE Twin(x) == \E s \in Calls(b, heads) : Matches(x, s, i)
    <2>4. ASSUME NEW x, NEW s \in Calls(b, heads), Matches(x, s, i) PROVE Twin(x)
      BY <2>4
    <2>5. Matches(Refused(conn), Refused(b), i)
      BY <2>1 DEF Matches, Refused
    <2> HIDE DEF Twin
    <2>6. ASSUME NEW h \in heads
          PROVE  /\ Twin(send_request(conn, h)) /\ Twin(send_informational_response(conn, h))
                 /\ Twin(send_response(conn, h))
      <3>1. /\ send_request(b, h) \in Calls(b, heads)
            /\ send_informational_response(b, h) \in Calls(b, heads)
            /\ send_response(b, h) \in Calls(b, heads)
        BY <2>6 DEF Calls
      <3>2. Matches(send_request(conn, h), send_request(b, h), i)
        <4>1. send_request(conn, h) = Refused(conn) /\ send_request(b, h) = Refused(b)
          BY <2>1, <2>2, NoRequestInBody
        <4> QED BY <2>5, <4>1
      <3>3. Matches(send_informational_response(conn, h), send_informational_response(b, h), i)
        BY <2>1, SendInformationalAt, MovedMatches
      <3>4. Matches(send_response(conn, h), send_response(b, h), i)
        <4>1. send_response(b, h) = Moved(send_response(conn, h), i)
          BY <2>1, <2>3, SendResponseAt
        <4> QED BY <4>1, MovedMatches
      <3> QED BY <2>4, <3>1, <3>2, <3>3, <3>4
    <2>7. ASSUME NEW h \in heads, NEW n \in Lengths
          PROVE  /\ Twin(send_request_with_body(conn, h, n))
                 /\ Twin(send_response_with_body(conn, h, n))
      <3>1. /\ send_request_with_body(b, h, n) \in Calls(b, heads)
            /\ send_response_with_body(b, h, n) \in Calls(b, heads)
        BY <2>7 DEF Calls
      <3>2. Matches(send_request_with_body(conn, h, n), send_request_with_body(b, h, n), i)
        <4>1. /\ send_request_with_body(conn, h, n) = Refused(conn)
              /\ send_request_with_body(b, h, n) = Refused(b)
          BY <2>1, <2>2, NoRequestInBody
        <4> QED BY <2>5, <4>1
      <3>3. Matches(send_response_with_body(conn, h, n), send_response_with_body(b, h, n), i)
        BY <2>1, <2>3, SendResponseWithBodyAt
      <3> QED BY <2>4, <3>1, <3>2, <3>3
    <2>8. ASSUME NEW n \in Lengths PROVE Twin(send_data(conn, n))
      <3>1. send_data(b, n) \in Calls(b, heads)
        BY <2>8 DEF Calls
      <3>2. send_data(b, n) = Moved(send_data(conn, n), i)
        BY <2>1, SendDataAt
      <3> QED BY <2>4, <3>1, <3>2, MovedMatches
    <2>9. ASSUME NEW trailers \in {<<>>, <<"field">>} PROVE Twin(end_of_message(conn, trailers))
      <3>1. end_of_message(b, trailers) \in Calls(b, heads)
        BY <2>9 DEF Calls
      <3>2. end_of_message(b, trailers) = Moved(end_of_message(conn, trailers), i)
        BY <2>1, EndOfMessageAt
      <3> QED BY <2>4, <3>1, <3>2, MovedMatches
    <2>10. Twin(Restarted(conn)) /\ Twin(Closed(conn))
      <3>1. Restarted(b) \in Calls(b, heads) /\ Closed(b) \in Calls(b, heads)
        BY DEF Calls
      <3>2. Restarted(conn) = Refused(conn) /\ Restarted(b) = Refused(b)
        BY <2>1, <2>2, NoRestartInBody
      <3>3. Closed(b) = Moved(Closed(conn), i)
        BY <2>1, CloseAt
      <3> QED BY <2>4, <2>5, <3>1, <3>2, <3>3, MovedMatches
    <2>11. Twin(r)
      BY <1>1, <2>6, <2>7, <2>8, <2>9, <2>10 DEF Calls
    <2>12. PICK s \in Calls(b, heads) : Matches(r, s, i)
      BY <2>11 DEF Twin
    <2>13. r.c.input = conn.input
      BY <1>1, CallKeepsBytes
    <2>14. Received' = i
      BY <1>1, <1>2, <2>13 DEF Received, i
    <2>15. Buffering' = At(r.c, i)
      BY <1>1, <2>14 DEF Buffering, At
    <2>16. Buffering' = s.c /\ ToldOfCall(s) = ToldOfCall(r)
      BY <2>12, <2>15 DEF Matches, ToldOfCall
    <2> QED BY <1>1, <1>3, <2>12, <2>16 DEF D!Call, b
  <1> QED BY <1>4, <1>5

----------------------------------------------------------------------------
(* Whether an object is held or copied cannot be told from outside: with    *)
(* any pieces, of any length, in any order with the other calls, the        *)
(* Connection class answers as one that buffers everything.                 *)
THEOREM QueueIsInvisible == Spec => Delivers
  <1>1. Init => D!Init
    <2> SUFFICES ASSUME Init PROVE D!Init
      OBVIOUS
    <2>1. Inv
      BY InitIsGood
    <2>2. Buffering = conn
      BY <2>1, WithoutQueue DEF Init
    <2> QED BY <2>2 DEF Init, D!Init, D!Setting, Setting
  <1>2. Inv /\ Inv' /\ [Next]_vars => [D!Next]_<<setting, Buffering, out>>
    <2> SUFFICES ASSUME Inv, Inv', [Next]_vars PROVE [D!Next]_<<setting, Buffering, out>>
      OBVIOUS
    <2>1. CASE UNCHANGED vars
      BY <2>1 DEF vars, Buffering, Received
    <2>2. CASE Next
      <3>1. setting' = setting /\ D!Setting = Setting
        BY <2>2 DEF Next, D!Setting, Setting
      <3>2. CASE \E piece \in Setting.pieces, exact \in BOOLEAN : ReceiveData(piece, exact)
        BY <3>1, <3>2, ReceiveDataRefines DEF D!Next
      <3>3. CASE ReceiveEof
        BY <3>1, <3>3, ReceiveEofRefines DEF D!Next
      <3>4. CASE NextObject
        BY <3>1, <3>4, NextObjectRefines DEF D!Next
      <3>5. CASE \E due \in BOOLEAN : NextBuffered(due)
        BY <3>1, <3>5, NextBufferedRefines DEF D!Next
      <3>6. CASE Call
        BY <3>1, <3>6, CallRefines DEF D!Next
      <3> QED BY <2>2, <3>2, <3>3, <3>4, <3>5, <3>6 DEF Next, NextEvent
    <2> QED BY <2>1, <2>2
  <1> QED BY <1>1, <1>2, InvHolds, PTL DEF Spec, Delivers, D!Spec
=============================================================================
