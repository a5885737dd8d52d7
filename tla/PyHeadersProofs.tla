-------------------------- MODULE PyHeadersProofs --------------------------
(***************************************************************************)
(* What holds of the Python Headers object for every number of threads, of  *)
(* reads and of finalizers that read in the middle of a read; and that      *)
(* Headers, the bytes and the ranges that the object wraps, are the list of *)
(* fields that FieldList says.                                              *)
(***************************************************************************)
EXTENDS PyHeaders, TLAPS, SequenceTheorems, NaturalsInduction, WellFoundedInduction

(* The frames that reads may be in.                                         *)
Frames(n) == {Looking, Building} \cup {Storing(tuple) : tuple \in 1..n}

(* Why one tuple is returned: the cell is unset or names a tuple that was   *)
(* built, what any read has to store was built, and every tuple was built   *)
(* from the fields as they still are, since nothing is built before the     *)
(* object exists and nothing changes after.                                 *)
Inv ==
    /\ wrapped \in BOOLEAN
    /\ made \in Seq({iter(headers)})
    /\ items \in 0..Len(made)
    /\ stack \in [Threads -> Seq(Frames(Len(made)))]
    /\ returned \subseteq {items} \ {0}
    /\ ~wrapped => made = <<>> /\ \A t \in Threads : stack[t] = <<>>

(* The innermost read of a thread that is in one, and what is left of its   *)
(* stack without it.                                                        *)
LEMMA TopTyped ==
    ASSUME NEW F, NEW s \in Seq(F), s # <<>>
    PROVE  s[Len(s)] \in F /\ SubSeq(s, 1, Len(s) - 1) \in Seq(F)
  <1>1. Len(s) \in Nat \ {0}
    BY EmptySeq
  <1>2. \A i \in 1..(Len(s) - 1) : s[i] \in F
    BY <1>1
  <1>3. SubSeq(s, 1, Len(s) - 1) \in Seq(F)
    BY <1>1, <1>2, SubSeqProperties
  <1> QED BY <1>1, <1>3

(* A thread that is looking, building or storing is in a read.              *)
LEMMA InRead ==
    ASSUME NEW t, Top(t).at # "idle"
    PROVE  stack[t] # <<>> /\ Top(t) = stack[t][Len(stack[t])]
  BY DEF Top

(* Ending or replacing the innermost read keeps every stack one of frames.  *)
LEMMA StacksKept ==
    ASSUME NEW F, NEW G, F \subseteq G, stack \in [Threads -> Seq(F)],
           NEW t \in Threads, stack[t] # <<>>, NEW frame \in G
    PROVE  /\ Pop(t) \in [Threads -> Seq(G)]
           /\ Become(t, frame) \in [Threads -> Seq(G)]
  <1>1. \A u \in Threads : stack[u] \in Seq(G)
    BY SeqMonotonic
  <1>2. SubSeq(stack[t], 1, Len(stack[t]) - 1) \in Seq(G)
    BY <1>1, TopTyped
  <1>3. Append(SubSeq(stack[t], 1, Len(stack[t]) - 1), frame) \in Seq(G)
    BY <1>2, AppendProperties
  <1> QED BY <1>1, <1>2, <1>3 DEF Pop, Become

(* A core call before the object is made leaves nothing built.              *)
LEMMA ChangeKeepsInv ==
    ASSUME Inv, Change
    PROVE  Inv'
  <1>1. /\ ~wrapped /\ wrapped' = wrapped /\ made' = made /\ items' = items
        /\ stack' = stack /\ returned' = returned
    BY DEF Change, readVars
  <1>2. made = <<>>
    BY <1>1 DEF Inv
  <1>3. <<>> \in Seq({iter(headers)'})
    BY EmptySeq
  <1>4. Frames(Len(made))' = Frames(Len(made))
    BY <1>1 DEF Frames, Looking, Building, Storing
  <1>5. made' \in Seq({iter(headers)'})
    BY <1>1, <1>2, <1>3
  <1> QED BY <1>1, <1>4, <1>5 DEF Inv

(* Making the object builds nothing.                                        *)
LEMMA NewKeepsInv ==
    ASSUME Inv, new_py
    PROVE  Inv'
  <1>1. /\ wrapped' = TRUE /\ made' = made /\ items' = items /\ headers' = headers
        /\ stack' = stack /\ returned' = returned
    BY DEF new_py, readVars
  <1>2. iter(headers)' = iter(headers)
    BY <1>1, Zenon DEF iter, Slice
  <1>3. Frames(Len(made))' = Frames(Len(made))
    BY <1>1 DEF Frames, Looking, Building, Storing
  <1> QED BY <1>1, <1>2, <1>3 DEF Inv

(* So does starting a read.                                                *)
LEMMA ReadKeepsInv ==
    ASSUME Inv, NEW t \in Threads, Read(t)
    PROVE  Inv'
  <1>1. /\ wrapped /\ wrapped' = wrapped /\ made' = made /\ items' = items /\ headers' = headers
        /\ stack' = [stack EXCEPT ![t] = Append(@, Looking)] /\ returned' = returned
    BY DEF Read
  <1>2. iter(headers)' = iter(headers)
    BY <1>1, Zenon DEF iter, Slice
  <1>3. Frames(Len(made))' = Frames(Len(made))
    BY <1>1 DEF Frames, Looking, Building, Storing
  <1>4. Append(stack[t], Looking) \in Seq(Frames(Len(made)))
    <2>1. Looking \in Frames(Len(made)) /\ stack[t] \in Seq(Frames(Len(made)))
      BY DEF Frames, Inv
    <2> QED BY <2>1, AppendProperties
  <1> HIDE DEF Frames
  <1>5. stack' \in [Threads -> Seq(Frames(Len(made)))]
    BY <1>1, <1>4 DEF Inv
  <1> QED BY <1>1, <1>2, <1>3, <1>5 DEF Inv

(* A read that finds the cell set returns what the cell names.              *)
LEMMA LookKeepsInv ==
    ASSUME Inv, NEW t \in Threads, Look(t)
    PROVE  Inv'
  <1>1. /\ wrapped' = wrapped /\ made' = made /\ items' = items /\ headers' = headers
        /\ \/ items # 0 /\ stack' = Pop(t) /\ returned' = returned \cup {items}
           \/ stack' = Become(t, Building) /\ returned' = returned
    BY DEF Look
  <1>2. iter(headers)' = iter(headers)
    BY <1>1, Zenon DEF iter, Slice
  <1>3. Frames(Len(made))' = Frames(Len(made))
    BY <1>1 DEF Frames, Looking, Building, Storing
  <1>4. stack[t] # <<>>
    BY InRead DEF Look, Looking
  <1>5. Building \in Frames(Len(made)) /\ stack \in [Threads -> Seq(Frames(Len(made)))]
    BY DEF Frames, Inv
  <1>6. stack' \in [Threads -> Seq(Frames(Len(made)))]
    BY <1>1, <1>4, <1>5, StacksKept
  <1>7. wrapped
    BY <1>4 DEF Inv
  <1> QED BY <1>1, <1>2, <1>3, <1>6, <1>7 DEF Inv

(* A tuple is built from the fields, or the build fails.                    *)
LEMMA BuildKeepsInv ==
    ASSUME Inv, NEW t \in Threads, Build(t)
    PROVE  Inv'
  <1>1. /\ wrapped' = wrapped /\ items' = items /\ headers' = headers /\ returned' = returned
        /\ \/ made' = Append(made, iter(headers)) /\ stack' = Become(t, Storing(Len(made')))
           \/ made' = made /\ stack' = Pop(t)
    BY DEF Build
  <1>2. iter(headers)' = iter(headers)
    BY <1>1, Zenon DEF iter, Slice
  <1>3. stack[t] # <<>>
    BY InRead DEF Build, Building
  <1>4. wrapped
    BY <1>3 DEF Inv
  <1>5. Building \in Frames(Len(made)) /\ stack \in [Threads -> Seq(Frames(Len(made)))]
    BY DEF Frames, Inv
  <1>6. CASE made' = Append(made, iter(headers)) /\ stack' = Become(t, Storing(Len(made')))
    <2>1. made' \in Seq({iter(headers)}) /\ Len(made') = Len(made) + 1 /\ Len(made) \in Nat
      BY <1>6, AppendProperties DEF Inv
    <2>2. Frames(Len(made)) \subseteq Frames(Len(made')) /\ Storing(Len(made')) \in Frames(Len(made'))
      BY <2>1 DEF Frames
    <2>3. stack' \in [Threads -> Seq(Frames(Len(made')))]
      BY <1>3, <1>5, <1>6, <2>2, StacksKept
    <2>4. Frames(Len(made))' = Frames(Len(made'))
      BY DEF Frames, Looking, Building, Storing
    <2> QED BY <1>1, <1>2, <1>4, <2>1, <2>3, <2>4 DEF Inv
  <1>7. CASE made' = made /\ stack' = Pop(t)
    <2>1. stack' \in [Threads -> Seq(Frames(Len(made)))]
      BY <1>3, <1>5, <1>7, StacksKept
    <2>2. Frames(Len(made))' = Frames(Len(made))
      BY <1>7 DEF Frames, Looking, Building, Storing
    <2> QED BY <1>1, <1>2, <1>4, <1>7, <2>1, <2>2 DEF Inv
  <1> QED BY <1>1, <1>6, <1>7

(* The first to store decides for everyone who is still building.           *)
LEMMA StoreKeepsInv ==
    ASSUME Inv, NEW t \in Threads, Store(t)
    PROVE  Inv'
  <1>1. /\ wrapped' = wrapped /\ made' = made /\ headers' = headers
        /\ items' = IF items = 0 THEN Top(t).tuple ELSE items
        /\ returned' = returned \cup {IF items = 0 THEN Top(t).tuple ELSE items}
        /\ stack' = Pop(t)
    BY DEF Store, get_or_init
  <1>2. iter(headers)' = iter(headers)
    BY <1>1, Zenon DEF iter, Slice
  <1>3. Frames(Len(made))' = Frames(Len(made))
    BY <1>1 DEF Frames, Looking, Building, Storing
  <1>4. stack[t] # <<>> /\ Top(t) = stack[t][Len(stack[t])]
    BY InRead DEF Store
  <1>5. Building \in Frames(Len(made)) /\ stack \in [Threads -> Seq(Frames(Len(made)))]
    BY DEF Frames, Inv
  <1>6. stack' \in [Threads -> Seq(Frames(Len(made)))]
    BY <1>1, <1>4, <1>5, StacksKept
  <1>7. Top(t) \in Frames(Len(made))
    BY <1>4, <1>5, TopTyped
  <1>8. Top(t).tuple \in 1..Len(made)
    BY <1>7 DEF Frames, Looking, Building, Storing, Store
  <1>9. wrapped /\ Len(made) \in Nat
    BY <1>4 DEF Inv
  <1>10. items' \in 0..Len(made)
    BY <1>1, <1>8, <1>9 DEF Inv
  <1>11. items' # 0 /\ returned \subseteq {items'} /\ 0 \notin returned
    BY <1>1, <1>8, <1>9 DEF Inv
  <1>12. returned' = returned \cup {items'}
    BY <1>1
  <1>13. returned' \subseteq {items'} \ {0}
    BY <1>11, <1>12
  <1> QED BY <1>1, <1>2, <1>3, <1>6, <1>9, <1>10, <1>13 DEF Inv

(* The invariant holds in every reachable state.                            *)
LEMMA InvHolds == PySpec => []Inv
  <1>1. PyInit => Inv
    <2> SUFFICES ASSUME PyInit PROVE Inv
      OBVIOUS
    <2>1. /\ wrapped = FALSE /\ items = 0 /\ made = <<>> /\ returned = {}
          /\ stack = [t \in Threads |-> <<>>]
      BY DEF PyInit
    <2>2. Len(made) = 0 /\ made \in Seq({iter(headers)})
      BY <2>1, EmptySeq
    <2>3. stack \in [Threads -> Seq(Frames(Len(made)))]
      BY <2>1, EmptySeq
    <2>4. items \in 0..Len(made) /\ returned \subseteq {items} \ {0}
      BY <2>1, <2>2
    <2>5. wrapped \in BOOLEAN /\ \A t \in Threads : stack[t] = <<>>
      BY <2>1, Zenon
    <2> QED BY <2>1, <2>2, <2>3, <2>4, <2>5, Zenon DEF Inv
  <1>2. Inv /\ [PyNext]_pyVars => Inv'
    <2> SUFFICES ASSUME Inv, [PyNext]_pyVars PROVE Inv'
      OBVIOUS
    <2>1. CASE Change
      BY <2>1, ChangeKeepsInv
    <2>2. CASE new_py
      BY <2>2, NewKeepsInv
    <2>3. CASE \E t \in Threads : Read(t) \/ Look(t) \/ Build(t) \/ Store(t)
      BY <2>3, ReadKeepsInv, LookKeepsInv, BuildKeepsInv, StoreKeepsInv
    <2>4. CASE UNCHANGED pyVars
      <3>1. /\ headers' = headers /\ wrapped' = wrapped /\ made' = made /\ items' = items
            /\ stack' = stack /\ returned' = returned
        BY <2>4 DEF pyVars, readVars
      <3>2. iter(headers)' = iter(headers)
        BY <3>1, Zenon DEF iter, Slice
      <3>3. Frames(Len(made))' = Frames(Len(made))
        BY <3>1 DEF Frames, Looking, Building, Storing
      <3> QED BY <3>1, <3>2, <3>3 DEF Inv
    <2> QED BY <2>1, <2>2, <2>3, <2>4 DEF PyNext
  <1> QED BY <1>1, <1>2, PTL DEF PySpec

(* Whatever number of threads and finalizers read the fields at once, and   *)
(* however many of them build a tuple, every read that succeeds returns the *)
(* one that the cell kept, and it has the fields of the section.            *)
THEOREM ReadersShareOneTuple == PySpec => []OneTuple
  <1>1. Inv => OneTuple
    BY DEF Inv, OneTuple
  <1> QED BY <1>1, InvHolds, PTL

----------------------------------------------------------------------------
(* Induction.  The order that least numbers come from.                      *)
Less == {pair \in Nat \X Nat : pair[1] < pair[2]}

(* No sequence of numbers decreases for ever.                               *)
LEMMA LessIsWellFounded == IsWellFoundedOn(Less, Nat)
  BY NatLessThanWellFounded, Zenon DEF OpToRel, Less

(* A set of numbers that is not empty has a least element.                  *)
LEMMA LeastExists ==
    ASSUME NEW T, T \subseteq Nat, T # {}
    PROVE  \E x \in T : \A y \in T : x <= y
  <1>1. PICK x \in T : \A y \in T : ~(<<y, x>> \in Less)
    BY LessIsWellFounded, WFMin, Zenon
  <1>2. ASSUME NEW y \in T PROVE x <= y
    <2>1. x \in Nat /\ y \in Nat
      OBVIOUS
    <2>2. y < x => <<y, x>> \in Less
      BY <2>1 DEF Less
    <2> QED BY <1>1, <2>1, <2>2
  <1> QED BY <1>2

(* A set that has 0, and with a number its successor, has all up to n.      *)
LEMMA UpTo ==
    ASSUME NEW n \in Nat, NEW S, 0 \in S, \A i \in 1..n : i - 1 \in S => i \in S
    PROVE  \A i \in 0..n : i \in S
  <1> DEFINE Wrong == {i \in 0..n : i \notin S}
  <1>1. SUFFICES ASSUME Wrong # {} PROVE FALSE
    OBVIOUS
  <1>2. PICK i \in Wrong : \A j \in Wrong : i <= j
    <2>1. Wrong \subseteq Nat
      OBVIOUS
    <2> QED BY <1>1, <2>1, LeastExists
  <1>3. i # 0 /\ i \in 1..n /\ i - 1 \in 0..n
    BY <1>2
  <1>4. i - 1 \in S
    BY <1>2, <1>3
  <1> QED BY <1>2, <1>3, <1>4

(* A function defined by recursion from 0 to n, with values in V.           *)
Recurs(f, n, base, g) == f[0] = base /\ \A i \in 1..n : f[i] = g[<<i, f[i - 1]>>]

(* There is one.                                                            *)
LEMMA RecursionExists ==
    ASSUME NEW n \in Nat, NEW V, NEW base \in V, NEW g \in [(1..n) \X V -> V]
    PROVE  \E f \in [0..n -> V] : Recurs(f, n, base, g)
  <1> DEFINE S == {m \in 0..n : \E f \in [0..m -> V] : Recurs(f, m, base, g)}
  <1>1. 0 \in S
    <2> DEFINE f == [i \in 0..0 |-> base]
    <2>1. f \in [0..0 -> V] /\ Recurs(f, 0, base, g)
      BY DEF Recurs
    <2> HIDE DEF f
    <2> QED BY <2>1
  <1>2. ASSUME NEW m \in 1..n, m - 1 \in S PROVE m \in S
    <2>1. PICK f \in [0..(m - 1) -> V] : Recurs(f, m - 1, base, g)
      BY <1>2
    <2> DEFINE next == g[<<m, f[m - 1]>>]
               h == [i \in 0..m |-> IF i = m THEN next ELSE f[i]]
    <2>2. m - 1 \in 0..(m - 1) /\ f[m - 1] \in V
      BY <2>1
    <2>3. next \in V
      BY <2>2
    <2> HIDE DEF next
    <2>4. h \in [0..m -> V] /\ h[0] = base
      BY <2>1, <2>3 DEF Recurs
    <2>5. ASSUME NEW i \in 1..m PROVE h[i] = g[<<i, h[i - 1]>>]
      <3>1. CASE i = m
        <4>1. h[m] = next /\ h[m - 1] = f[m - 1]
          BY <2>2
        <4> HIDE DEF h
        <4> QED BY <3>1, <4>1 DEF next
      <3>2. CASE i # m
        <4>1. i \in 1..(m - 1) /\ h[i] = f[i] /\ h[i - 1] = f[i - 1]
          BY <3>2
        <4> HIDE DEF h
        <4> QED BY <2>1, <4>1 DEF Recurs
      <3> QED BY <3>1, <3>2
    <2> HIDE DEF h
    <2>6. Recurs(h, m, base, g)
      BY <2>4, <2>5 DEF Recurs
    <2> QED BY <2>4, <2>6
  <1> HIDE DEF S
  <1>3. n \in S
    BY <1>1, <1>2, UpTo
  <1> QED BY <1>3 DEF S

----------------------------------------------------------------------------
(* InOrder.  Its partial results, for the positions up to n.                *)
Picks(f, n, set) ==
    f = [i \in 0..n |-> IF i = 0 THEN <<>> ELSE IF i \in set THEN Append(f[i - 1], i) ELSE f[i - 1]]

(* InOrder returns the last of them.                                        *)
LEMMA InOrderIsPick ==
    ASSUME NEW s, NEW set
    PROVE  InOrder(s, set) = (CHOOSE f : Picks(f, Len(s), set))[Len(s)]
  BY Zenon DEF InOrder, Picks

(* They exist.                                                              *)
LEMMA PicksExist ==
    ASSUME NEW n \in Nat, NEW set
    PROVE  \E f : Picks(f, n, set)
  <1> DEFINE V == Seq(Nat)
             g == [p \in (1..n) \X V |-> IF p[1] \in set THEN Append(p[2], p[1]) ELSE p[2]]
  <1>1. g \in [(1..n) \X V -> V] /\ <<>> \in V
    BY EmptySeq, AppendProperties
  <1>2. \A i \in 1..n, x \in V : g[<<i, x>>] = IF i \in set THEN Append(x, i) ELSE x
    OBVIOUS
  <1> HIDE DEF g
  <1>3. PICK f \in [0..n -> V] : Recurs(f, n, <<>>, g)
    BY <1>1, RecursionExists
  <1>4. ASSUME NEW i \in 0..n
        PROVE  f[i] = IF i = 0 THEN <<>> ELSE IF i \in set THEN Append(f[i - 1], i) ELSE f[i - 1]
    <2>1. CASE i = 0
      BY <1>3, <2>1 DEF Recurs
    <2>2. CASE i # 0
      <3>1. i \in 1..n /\ i - 1 \in 0..n
        BY <2>2
      <3>2. f[i - 1] \in V /\ f[i] = g[<<i, f[i - 1]>>]
        BY <1>3, <3>1 DEF Recurs
      <3> QED BY <1>2, <2>2, <3>1, <3>2
    <2> QED BY <2>1, <2>2
  <1>5. Picks(f, n, set)
    BY <1>3, <1>4 DEF Picks
  <1> QED BY <1>5

(* So InOrder is the last of some.                                          *)
LEMMA InOrderPicks ==
    ASSUME NEW s, Len(s) \in Nat, NEW set
    PROVE  \E f : /\ InOrder(s, set) = f[Len(s)] /\ f[0] = <<>>
                  /\ \A i \in 1..Len(s) : f[i] = IF i \in set THEN Append(f[i - 1], i) ELSE f[i - 1]
  <1> DEFINE f == CHOOSE f : Picks(f, Len(s), set)
  <1>1. Picks(f, Len(s), set)
    BY PicksExist
  <1>2. InOrder(s, set) = f[Len(s)]
    BY InOrderIsPick
  <1> HIDE DEF f
  <1>3. f[0] = <<>> /\ \A i \in 1..Len(s) : f[i] = IF i \in set THEN Append(f[i - 1], i) ELSE f[i - 1]
    <2>1. \A i \in 0..Len(s) :
             f[i] = IF i = 0 THEN <<>> ELSE IF i \in set THEN Append(f[i - 1], i) ELSE f[i - 1]
      BY <1>1 DEF Picks
    <2> QED BY <2>1
  <1> QED BY <1>2, <1>3

(* The members of the set T of numbers, in order.                           *)
Enumerates(k, T) ==
    /\ k \in Seq(T)
    /\ \A a, b \in 1..Len(k) : a < b => k[a] < k[b]
    /\ \A t \in T : \E a \in 1..Len(k) : k[a] = t

(* One more, larger than all of them.                                       *)
LEMMA EnumeratesMore ==
    ASSUME NEW T, T \subseteq Nat, NEW k, Enumerates(k, T), NEW m \in Nat, \A t \in T : t < m
    PROVE  Enumerates(Append(k, m), T \cup {m})
  <1> DEFINE l == Append(k, m)
  <1>1. k \in Seq(T \cup {m}) /\ Len(k) \in Nat /\ \A a \in 1..Len(k) : k[a] \in T
    BY SeqMonotonic DEF Enumerates
  <1>2. /\ l \in Seq(T \cup {m}) /\ Len(l) = Len(k) + 1 /\ l[Len(k) + 1] = m
        /\ \A a \in 1..Len(k) : l[a] = k[a]
    BY <1>1, AppendProperties
  <1> HIDE DEF l
  <1>3. ASSUME NEW a \in 1..Len(l), NEW b \in 1..Len(l), a < b PROVE l[a] < l[b]
    <2>1. a \in 1..Len(k) /\ l[a] = k[a] /\ k[a] \in T
      BY <1>1, <1>2, <1>3
    <2>2. CASE b = Len(k) + 1
      BY <1>2, <2>1, <2>2
    <2>3. CASE b # Len(k) + 1
      BY <1>1, <1>2, <1>3, <2>1, <2>3 DEF Enumerates
    <2> QED BY <2>2, <2>3
  <1>4. ASSUME NEW t \in T \cup {m} PROVE \E a \in 1..Len(l) : l[a] = t
    <2>1. CASE t = m
      BY <1>1, <1>2, <2>1
    <2>2. CASE t \in T
      <3>1. PICK a \in 1..Len(k) : k[a] = t
        BY <2>2 DEF Enumerates
      <3>2. a \in 1..Len(l) /\ l[a] = t
        BY <1>1, <1>2, <3>1
      <3> QED BY <3>2
    <2> QED BY <2>1, <2>2
  <1> QED BY <1>2, <1>3, <1>4 DEF Enumerates, l

(* InOrder enumerates the positions that are in the set.                    *)
LEMMA InOrderEnumerates ==
    ASSUME NEW s, Len(s) \in Nat, NEW set
    PROVE  Enumerates(InOrder(s, set), set \cap 1..Len(s))
  <1> DEFINE n == Len(s)
  <1>1. PICK f : /\ InOrder(s, set) = f[n] /\ f[0] = <<>>
                 /\ \A i \in 1..n : f[i] = IF i \in set THEN Append(f[i - 1], i) ELSE f[i - 1]
    BY InOrderPicks
  <1> HIDE DEF n
  <1> DEFINE S == {i \in 0..n : Enumerates(f[i], set \cap 1..i)}
  <1>2. n \in Nat
    BY DEF n
  <1>3. 0 \in S
    <2>1. set \cap 1..0 = {} /\ Len(<<>>) = 0
      OBVIOUS
    <2>2. Enumerates(<<>>, {})
      BY EmptySeq, <2>1 DEF Enumerates
    <2> QED BY <1>1, <1>2, <2>1, <2>2
  <1>4. ASSUME NEW i \in 1..n, i - 1 \in S PROVE i \in S
    <2> DEFINE T == set \cap 1..(i - 1)
               U == set \cap 1..i
    <2>1. Enumerates(f[i - 1], T) /\ T \subseteq Nat /\ \A t \in T : t < i
      BY <1>4
    <2>2. i \in 0..n /\ i \in Nat /\ f[i] = IF i \in set THEN Append(f[i - 1], i) ELSE f[i - 1]
      BY <1>1, <1>2
    <2>3. U = IF i \in set THEN T \cup {i} ELSE T
      BY <1>2
    <2>4. Enumerates(f[i], U)
      <3> HIDE DEF T, U
      <3>1. CASE i \in set
        <4>1. Enumerates(Append(f[i - 1], i), T \cup {i})
          BY <2>1, <2>2, EnumeratesMore
        <4> QED BY <2>2, <2>3, <3>1, <4>1
      <3>2. CASE i \notin set
        BY <2>1, <2>2, <2>3, <3>2
      <3> QED BY <3>1, <3>2
    <2> QED BY <2>2, <2>4
  <1> HIDE DEF S
  <1>5. n \in S
    BY <1>2, <1>3, <1>4, UpTo
  <1> QED BY <1>1, <1>5 DEF S, n

(* What is at those positions.                                              *)
LEMMA SelectedFacts ==
    ASSUME NEW X, NEW s \in Seq(X), NEW set
    PROVE  /\ Selected(s, set) \in Seq(X) /\ DOMAIN Selected(s, set) = DOMAIN InOrder(s, set)
           /\ \A n \in DOMAIN Selected(s, set) :
                 /\ InOrder(s, set)[n] \in set \cap DOMAIN s
                 /\ Selected(s, set)[n] = s[InOrder(s, set)[n]]
           /\ \A i \in set \cap DOMAIN s : \E n \in DOMAIN Selected(s, set) : Selected(s, set)[n] = s[i]
  <1> DEFINE k == InOrder(s, set)
             r == Selected(s, set)
             T == set \cap 1..Len(s)
  <1>1. Enumerates(k, T) /\ DOMAIN s = 1..Len(s) /\ Len(s) \in Nat
    BY InOrderEnumerates
  <1>2. r = [n \in DOMAIN k |-> s[k[n]]]
    BY DEF Selected
  <1> HIDE DEF k, r
  <1>3. k \in Seq(T) /\ DOMAIN k = 1..Len(k) /\ Len(k) \in Nat /\ \A n \in 1..Len(k) : k[n] \in T
    BY <1>1 DEF Enumerates
  <1>4. r \in [1..Len(k) -> X]
    BY <1>1, <1>2, <1>3
  <1>5. r \in Seq(X)
    BY <1>3, <1>4, SeqDef
  <1>6. ASSUME NEW i \in T PROVE \E n \in DOMAIN r : r[n] = s[i]
    <2>1. PICK n \in 1..Len(k) : k[n] = i
      BY <1>1 DEF Enumerates
    <2> QED BY <1>2, <1>3, <2>1
  <1> QED BY <1>1, <1>2, <1>3, <1>5, <1>6 DEF k, r

----------------------------------------------------------------------------
(* Headers.  Bytes.                                                         *)
Texts == Seq(Symbols)

(* A name and a value.                                                      *)
Pairs == Texts \X Texts

(* What ByteRange may be.                                                   *)
Ranges == [start : Nat, end : Nat]

(* A field as the ranges of its name and its value.                         *)
FieldRanges == [name : Ranges, value : Ranges]

(* What Headers may be.                                                     *)
HeadersType == [bytes : Texts, fields : Seq(FieldRanges), valid : BOOLEAN]

(* A range of at most n bytes.                                              *)
Within(field, n) == field \in FieldRanges /\ field.name.end <= n /\ field.value.end <= n

(* Headers as every call leaves them: the ranges lie within the bytes, and  *)
(* the cache vouches for no invalid field.                                  *)
Intact(h) ==
    /\ h \in HeadersType
    /\ \A i \in DOMAIN h.fields : Within(h.fields[i], Len(h.bytes))
    /\ h.valid => Abstract!AllValid(iter(h))

(* A slice of bytes.                                                        *)
LEMMA SliceTyped ==
    ASSUME NEW b \in Texts, NEW r \in Ranges, r.end <= Len(b)
    PROVE  Slice(b, r) \in Texts
  <1>1. r.start + 1 \in Int /\ r.end \in Int /\ \A i \in (r.start + 1)..r.end : i \in 1..Len(b)
    BY DEF Ranges, Texts
  <1>2. \A i \in (r.start + 1)..r.end : b[i] \in Symbols
    BY <1>1 DEF Texts
  <1> QED BY <1>1, <1>2, SubSeqProperties DEF Slice, Texts

(* What is appended to the bytes does not show in a range that was there.   *)
LEMMA SliceKept ==
    ASSUME NEW b \in Texts, NEW t \in Texts, NEW r \in Ranges, r.end <= Len(b)
    PROVE  Slice(b \o t, r) = Slice(b, r)
  <1> DEFINE m == r.start + 1
             n == r.end
             c == b \o t
             x == SubSeq(c, m, n)
             y == SubSeq(b, m, n)
  <1>1. /\ m \in Int /\ n \in Int /\ Len(b) \in Nat /\ Len(t) \in Nat
        /\ \A i \in m..n : i \in 1..Len(b)
    BY DEF Ranges, Texts
  <1>2. \A i \in 1..Len(b) : b[i] \in Symbols /\ c[i] = b[i]
    BY <1>1, ConcatProperties DEF Texts
  <1> HIDE DEF m, n, c
  <1>3. /\ x \in Seq(Symbols) /\ y \in Seq(Symbols) /\ Len(x) = Len(y)
        /\ \A i \in 1..(n - m + 1) : x[i] = c[m + i - 1] /\ y[i] = b[m + i - 1]
        /\ Len(x) = IF m <= n THEN n - m + 1 ELSE 0
    BY <1>1, <1>2, SubSeqProperties
  <1> HIDE DEF x, y
  <1>4. ASSUME NEW i \in 1..Len(x) PROVE x[i] = y[i]
    <2>1. i \in 1..(n - m + 1) /\ m + i - 1 \in m..n
      BY <1>1, <1>3
    <2> QED BY <1>1, <1>2, <1>3, <2>1
  <1>5. x = y
    BY <1>3, <1>4, SeqEqual
  <1> QED BY <1>5 DEF x, y, m, n, c, Slice

(* A slice is what the bytes hold there.                                    *)
LEMMA SliceAt ==
    ASSUME NEW c \in Texts, NEW k \in Nat, NEW t \in Texts, k + Len(t) <= Len(c),
           \A i \in 1..Len(t) : c[k + i] = t[i]
    PROVE  Slice(c, ByteRange(k, Len(t))) = t
  <1> DEFINE n == k + Len(t)
             x == SubSeq(c, k + 1, n)
  <1>1. Len(t) \in Nat /\ Len(c) \in Nat /\ t \in Seq(Symbols) /\ \A i \in 1..Len(c) : c[i] \in Symbols
    BY LenProperties DEF Texts
  <1>2. Slice(c, ByteRange(k, Len(t))) = x
    BY DEF Slice, ByteRange
  <1>3. n \in Int /\ k + 1 \in Int /\ n - (k + 1) + 1 = Len(t) /\ \A i \in (k + 1)..n : i \in 1..Len(c)
    BY <1>1
  <1> HIDE DEF n
  <1>4. /\ x \in Seq(Symbols) /\ Len(x) = IF k + 1 <= n THEN n - (k + 1) + 1 ELSE 0
        /\ \A i \in 1..(n - (k + 1) + 1) : x[i] = c[(k + 1) + i - 1]
    <2>1. \A i \in (k + 1)..n : c[i] \in Symbols
      BY <1>1, <1>3
    <2> QED BY <1>3, <2>1, SubSeqProperties
  <1> HIDE DEF x
  <1>5. Len(x) = Len(t)
    BY <1>1, <1>4 DEF n
  <1>6. ASSUME NEW i \in 1..Len(t) PROVE x[i] = t[i]
    <2>1. (k + 1) + i - 1 = k + i
      BY <1>1
    <2> QED BY <1>3, <1>4, <2>1
  <1> QED BY <1>1, <1>2, <1>4, <1>5, <1>6, SeqEqual

(* What was appended is where the range says it is.                         *)
LEMMA SliceAppended ==
    ASSUME NEW b \in Texts, NEW t \in Texts
    PROVE  Slice(b \o t, ByteRange(Len(b), Len(t))) = t
  <1> DEFINE c == b \o t
  <1>1. /\ c \in Texts /\ Len(b) \in Nat /\ Len(t) \in Nat /\ Len(c) = Len(b) + Len(t)
        /\ \A i \in 1..(Len(b) + Len(t)) : c[i] = IF i <= Len(b) THEN b[i] ELSE t[i - Len(b)]
    BY ConcatProperties, LenProperties DEF Texts
  <1> HIDE DEF c
  <1>2. ASSUME NEW i \in 1..Len(t) PROVE c[Len(b) + i] = t[i]
    <2>1. /\ Len(b) + i \in 1..(Len(b) + Len(t)) /\ ~(Len(b) + i <= Len(b))
          /\ (Len(b) + i) - Len(b) = i
      BY <1>1
    <2> QED BY <1>1, <2>1
  <1>3. Len(b) + Len(t) <= Len(c)
    BY <1>1
  <1>4. Slice(c, ByteRange(Len(b), Len(t))) = t
    BY <1>1, <1>2, <1>3, SliceAt
  <1> QED BY <1>4 DEF c

(* The pairs of a section.                                                  *)
LEMMA IterTyped ==
    ASSUME NEW h \in HeadersType, \A i \in DOMAIN h.fields : Within(h.fields[i], Len(h.bytes))
    PROVE  /\ iter(h) \in Seq(Pairs) /\ Len(iter(h)) = Len(h.fields)
           /\ DOMAIN iter(h) = DOMAIN h.fields
           /\ \A i \in DOMAIN h.fields :
                 iter(h)[i] = <<Slice(h.bytes, h.fields[i].name), Slice(h.bytes, h.fields[i].value)>>
  <1> DEFINE n == Len(h.fields)
  <1>1. DOMAIN h.fields = 1..n /\ n \in Nat /\ h.bytes \in Texts
    BY DEF HeadersType
  <1>2. \A i \in 1..n :
           /\ Slice(h.bytes, h.fields[i].name) \in Texts
           /\ Slice(h.bytes, h.fields[i].value) \in Texts
    BY <1>1, SliceTyped DEF Within, FieldRanges
  <1>3. iter(h) = [i \in 1..n |-> <<Slice(h.bytes, h.fields[i].name), Slice(h.bytes, h.fields[i].value)>>]
    BY <1>1 DEF iter
  <1> HIDE DEF n
  <1>4. iter(h) \in [1..n -> Pairs]
    BY <1>2, <1>3 DEF Pairs
  <1>5. iter(h) \in Seq(Pairs) /\ Len(iter(h)) = n
    BY <1>1, <1>4, IsASeq
  <1> QED BY <1>1, <1>3, <1>5 DEF n

(* push: one more pair, the last.                                           *)
LEMMA PushAppends ==
    ASSUME NEW h, Intact(h), NEW name \in Texts, NEW value \in Texts, NEW d, d = push(h, name, value)
    PROVE  Intact(d) /\ iter(d) = Append(iter(h), <<name, value>>)
  <1> DEFINE b == h.bytes
             named == b \o name
             bytes == named \o value
             new_field == [name |-> ByteRange(Len(b), Len(name)),
                           value |-> ByteRange(Len(named), Len(value))]
             n == Len(h.fields)
             valid == h.valid /\ Abstract!valid_name(name) /\ Abstract!valid_value(value)
  <1>1. /\ h \in HeadersType /\ b \in Texts /\ h.fields \in Seq(FieldRanges) /\ h.valid \in BOOLEAN
        /\ \A i \in DOMAIN h.fields : Within(h.fields[i], Len(b))
    BY DEF Intact, HeadersType
  <1>2. /\ d.bytes = bytes /\ d.fields = Append(h.fields, new_field) /\ d.valid = valid
        /\ d = [bytes |-> bytes, fields |-> Append(h.fields, new_field), valid |-> valid]
    BY DEF push
  <1>3. /\ named \in Texts /\ bytes \in Texts /\ Len(named) = Len(b) + Len(name)
        /\ Len(bytes) = Len(named) + Len(value) /\ Len(b) \in Nat /\ Len(name) \in Nat
        /\ Len(value) \in Nat
    BY <1>1, ConcatProperties, LenProperties DEF Texts
  <1>4. valid \in BOOLEAN
    BY <1>1
  <1> HIDE DEF valid
  <1>5. /\ new_field \in FieldRanges /\ Within(new_field, Len(bytes))
        /\ new_field.name.end <= Len(named)
    <2> HIDE DEF b, named, bytes
    <2> QED BY <1>3 DEF FieldRanges, Ranges, ByteRange, Within
  <1>6. Slice(bytes, new_field.name) = name /\ Slice(bytes, new_field.value) = value
    <2>1. Slice(named, ByteRange(Len(b), Len(name))) = name
      BY <1>1, SliceAppended
    <2>2. Slice(bytes, ByteRange(Len(named), Len(value))) = value
      BY <1>3, SliceAppended
    <2>3. Slice(bytes, new_field.name) = Slice(named, new_field.name)
      <3>1. new_field.name \in Ranges
        BY <1>5 DEF FieldRanges
      <3> HIDE DEF new_field, named
      <3> QED BY <1>3, <1>5, <3>1, SliceKept
    <2> QED BY <2>1, <2>2, <2>3
  <1> HIDE DEF new_field
  <1>7. /\ d.fields \in Seq(FieldRanges) /\ Len(d.fields) = n + 1 /\ n \in Nat
        /\ d.fields[n + 1] = new_field /\ \A i \in 1..n : d.fields[i] = h.fields[i]
        /\ DOMAIN h.fields = 1..n /\ DOMAIN d.fields = 1..(n + 1)
    BY <1>1, <1>2, <1>5, AppendProperties
  <1>8. d \in HeadersType
    BY <1>2, <1>3, <1>4, <1>7 DEF HeadersType
  <1> HIDE DEF n
  <1>9. ASSUME NEW i \in 1..n
        PROVE  /\ Within(d.fields[i], Len(bytes))
               /\ Slice(bytes, d.fields[i].name) = Slice(b, h.fields[i].name)
               /\ Slice(bytes, d.fields[i].value) = Slice(b, h.fields[i].value)
    <2> DEFINE field == h.fields[i]
    <2>1. d.fields[i] = field /\ Within(field, Len(b))
      BY <1>1, <1>7, <1>9
    <2>2. /\ field.name \in Ranges /\ field.name.end <= Len(b)
          /\ field.value \in Ranges /\ field.value.end <= Len(b)
      BY <2>1 DEF Within, FieldRanges
    <2> HIDE DEF field, b, named, bytes
    <2>3. Within(field, Len(bytes))
      BY <1>3, <2>1, <2>2 DEF Within, Ranges
    <2>4. ASSUME NEW r \in Ranges, r.end <= Len(b) PROVE Slice(bytes, r) = Slice(b, r)
      <3>1. Slice(named, r) = Slice(b, r)
        BY <1>1, <2>4, SliceKept DEF named
      <3>2. r.end <= Len(named)
        BY <1>3, <2>4 DEF Ranges
      <3>3. Slice(bytes, r) = Slice(named, r)
        BY <1>3, <3>2, SliceKept DEF bytes
      <3> QED BY <3>1, <3>3
    <2> QED BY <2>1, <2>2, <2>3, <2>4 DEF field
  <1>10. \A i \in DOMAIN d.fields : Within(d.fields[i], Len(d.bytes))
    <2>1. \A i \in 1..(n + 1) : i \in 1..n \/ i = n + 1
      BY <1>7
    <2> HIDE DEF bytes
    <2> QED BY <1>2, <1>5, <1>7, <1>9, <2>1
  <1>11. /\ iter(d) \in Seq(Pairs) /\ Len(iter(d)) = n + 1
         /\ \A i \in 1..(n + 1) :
               iter(d)[i] = <<Slice(bytes, d.fields[i].name), Slice(bytes, d.fields[i].value)>>
    BY <1>2, <1>7, <1>8, <1>10, IterTyped
  <1>12. /\ iter(h) \in Seq(Pairs) /\ Len(iter(h)) = n
         /\ \A i \in 1..n : iter(h)[i] = <<Slice(b, h.fields[i].name), Slice(b, h.fields[i].value)>>
    BY <1>1, <1>7, IterTyped DEF n
  <1> DEFINE l == Append(iter(h), <<name, value>>)
  <1>13. /\ l \in Seq(Pairs) /\ Len(l) = n + 1 /\ l[n + 1] = <<name, value>>
         /\ \A i \in 1..n : l[i] = iter(h)[i]
    <2>1. <<name, value>> \in Pairs
      BY DEF Pairs
    <2> QED BY <1>12, <2>1, AppendProperties
  <1> HIDE DEF l, bytes, b
  <1>14. ASSUME NEW i \in 1..(n + 1) PROVE iter(d)[i] = l[i]
    <2>1. CASE i = n + 1
      BY <1>6, <1>7, <1>11, <1>13, <2>1
    <2>2. CASE i # n + 1
      <3>1. i \in 1..n
        BY <1>7, <2>2
      <3> QED BY <1>9, <1>11, <1>12, <1>13, <3>1
    <2> QED BY <2>1, <2>2
  <1>15. iter(d) = l
    BY <1>11, <1>13, <1>14, SeqEqual
  <1>16. d.valid => Abstract!AllValid(iter(d))
    <2> SUFFICES ASSUME d.valid PROVE Abstract!AllValid(l)
      BY <1>15
    <2>1. h.valid /\ Abstract!valid_name(name) /\ Abstract!valid_value(value)
      BY <1>2 DEF valid
    <2>2. \A i \in 1..n : Abstract!valid_name(iter(h)[i][1]) /\ Abstract!valid_value(iter(h)[i][2])
      <3>1. Abstract!AllValid(iter(h)) /\ DOMAIN iter(h) = 1..n
        BY <1>12, <2>1 DEF Intact
      <3> QED BY <3>1 DEF Abstract!AllValid
    <2>3. ASSUME NEW i \in 1..(n + 1)
          PROVE  Abstract!valid_name(l[i][1]) /\ Abstract!valid_value(l[i][2])
      <3>1. CASE i = n + 1
        BY <1>13, <2>1, <3>1
      <3>2. CASE i # n + 1
        <4>1. i \in 1..n
          BY <1>7, <3>2
        <4> QED BY <1>13, <2>2, <4>1
      <3> QED BY <3>1, <3>2
    <2>4. DOMAIN l = 1..(n + 1)
      BY <1>13
    <2> QED BY <2>3, <2>4 DEF Abstract!AllValid
  <1> QED BY <1>8, <1>10, <1>15, <1>16 DEF Intact, l

(* Lists of the same length have the same positions.                        *)
LEMMA InOrderByLength ==
    ASSUME NEW s, NEW t, Len(s) = Len(t), NEW set
    PROVE  InOrder(s, set) = InOrder(t, set)
  BY InOrderIsPick

(* retain: the pairs that are kept, in their order.                         *)
LEMMA RetainSelects ==
    ASSUME NEW h, Intact(h), NEW keep, NEW d, d = retain(h, keep)
    PROVE  /\ Intact(d) /\ d.valid = h.valid
           /\ iter(d) = Selected(iter(h), {i \in DOMAIN iter(h) : iter(h)[i] \in keep})
  <1> DEFINE set == {i \in DOMAIN h.fields : iter(h)[i] \in keep}
             kept == InOrder(h.fields, set)
             n == Len(kept)
  <1>1. /\ h \in HeadersType /\ h.bytes \in Texts /\ h.fields \in Seq(FieldRanges) /\ h.valid \in BOOLEAN
        /\ \A i \in DOMAIN h.fields : Within(h.fields[i], Len(h.bytes))
    BY DEF Intact, HeadersType
  <1>2. /\ iter(h) \in Seq(Pairs) /\ Len(iter(h)) = Len(h.fields) /\ DOMAIN iter(h) = DOMAIN h.fields
        /\ \A i \in DOMAIN h.fields :
              iter(h)[i] = <<Slice(h.bytes, h.fields[i].name), Slice(h.bytes, h.fields[i].value)>>
    BY <1>1, IterTyped
  <1>3. d = [h EXCEPT !.fields = Selected(h.fields, set)]
    BY DEF retain
  <1>4. d.bytes = h.bytes /\ d.valid = h.valid /\ d.fields = Selected(h.fields, set)
    BY <1>1, <1>3 DEF HeadersType
  <1> HIDE DEF set
  <1>5. /\ d.fields \in Seq(FieldRanges) /\ DOMAIN d.fields = DOMAIN kept
        /\ \A i \in DOMAIN d.fields : kept[i] \in DOMAIN h.fields /\ d.fields[i] = h.fields[kept[i]]
    BY <1>1, <1>4, SelectedFacts
  <1>6. InOrder(iter(h), set) = kept
    BY <1>2, InOrderByLength
  <1> DEFINE l == Selected(iter(h), set)
  <1>7. DOMAIN l = DOMAIN kept /\ \A i \in DOMAIN l : l[i] = iter(h)[kept[i]]
    BY <1>2, <1>6, SelectedFacts
  <1>8. l \in Seq(Pairs)
    BY <1>2, SelectedFacts
  <1> HIDE DEF kept, l
  <1>9. d \in HeadersType /\ \A i \in DOMAIN d.fields : Within(d.fields[i], Len(d.bytes))
    <2>1. d \in HeadersType
      BY <1>1, <1>3, <1>4, <1>5 DEF HeadersType
    <2> QED BY <1>1, <1>4, <1>5, <2>1
  <1>10. /\ iter(d) \in Seq(Pairs) /\ DOMAIN iter(d) = DOMAIN d.fields
         /\ \A i \in DOMAIN d.fields :
              iter(d)[i] = <<Slice(d.bytes, d.fields[i].name), Slice(d.bytes, d.fields[i].value)>>
    BY <1>9, IterTyped
  <1>11. ASSUME NEW i \in DOMAIN l PROVE iter(d)[i] = l[i]
    <2>1. i \in DOMAIN d.fields /\ kept[i] \in DOMAIN h.fields /\ d.fields[i] = h.fields[kept[i]]
      BY <1>5, <1>7
    <2>2. iter(h)[kept[i]]
            = <<Slice(h.bytes, h.fields[kept[i]].name), Slice(h.bytes, h.fields[kept[i]].value)>>
      BY <1>2, <2>1
    <2>3. iter(d)[i] = <<Slice(d.bytes, d.fields[i].name), Slice(d.bytes, d.fields[i].value)>>
      BY <1>10, <2>1
    <2>4. l[i] = iter(h)[kept[i]]
      BY <1>7
    <2> QED BY <1>4, <2>1, <2>2, <2>3, <2>4
  <1>12. iter(d) = l
    <2>1. DOMAIN iter(d) = DOMAIN l
      BY <1>5, <1>7, <1>10
    <2>2. Len(iter(d)) = Len(l)
      BY <1>8, <1>10, <2>1
    <2> QED BY <1>8, <1>10, <1>11, <2>1, <2>2, SeqEqual
  <1>13. d.valid => Abstract!AllValid(iter(d))
    <2> SUFFICES ASSUME h.valid PROVE Abstract!AllValid(l)
      BY <1>4, <1>12
    <2>1. Abstract!AllValid(iter(h))
      BY DEF Intact
    <2> QED BY <1>2, <1>5, <1>7, <2>1 DEF Abstract!AllValid
  <1>14. set = {i \in DOMAIN iter(h) : iter(h)[i] \in keep}
    BY <1>2 DEF set
  <1> QED BY <1>4, <1>9, <1>12, <1>13, <1>14 DEF Intact, l

----------------------------------------------------------------------------
(* A received section.  Its bytes up to each field.                         *)
Writes(f, sec) ==
    f = [i \in 0..Len(sec) |-> IF i = 0 THEN <<"name", "ctl">> ELSE f[i - 1] \o Line(sec[i])]

(* SectionBytes are they.                                                   *)
LEMMA SectionBytesWrite ==
    ASSUME NEW sec
    PROVE  SectionBytes(sec) = CHOOSE f : Writes(f, sec)
  BY Zenon DEF SectionBytes, Writes

(* A field's line, and where the value is in it.                            *)
LEMMA LineTyped ==
    ASSUME NEW field \in Pairs
    PROVE  /\ Line(field) \in Texts /\ field[1] \in Texts /\ field[2] \in Texts
           /\ Len(field[1]) \in Nat /\ Len(field[2]) \in Nat
           /\ Len(Line(field)) = Len(field[1]) + 2 + Len(field[2]) + 1
           /\ \A i \in 1..Len(field[1]) : Line(field)[i] = field[1][i]
           /\ \A i \in 1..Len(field[2]) : Line(field)[Len(field[1]) + 2 + i] = field[2][i]
  <1> DEFINE n == field[1]
             v == field[2]
             a == n \o <<"=", "ows">>
             b == a \o v
             c == b \o <<"ctl">>
  <1>1. n \in Seq(Symbols) /\ v \in Seq(Symbols) /\ Len(n) \in Nat /\ Len(v) \in Nat
    BY LenProperties DEF Pairs, Texts
  <1>2. /\ <<"=", "ows">> \in Seq(Symbols) /\ <<"ctl">> \in Seq(Symbols)
        /\ Len(<<"=", "ows">>) = 2 /\ Len(<<"ctl">>) = 1
    BY DEF Symbols
  <1> HIDE DEF n, v
  <1>3. /\ a \in Seq(Symbols) /\ Len(a) = Len(n) + 2
        /\ \A i \in 1..(Len(n) + 2) : a[i] = IF i <= Len(n) THEN n[i] ELSE <<"=", "ows">>[i - Len(n)]
    BY <1>1, <1>2, ConcatProperties
  <1> HIDE DEF a
  <1>4. /\ b \in Seq(Symbols) /\ Len(b) = Len(a) + Len(v)
        /\ \A i \in 1..(Len(a) + Len(v)) : b[i] = IF i <= Len(a) THEN a[i] ELSE v[i - Len(a)]
    <2>1. a \in Seq(Symbols) /\ v \in Seq(Symbols)
      BY <1>1, <1>3
    <2> QED BY <2>1, ConcatProperties
  <1> HIDE DEF b
  <1>5. /\ c \in Seq(Symbols) /\ Len(c) = Len(b) + 1
        /\ \A i \in 1..(Len(b) + 1) : c[i] = IF i <= Len(b) THEN b[i] ELSE <<"ctl">>[i - Len(b)]
    BY <1>2, <1>4, ConcatProperties
  <1> HIDE DEF c
  <1>6. ASSUME NEW i \in 1..Len(n) PROVE c[i] = n[i]
    <2>1. /\ i \in 1..(Len(n) + 2) /\ i \in 1..(Len(a) + Len(v)) /\ i \in 1..(Len(b) + 1)
          /\ i <= Len(n) /\ i <= Len(a) /\ i <= Len(b)
      BY <1>1, <1>3, <1>4, <1>5
    <2> QED BY <1>3, <1>4, <1>5, <2>1
  <1>7. ASSUME NEW i \in 1..Len(v) PROVE c[Len(n) + 2 + i] = v[i]
    <2> DEFINE j == Len(n) + 2 + i
    <2>1. /\ j \in 1..(Len(a) + Len(v)) /\ j \in 1..(Len(b) + 1) /\ j - Len(a) = i
          /\ ~(j <= Len(a)) /\ j <= Len(b)
      BY <1>1, <1>3, <1>4, <1>5
    <2> HIDE DEF j
    <2>2. c[j] = v[i]
      BY <1>4, <1>5, <2>1
    <2> QED BY <2>2 DEF j
  <1>8. Line(field) = c
    BY DEF Line, c, b, a, n, v
  <1> QED BY <1>1, <1>3, <1>4, <1>5, <1>6, <1>7, <1>8 DEF Texts, n, v

(* The bytes up to the first field, and up to each of the others.           *)
LEMMA SectionBytesFacts ==
    ASSUME NEW sec \in Seq(Pairs)
    PROVE  /\ \A i \in 0..Len(sec) : SectionBytes(sec)[i] \in Texts
           /\ SectionBytes(sec)[0] = <<"name", "ctl">>
           /\ \A i \in 1..Len(sec) : SectionBytes(sec)[i] = SectionBytes(sec)[i - 1] \o Line(sec[i])
  <1> DEFINE n == Len(sec)
             start == <<"name", "ctl">>
             g == [p \in (1..n) \X Texts |-> p[2] \o Line(sec[p[1]])]
             bytes == SectionBytes(sec)
  <1>1. n \in Nat /\ \A i \in 1..n : sec[i] \in Pairs
    OBVIOUS
  <1>2. start \in Texts
    BY DEF Texts, Symbols, TokenBytes
  <1>3. \A i \in 1..n : Line(sec[i]) \in Texts
    BY <1>1, LineTyped
  <1> HIDE DEF n, start
  <1>4. g \in [(1..n) \X Texts -> Texts]
    BY <1>3, ConcatProperties DEF Texts
  <1>5. \A i \in 1..n, x \in Texts : g[<<i, x>>] = x \o Line(sec[i])
    OBVIOUS
  <1> HIDE DEF g
  <1>6. PICK f \in [0..n -> Texts] : Recurs(f, n, start, g)
    BY <1>1, <1>2, <1>4, RecursionExists
  <1>7. ASSUME NEW i \in 0..n
        PROVE  f[i] = IF i = 0 THEN start ELSE f[i - 1] \o Line(sec[i])
    <2>1. CASE i = 0
      BY <1>6, <2>1 DEF Recurs
    <2>2. CASE i # 0
      <3>1. i \in 1..n /\ i - 1 \in 0..n
        BY <1>1, <2>2
      <3>2. f[i - 1] \in Texts /\ f[i] = g[<<i, f[i - 1]>>]
        BY <1>6, <3>1 DEF Recurs
      <3> QED BY <1>5, <2>2, <3>1, <3>2
    <2> QED BY <2>1, <2>2
  <1>8. Writes(f, sec)
    <2>1. f = [i \in 0..n |-> IF i = 0 THEN start ELSE f[i - 1] \o Line(sec[i])]
      BY <1>6, <1>7
    <2> QED BY <2>1 DEF Writes, n, start
  <1>9. Writes(bytes, sec)
    BY <1>8, SectionBytesWrite
  <1> HIDE DEF bytes
  <1>10. \A i \in 0..n : bytes[i] = IF i = 0 THEN start ELSE bytes[i - 1] \o Line(sec[i])
    BY <1>9 DEF Writes, n, start
  <1>11. bytes[0] = start /\ \A i \in 1..n : bytes[i] = bytes[i - 1] \o Line(sec[i])
    <2>1. 0 \in 0..n /\ \A i \in 1..n : i \in 0..n /\ i # 0
      BY <1>1
    <2> QED BY <1>10, <2>1
  <1> DEFINE S == {i \in 0..n : bytes[i] \in Texts}
  <1>12. 0 \in S
    BY <1>1, <1>2, <1>11
  <1>13. ASSUME NEW i \in 1..n, i - 1 \in S PROVE i \in S
    <2>1. bytes[i - 1] \o Line(sec[i]) \in Texts
      BY <1>3, <1>13, ConcatProperties DEF Texts
    <2>2. i \in 0..n
      BY <1>1
    <2>3. bytes[i] = bytes[i - 1] \o Line(sec[i])
      BY <1>11, Zenon
    <2>4. bytes[i] \in Texts
      BY <2>1, <2>3, Zenon
    <2> QED BY <2>2, <2>4
  <1> HIDE DEF S
  <1>14. \A i \in 0..n : i \in S
    BY <1>1, <1>12, <1>13, UpTo
  <1> QED BY <1>11, <1>14 DEF S, n, bytes, start

(* They only grow, and what is written stays.                               *)
LEMMA SectionGrows ==
    ASSUME NEW sec \in Seq(Pairs), NEW i \in 0..Len(sec), NEW j \in i..Len(sec)
    PROVE  /\ Len(SectionBytes(sec)[i]) <= Len(SectionBytes(sec)[j])
           /\ \A r \in Ranges : r.end <= Len(SectionBytes(sec)[i])
                 => Slice(SectionBytes(sec)[j], r) = Slice(SectionBytes(sec)[i], r)
  <1> DEFINE n == Len(sec)
             f == SectionBytes(sec)
             Good(k) == /\ Len(f[i]) <= Len(f[k])
                        /\ \A r \in Ranges : r.end <= Len(f[i]) => Slice(f[k], r) = Slice(f[i], r)
             S == {k \in 0..n : k >= i => Good(k)}
  <1>1. n \in Nat /\ \A k \in 0..n : f[k] \in Texts /\ Len(f[k]) \in Nat
    BY SectionBytesFacts, LenProperties DEF Texts
  <1>2. \A k \in 1..n : f[k] = f[k - 1] \o Line(sec[k]) /\ sec[k] \in Pairs
    <2>1. \A k \in 1..n : sec[k] \in Pairs
      OBVIOUS
    <2>2. \A k \in 1..n : f[k] = f[k - 1] \o Line(sec[k])
      BY SectionBytesFacts
    <2> QED BY <2>1, <2>2
  <1>3. i \in 0..n /\ j \in 0..n /\ j >= i
    BY <1>1
  <1> HIDE DEF n, f
  <1>4. Good(i)
    BY <1>1, <1>3
  <1>5. 0 \in S
    <2>1. 0 >= i => i = 0
      BY <1>1, <1>3
    <2> HIDE DEF Good
    <2> QED BY <1>1, <1>4, <2>1
  <1>6. ASSUME NEW k \in 1..n, k - 1 \in S PROVE k \in S
    <2> SUFFICES ASSUME k >= i PROVE Good(k)
      BY <1>1
    <2>1. CASE k = i
      BY <1>4, <2>1
    <2>2. CASE k # i
      <3>1. k - 1 \in 0..n /\ k - 1 >= i /\ k \in 0..n
        BY <1>1, <1>3, <2>2
      <3>2. Good(k - 1)
        BY <1>6, <3>1
      <3> DEFINE b == f[k - 1]
                 t == Line(sec[k])
      <3>3. /\ b \in Texts /\ t \in Texts /\ f[k] = b \o t /\ Len(b) \in Nat
            /\ Len(f[k]) = Len(b) + Len(t) /\ Len(t) \in Nat
        <4>1. b \in Seq(Symbols) /\ t \in Seq(Symbols) /\ f[k] = b \o t
          BY <1>1, <1>2, <3>1, LineTyped DEF Texts
        <4> QED BY <4>1, ConcatProperties, LenProperties DEF Texts
      <3>4. Len(f[i]) <= Len(b) /\ \A r \in Ranges : r.end <= Len(f[i]) => Slice(b, r) = Slice(f[i], r)
        BY <3>2
      <3>5. Len(f[i]) \in Nat
        BY <1>1, <1>3
      <3> HIDE DEF b, t
      <3>6. ASSUME NEW r \in Ranges, r.end <= Len(f[i]) PROVE Slice(f[k], r) = Slice(f[i], r)
        <4>1. r.end <= Len(b)
          BY <3>3, <3>4, <3>5, <3>6 DEF Ranges
        <4> QED BY <3>3, <3>4, <3>6, <4>1, SliceKept
      <3>7. Len(f[i]) <= Len(f[k])
        BY <3>3, <3>4, <3>5
      <3> QED BY <3>6, <3>7
    <2> QED BY <2>1, <2>2
  <1> HIDE DEF S
  <1>7. j \in S
    BY <1>1, <1>3, <1>5, <1>6, UpTo
  <1> QED BY <1>3, <1>7 DEF S, f


(* The parser's ranges are those of the names and the values.               *)
LEMMA ParsedIsWritten ==
    ASSUME NEW sec \in Seq(Pairs), NEW i \in 1..Len(sec)
    PROVE  LET field == ParsedFields(sec)[i]
               bytes == SectionBytes(sec)[i]
           IN  /\ field \in FieldRanges
               /\ field.name.start = Len(SectionBytes(sec)[i - 1])
               /\ field.name.end <= field.value.end /\ field.name.start <= field.value.start
               /\ Len(SectionBytes(sec)[i - 1]) <= field.value.end
               /\ field.value.end <= Len(bytes)
               /\ field.name.start <= field.name.end /\ field.value.start <= field.value.end
               /\ Slice(bytes, field.name) = sec[i][1]
               /\ Slice(bytes, field.value) = sec[i][2]
  <1> DEFINE before == SectionBytes(sec)[i - 1]
             bytes == SectionBytes(sec)[i]
             line == Line(sec[i])
             name == sec[i][1]
             value == sec[i][2]
             at == Len(before)
             field == ParsedFields(sec)[i]
  <1>1. /\ line \in Texts /\ name \in Texts /\ value \in Texts
        /\ Len(name) \in Nat /\ Len(value) \in Nat
        /\ Len(line) = Len(name) + 2 + Len(value) + 1
        /\ \A j \in 1..Len(name) : line[j] = name[j]
        /\ \A j \in 1..Len(value) : line[Len(name) + 2 + j] = value[j]
    <2>1. sec[i] \in Pairs
      OBVIOUS
    <2> QED BY <2>1, LineTyped
  <1>2. before \in Texts /\ bytes = before \o line
    <2>1. i - 1 \in 0..Len(sec)
      OBVIOUS
    <2> QED BY <2>1, SectionBytesFacts
  <1>3. field = [name |-> ByteRange(at, Len(name)), value |-> ByteRange(at + Len(name) + 2, Len(value))]
    <2>1. DOMAIN sec = 1..Len(sec)
      OBVIOUS
    <2> QED BY <2>1, Zenon DEF ParsedFields
  <1> HIDE DEF before, bytes, line, name, value, field
  <1>4. /\ bytes \in Texts /\ at \in Nat /\ Len(bytes) = at + Len(line)
        /\ \A j \in 1..(at + Len(line)) : bytes[j] = IF j <= at THEN before[j] ELSE line[j - at]
    BY <1>1, <1>2, ConcatProperties, LenProperties DEF Texts
  <1>5. ASSUME NEW j \in 1..Len(line) PROVE bytes[at + j] = line[j]
    <2>1. at + j \in 1..(at + Len(line)) /\ ~(at + j <= at) /\ (at + j) - at = j
      BY <1>1, <1>4
    <2> QED BY <1>4, <2>1
  <1> HIDE DEF at
  <1>6. Slice(bytes, ByteRange(at, Len(name))) = name
    <2>1. at + Len(name) <= Len(bytes) /\ \A j \in 1..Len(name) : j \in 1..Len(line)
      BY <1>1, <1>4
    <2>2. \A j \in 1..Len(name) : bytes[at + j] = name[j]
      BY <1>1, <1>5, <2>1
    <2> QED BY <1>1, <1>4, <2>1, <2>2, SliceAt
  <1>7. Slice(bytes, ByteRange(at + Len(name) + 2, Len(value))) = value
    <2> DEFINE k == at + Len(name) + 2
    <2>1. k \in Nat /\ k + Len(value) <= Len(bytes)
      BY <1>1, <1>4
    <2>2. ASSUME NEW j \in 1..Len(value) PROVE bytes[k + j] = value[j]
      <3>1. Len(name) + 2 + j \in 1..Len(line) /\ at + (Len(name) + 2 + j) = k + j
        BY <1>1, <1>4
      <3>2. bytes[at + (Len(name) + 2 + j)] = line[Len(name) + 2 + j]
        BY <1>5, <3>1
      <3> QED BY <1>1, <3>1, <3>2
    <2> HIDE DEF k
    <2>3. Slice(bytes, ByteRange(k, Len(value))) = value
      BY <1>1, <1>4, <2>1, <2>2, SliceAt
    <2> QED BY <2>3 DEF k
  <1>8. /\ field \in FieldRanges /\ field.name.start = at
        /\ field.name.end <= field.value.end /\ field.name.start <= field.value.start
        /\ at <= field.value.end /\ field.value.end <= Len(bytes)
        /\ field.name.start <= field.name.end /\ field.value.start <= field.value.end
    BY <1>1, <1>3, <1>4 DEF FieldRanges, Ranges, ByteRange
  <1>9. field.name = ByteRange(at, Len(name)) /\ field.value = ByteRange(at + Len(name) + 2, Len(value))
    BY <1>3
  <1> QED BY <1>6, <1>7, <1>8, <1>9 DEF before, bytes, name, value, field, at

(* A range within a part of the bytes, relative to that part.               *)
LEMMA SliceOfPart ==
    ASSUME NEW c \in Texts, NEW m \in Nat, NEW n \in Nat, n <= Len(c),
           NEW r \in Ranges, m <= r.start, r.start <= r.end, r.end <= n
    PROVE  /\ Shift(r, m) \in Ranges /\ Shift(r, m).end <= Len(SubSeq(c, m + 1, n))
           /\ Slice(SubSeq(c, m + 1, n), Shift(r, m)) = Slice(c, r)
  <1> DEFINE part == SubSeq(c, m + 1, n)
             s == r.start
             e == r.end
             t == Slice(c, r)
  <1>1. s \in Nat /\ e \in Nat /\ m <= s /\ s <= e /\ e <= n /\ Len(c) \in Nat
    BY LenProperties DEF Ranges, Texts
  <1>2. t = SubSeq(c, s + 1, e)
    BY DEF Slice
  <1>3. Shift(r, m) = ByteRange(s - m, e - s)
    BY <1>1 DEF Shift, ByteRange
  <1>4. \A i \in 1..Len(c) : c[i] \in Symbols
    BY DEF Texts
  <1> HIDE DEF s, e
  <1>5. /\ t \in Seq(Symbols) /\ Len(t) = e - s
        /\ \A i \in 1..(e - s) : t[i] = c[s + i]
    <2>1. s + 1 \in Int /\ e \in Int /\ \A i \in (s + 1)..e : c[i] \in Symbols
      BY <1>1, <1>4
    <2>2. /\ t \in Seq(Symbols) /\ Len(t) = IF s + 1 <= e THEN e - (s + 1) + 1 ELSE 0
          /\ \A i \in 1..(e - (s + 1) + 1) : t[i] = c[(s + 1) + i - 1]
      <3> HIDE DEF t
      <3> QED BY <1>2, <2>1, SubSeqProperties
    <2> HIDE DEF t
    <2>3. e - (s + 1) + 1 = e - s
      BY <1>1
    <2>4. ASSUME NEW i \in 1..(e - s) PROVE t[i] = c[s + i]
      <3>1. (s + 1) + i - 1 = s + i
        BY <1>1
      <3> QED BY <2>2, <2>3, <3>1
    <2> QED BY <1>1, <2>2, <2>3, <2>4
  <1> HIDE DEF t
  <1>6. /\ part \in Seq(Symbols) /\ Len(part) = n - m
        /\ \A i \in 1..(n - m) : part[i] = c[m + i]
    <2>1. m + 1 \in Int /\ n \in Int /\ \A i \in (m + 1)..n : c[i] \in Symbols
      BY <1>1, <1>4
    <2>2. /\ part \in Seq(Symbols) /\ Len(part) = IF m + 1 <= n THEN n - (m + 1) + 1 ELSE 0
          /\ \A i \in 1..(n - (m + 1) + 1) : part[i] = c[(m + 1) + i - 1]
      BY <2>1, SubSeqProperties
    <2> HIDE DEF part
    <2>3. n - (m + 1) + 1 = n - m
      BY <1>1
    <2>4. ASSUME NEW i \in 1..(n - m) PROVE part[i] = c[m + i]
      <3>1. (m + 1) + i - 1 = m + i
        BY <1>1
      <3> QED BY <2>2, <2>3, <3>1
    <2> QED BY <1>1, <2>2, <2>3, <2>4
  <1> HIDE DEF part
  <1>7. \A i \in 1..Len(t) : part[(s - m) + i] = t[i]
    <2> SUFFICES ASSUME NEW i \in 1..Len(t) PROVE part[(s - m) + i] = t[i]
      OBVIOUS
    <2>1. (s - m) + i \in 1..(n - m) /\ m + ((s - m) + i) = s + i /\ i \in 1..(e - s)
      BY <1>1, <1>5
    <2> QED BY <1>5, <1>6, <2>1
  <1>8. s - m \in Nat /\ (s - m) + Len(t) <= Len(part)
    BY <1>1, <1>5, <1>6
  <1>9. Slice(part, ByteRange(s - m, e - s)) = t
    BY <1>5, <1>6, <1>7, <1>8, SliceAt DEF Texts
  <1>10. Shift(r, m) \in Ranges /\ Shift(r, m).end <= Len(part)
    BY <1>1, <1>3, <1>6 DEF ByteRange, Ranges
  <1> QED BY <1>3, <1>9, <1>10 DEF part, t

(* copy_section: the pairs that were received.                              *)
LEMMA ReceiveLists ==
    ASSUME NEW sec \in Seq(Pairs), NEW d,
           d = copy_section(SectionBytes(sec)[Len(sec)], ParsedFields(sec))
    PROVE  Intact(d) /\ ~d.valid /\ iter(d) = sec
  <1> DEFINE n == Len(sec)
             f == SectionBytes(sec)
             parsed == ParsedFields(sec)
             start == IF parsed = <<>> THEN 0 ELSE parsed[1].name.start
             end == IF parsed = <<>> THEN 0 ELSE parsed[Len(parsed)].value.end
             bytes == SubSeq(f[n], start + 1, end)
             fields == [i \in DOMAIN parsed |-> [name |-> Shift(parsed[i].name, start),
                                                 value |-> Shift(parsed[i].value, start)]]
  <1>1. n \in Nat /\ DOMAIN sec = 1..n /\ \A i \in 1..n : sec[i] \in Pairs
    OBVIOUS
  <1>2. \A i \in 0..n : f[i] \in Texts /\ Len(f[i]) \in Nat
    BY SectionBytesFacts, LenProperties DEF Texts
  <1>3. ASSUME NEW i \in 1..n
        PROVE  /\ parsed[i] \in FieldRanges /\ parsed[i].name.start = Len(f[i - 1])
               /\ parsed[i].name.end <= parsed[i].value.end
               /\ parsed[i].name.start <= parsed[i].value.start
               /\ parsed[i].value.end <= Len(f[i]) /\ Len(f[i - 1]) <= parsed[i].value.end
               /\ Slice(f[i], parsed[i].name) = sec[i][1]
               /\ Slice(f[i], parsed[i].value) = sec[i][2]
               /\ parsed[i].name.start <= parsed[i].name.end
               /\ parsed[i].value.start <= parsed[i].value.end
    BY ParsedIsWritten
  <1>4. ASSUME NEW i \in 0..n, NEW j \in i..n
        PROVE  /\ Len(f[i]) <= Len(f[j])
               /\ \A r \in Ranges : r.end <= Len(f[i]) => Slice(f[j], r) = Slice(f[i], r)
    BY SectionGrows
  <1>5. DOMAIN parsed = 1..n /\ parsed \in [1..n -> FieldRanges]
    <2>1. DOMAIN parsed = 1..n
      BY <1>1 DEF ParsedFields
    <2>2. parsed = [i \in 1..n |-> parsed[i]]
      BY <1>1 DEF ParsedFields
    <2> HIDE DEF parsed, n
    <2> QED BY <1>3, <2>1, <2>2
  <1>6. d = [bytes |-> bytes, fields |-> fields, valid |-> FALSE]
    BY Zenon DEF copy_section
  <1> HIDE DEF parsed, n, f
  <1>7. parsed \in Seq(FieldRanges) /\ Len(parsed) = n
    BY <1>1, <1>5, IsASeq
  <1>8. start \in Nat /\ end \in Nat /\ end <= Len(f[n])
    <2>1. CASE n = 0
      <3>1. parsed = <<>>
        BY <1>7, <2>1, EmptySeq
      <3> QED BY <1>1, <1>2, <3>1
    <2>2. CASE n # 0
      <3>1. 1 \in 1..n /\ n \in 1..n
        BY <1>1, <2>2
      <3>2. parsed # <<>>
        BY <1>7, <2>2, EmptySeq
      <3>3. start = parsed[1].name.start /\ end = parsed[n].value.end
        BY <1>7, <3>2
      <3> HIDE DEF start, end
      <3> QED BY <1>3, <3>1, <3>3 DEF FieldRanges, Ranges
    <2> QED BY <2>1, <2>2
  <1>9. ASSUME NEW i \in 1..n
        PROVE  /\ start <= parsed[i].name.start /\ start <= parsed[i].value.start
               /\ parsed[i].name.end <= end /\ parsed[i].value.end <= end
    <2>1. parsed # <<>> /\ n # 0
      BY <1>1, <1>7, EmptySeq
    <2>2. start = Len(f[0]) /\ end = parsed[n].value.end
      <3>1. 1 \in 1..n
        BY <1>1
      <3>2. start = parsed[1].name.start /\ end = parsed[n].value.end
        BY <1>7, <2>1
      <3>3. parsed[1].name.start = Len(f[1 - 1])
        BY <1>3, <3>1
      <3> QED BY <3>2, <3>3
    <2>3. 0 \in 0..n /\ i - 1 \in 0..n /\ i - 1 \in 0..n /\ n \in 1..n /\ n - 1 \in 0..n /\ i \in 0..n
      BY <1>1
    <2>4. Len(f[0]) <= Len(f[i - 1])
      BY <1>4, <2>3
    <2>5. parsed[i].value.end <= parsed[n].value.end
      <3>1. CASE i = n
        BY <1>3, <3>1 DEF FieldRanges, Ranges
      <3>2. CASE i # n
        <4>1. n - 1 \in i..n
          BY <1>1, <3>2
        <4>2. Len(f[i]) <= Len(f[n - 1])
          BY <1>4, <2>3, <4>1
        <4>3. parsed[i].value.end <= Len(f[i]) /\ parsed[i].value.end \in Nat
          BY <1>3 DEF FieldRanges, Ranges
        <4>4. Len(f[n - 1]) <= parsed[n].value.end /\ parsed[n].value.end \in Nat
          BY <1>3, <2>3 DEF FieldRanges, Ranges
        <4> QED BY <1>2, <2>3, <4>2, <4>3, <4>4
      <3> QED BY <3>1, <3>2
    <2>6. /\ parsed[i].name.start = Len(f[i - 1])
          /\ parsed[i].name.start <= parsed[i].value.start
          /\ parsed[i].name.end <= parsed[i].value.end
          /\ parsed[i].name.start \in Nat /\ parsed[i].value.start \in Nat
          /\ parsed[i].name.end \in Nat /\ parsed[i].value.end \in Nat
      BY <1>3 DEF FieldRanges, Ranges
    <2> HIDE DEF start, end
    <2>7. Len(f[0]) \in Nat /\ Len(f[i - 1]) \in Nat
      BY <1>2, <2>3
    <2> QED BY <1>8, <2>2, <2>4, <2>5, <2>6, <2>7
  <1> HIDE DEF start, end
  <1>10. f[n] \in Texts
    BY <1>1, <1>2
  <1>11. bytes \in Texts
    <2>1. \A i \in (start + 1)..end : i \in 1..Len(f[n])
      BY <1>2, <1>8
    <2>2. \A i \in (start + 1)..end : f[n][i] \in Symbols
      BY <1>10, <2>1 DEF Texts
    <2> QED BY <1>8, <2>2, SubSeqProperties DEF Texts
  <1>12. ASSUME NEW i \in 1..n
         PROVE  /\ Within(fields[i], Len(bytes))
                /\ Slice(bytes, fields[i].name) = sec[i][1]
                /\ Slice(bytes, fields[i].value) = sec[i][2]
    <2>1. fields[i].name = Shift(parsed[i].name, start) /\ fields[i].value = Shift(parsed[i].value, start)
          /\ fields[i] = [name |-> fields[i].name, value |-> fields[i].value]
      BY <1>5
    <2> HIDE DEF fields
    <2>2. parsed[i].name \in Ranges /\ parsed[i].value \in Ranges
      BY <1>3 DEF FieldRanges
    <2>3. ASSUME NEW r \in Ranges, start <= r.start, r.start <= r.end, r.end <= end
          PROVE  /\ Shift(r, start) \in Ranges /\ Shift(r, start).end <= Len(bytes)
                 /\ Slice(bytes, Shift(r, start)) = Slice(f[n], r)
      BY <1>8, <1>10, <2>3, SliceOfPart
    <2>4. /\ Shift(parsed[i].name, start) \in Ranges /\ Shift(parsed[i].name, start).end <= Len(bytes)
          /\ Slice(bytes, Shift(parsed[i].name, start)) = Slice(f[n], parsed[i].name)
      BY <1>3, <1>9, <2>2, <2>3
    <2>5. /\ Shift(parsed[i].value, start) \in Ranges /\ Shift(parsed[i].value, start).end <= Len(bytes)
          /\ Slice(bytes, Shift(parsed[i].value, start)) = Slice(f[n], parsed[i].value)
      BY <1>3, <1>9, <2>2, <2>3
    <2>6. i \in 0..n /\ n \in i..n
      BY <1>1
    <2>7. parsed[i].name.end <= Len(f[i]) /\ parsed[i].value.end <= Len(f[i])
      <3>1. parsed[i].name.end \in Nat /\ parsed[i].value.end \in Nat /\ Len(f[i]) \in Nat
        BY <1>2, <2>2, <2>6 DEF Ranges
      <3> QED BY <1>3, <3>1
    <2>8. /\ Slice(f[n], parsed[i].name) = Slice(f[i], parsed[i].name)
          /\ Slice(f[n], parsed[i].value) = Slice(f[i], parsed[i].value)
      BY <1>4, <2>2, <2>6, <2>7
    <2>9. Slice(f[i], parsed[i].name) = sec[i][1] /\ Slice(f[i], parsed[i].value) = sec[i][2]
      BY <1>3
    <2> HIDE DEF bytes
    <2>10. Within(fields[i], Len(bytes))
      BY <2>1, <2>4, <2>5 DEF Within, FieldRanges
    <2> QED BY <2>1, <2>4, <2>5, <2>8, <2>9, <2>10
  <1>13. d.bytes = bytes /\ d.fields = fields /\ d.valid = FALSE
    <2> HIDE DEF fields, bytes
    <2> QED BY <1>6
  <1>14. d.fields \in Seq(FieldRanges) /\ Len(d.fields) = n /\ DOMAIN d.fields = 1..n
    <2>1. DOMAIN fields = 1..n
      BY <1>5
    <2>2. fields = [i \in 1..n |-> fields[i]]
      BY <1>5
    <2> HIDE DEF fields, bytes
    <2>3. fields \in [1..n -> FieldRanges]
      BY <1>12, <2>2 DEF Within
    <2> QED BY <1>1, <1>13, <2>1, <2>3, IsASeq
  <1> HIDE DEF fields, bytes
  <1>15. d \in HeadersType
    BY <1>6, <1>11, <1>13, <1>14 DEF HeadersType
  <1>16. \A i \in DOMAIN d.fields : Within(d.fields[i], Len(d.bytes))
    BY <1>12, <1>13, <1>14
  <1>17. /\ iter(d) \in Seq(Pairs) /\ Len(iter(d)) = n
         /\ \A i \in 1..n : iter(d)[i] = <<Slice(bytes, fields[i].name), Slice(bytes, fields[i].value)>>
    BY <1>13, <1>14, <1>15, <1>16, IterTyped
  <1>18. ASSUME NEW i \in 1..n PROVE iter(d)[i] = sec[i]
    <2>1. sec[i] = <<sec[i][1], sec[i][2]>>
      BY <1>1 DEF Pairs
    <2> QED BY <1>12, <1>17, <2>1
  <1>19. iter(d) = sec
    BY <1>17, <1>18, SeqEqual DEF n
  <1> QED BY <1>13, <1>15, <1>16, <1>19 DEF Intact

----------------------------------------------------------------------------
(* The order of the fields of a request: all positions but one, in order.   *)
LEMMA InOrderAllBut ==
    ASSUME NEW s, Len(s) \in Nat, NEW k \in 1..Len(s), NEW set, set = 1..Len(s) \ {k}
    PROVE  /\ InOrder(s, set) \in Seq(Nat) /\ Len(InOrder(s, set)) = Len(s) - 1
           /\ \A a \in 1..(Len(s) - 1) : InOrder(s, set)[a] = IF a < k THEN a ELSE a + 1
  <1> DEFINE n == Len(s)
  <1>1. PICK f : /\ InOrder(s, set) = f[n] /\ f[0] = <<>>
                 /\ \A i \in 1..n : f[i] = IF i \in set THEN Append(f[i - 1], i) ELSE f[i - 1]
    BY InOrderPicks
  <1> DEFINE length(i) == IF i < k THEN i ELSE i - 1
             Good(i) == /\ f[i] \in Seq(Nat) /\ Len(f[i]) = length(i)
                        /\ \A a \in 1..length(i) : f[i][a] = IF a < k THEN a ELSE a + 1
             S == {i \in 0..n : Good(i)}
  <1>2. n \in Nat /\ k \in 1..n /\ set = 1..n \ {k}
    OBVIOUS
  <1> HIDE DEF n
  <1>3. 0 \in S
    <2>1. length(0) = 0 /\ 0 \in 0..n
      BY <1>2
    <2>2. Good(0)
      BY <1>1, <2>1, EmptySeq
    <2> QED BY <2>1, <2>2
  <1>4. ASSUME NEW i \in 1..n, i - 1 \in S PROVE i \in S
    <2>1. Good(i - 1) /\ i \in Nat /\ i \in 0..n
      BY <1>2, <1>4
    <2>2. CASE i = k
      <3>1. f[i] = f[i - 1] /\ length(i) = length(i - 1)
        BY <1>1, <1>2, <2>2
      <3> HIDE DEF length
      <3> QED BY <2>1, <3>1
    <2>3. CASE i # k
      <3> DEFINE b == f[i - 1]
                 m == length(i - 1)
      <3>1. i \in set
        BY <1>2, <2>3
      <3>2. f[i] = Append(b, i)
        BY <1>1, <3>1
      <3>3. b \in Seq(Nat) /\ Len(b) = m /\ \A a \in 1..m : b[a] = IF a < k THEN a ELSE a + 1
        BY <2>1
      <3>4. m \in Nat /\ length(i) = m + 1 /\ i = IF m + 1 < k THEN m + 1 ELSE (m + 1) + 1
        BY <1>2, <2>1, <2>3
      <3> HIDE DEF m, b, length
      <3>5. /\ f[i] \in Seq(Nat) /\ Len(f[i]) = m + 1 /\ f[i][m + 1] = i
            /\ \A a \in 1..m : f[i][a] = b[a]
        BY <2>1, <3>2, <3>3, AppendProperties
      <3>6. ASSUME NEW a \in 1..(m + 1) PROVE f[i][a] = IF a < k THEN a ELSE a + 1
        <4>1. CASE a = m + 1
          BY <3>4, <3>5, <4>1
        <4>2. CASE a # m + 1
          <5>1. a \in 1..m
            BY <3>4, <4>2
          <5> QED BY <3>3, <3>5, <5>1
        <4> QED BY <4>1, <4>2
      <3> QED BY <2>1, <3>4, <3>5, <3>6
    <2> QED BY <2>2, <2>3
  <1> HIDE DEF S
  <1>5. n \in S
    <2>1. n \in Nat /\ n \in 0..n
      BY <1>2
    <2>2. \A i \in 1..n : i - 1 \in S => i \in S
      BY <1>4
    <2> QED BY <1>3, <2>1, <2>2, UpTo
  <1>6. Good(n) /\ length(n) = n - 1
    BY <1>2, <1>5 DEF S
  <1> HIDE DEF length
  <1> QED BY <1>1, <1>6 DEF n

(* What is there.                                                           *)
LEMMA SelectedAllBut ==
    ASSUME NEW X, NEW s \in Seq(X), NEW k \in 1..Len(s)
    PROVE  Selected(s, DOMAIN s \ {k}) = SubSeq(s, 1, k - 1) \o SubSeq(s, k + 1, Len(s))
  <1> DEFINE n == Len(s)
             set == DOMAIN s \ {k}
             kept == InOrder(s, set)
             r == Selected(s, set)
             a == SubSeq(s, 1, k - 1)
             b == SubSeq(s, k + 1, n)
             c == a \o b
  <1>1. n \in Nat /\ k \in 1..n /\ set = 1..n \ {k} /\ \A i \in 1..n : s[i] \in X
    OBVIOUS
  <1>2. /\ kept \in Seq(Nat) /\ Len(kept) = n - 1
        /\ \A i \in 1..(n - 1) : kept[i] = IF i < k THEN i ELSE i + 1
    BY <1>1, InOrderAllBut
  <1>3. r \in Seq(X) /\ DOMAIN r = DOMAIN kept /\ \A i \in DOMAIN r : r[i] = s[kept[i]]
    <2> HIDE DEF set
    <2> QED BY SelectedFacts
  <1> HIDE DEF n, set, kept, r
  <1>4. Len(r) = n - 1 /\ \A i \in 1..(n - 1) : r[i] = s[IF i < k THEN i ELSE i + 1]
    <2>1. DOMAIN kept = 1..(n - 1) /\ DOMAIN r = 1..Len(r) /\ Len(r) \in Nat
      BY <1>2, <1>3
    <2>2. Len(r) = n - 1
      BY <1>1, <1>3, <2>1
    <2> QED BY <1>2, <1>3, <2>1, <2>2
  <1>5. /\ a \in Seq(X) /\ Len(a) = k - 1 /\ \A i \in 1..(k - 1) : a[i] = s[i]
    <2>1. k - 1 \in Int /\ \A i \in 1..(k - 1) : s[i] \in X
      BY <1>1
    <2>2. /\ a \in Seq(X) /\ Len(a) = IF 1 <= k - 1 THEN (k - 1) - 1 + 1 ELSE 0
          /\ \A i \in 1..((k - 1) - 1 + 1) : a[i] = s[1 + i - 1]
      BY <2>1, SubSeqProperties
    <2> HIDE DEF a
    <2> QED BY <1>1, <2>2
  <1>6. /\ b \in Seq(X) /\ Len(b) = n - k /\ \A i \in 1..(n - k) : b[i] = s[k + i]
    <2>1. k + 1 \in Int /\ n \in Int /\ \A i \in (k + 1)..n : s[i] \in X
      BY <1>1
    <2>2. /\ b \in Seq(X) /\ Len(b) = IF k + 1 <= n THEN n - (k + 1) + 1 ELSE 0
          /\ \A i \in 1..(n - (k + 1) + 1) : b[i] = s[(k + 1) + i - 1]
      BY <2>1, SubSeqProperties
    <2> HIDE DEF b
    <2>3. n - (k + 1) + 1 = n - k
      BY <1>1
    <2>4. ASSUME NEW i \in 1..(n - k) PROVE b[i] = s[k + i]
      <3>1. (k + 1) + i - 1 = k + i
        BY <1>1
      <3> QED BY <2>2, <2>3, <3>1
    <2> QED BY <1>1, <2>2, <2>3, <2>4
  <1> HIDE DEF a, b
  <1>7. /\ c \in Seq(X) /\ Len(c) = n - 1
        /\ \A i \in 1..(n - 1) : c[i] = IF i <= k - 1 THEN a[i] ELSE b[i - (k - 1)]
    <2>1. /\ c \in Seq(X) /\ Len(c) = Len(a) + Len(b)
          /\ \A i \in 1..(Len(a) + Len(b)) : c[i] = IF i <= Len(a) THEN a[i] ELSE b[i - Len(a)]
      BY <1>5, <1>6, ConcatProperties
    <2> HIDE DEF c
    <2>2. Len(a) + Len(b) = n - 1
      BY <1>1, <1>5, <1>6
    <2> QED BY <1>5, <2>1, <2>2
  <1> HIDE DEF c
  <1>8. ASSUME NEW i \in 1..(n - 1) PROVE r[i] = c[i]
    <2>1. CASE i < k
      <3>1. i \in 1..(k - 1) /\ i <= k - 1
        BY <1>1, <2>1
      <3> QED BY <1>4, <1>5, <1>7, <2>1, <3>1
    <2>2. CASE ~(i < k)
      <3>1. i - (k - 1) \in 1..(n - k) /\ k + (i - (k - 1)) = i + 1 /\ ~(i <= k - 1)
        BY <1>1, <2>2
      <3>2. b[i - (k - 1)] = s[i + 1]
        BY <1>6, <3>1
      <3> QED BY <1>4, <1>7, <2>2, <3>1, <3>2
    <2> QED BY <2>1, <2>2
  <1>9. r = c
    BY <1>3, <1>4, <1>7, <1>8, SeqEqual
  <1> QED BY <1>9 DEF r, c, a, b, set, n

(* serialize_request: the fields, Host first.                               *)
LEMMA HostIsFirst ==
    ASSUME NEW l \in Seq(Pairs)
    PROVE  Abstract!HostFirst(l, serialize_request(l, host_at(l)))
  <1> DEFINE hosts == {i \in DOMAIN l : l[i][1] = <<"host">>}
             found == InOrder(l, hosts)
             host == host_at(l)
             order == serialize_request(l, host)
             n == Len(l)
  <1>1. n \in Nat /\ DOMAIN l = 1..n /\ \A i \in 1..n : l[i] \in Pairs
    OBVIOUS
  <1>2. Enumerates(found, hosts \cap 1..n) /\ hosts \subseteq 1..n
    BY InOrderEnumerates
  <1>3. found \in Seq(hosts)
    <2>1. hosts \cap 1..n = hosts
      BY <1>2
    <2> HIDE DEF hosts, found
    <2> QED BY <1>2, <2>1 DEF Enumerates
  <1>4. host = IF found = <<>> THEN 0 ELSE found[Len(found)] - 1
    BY DEF host_at
  <1>5. order = (IF host + 1 \in DOMAIN l THEN <<l[host + 1]>> ELSE <<>>)
                   \o Selected(l, DOMAIN l \ {host + 1})
    BY DEF serialize_request
  <1>6. /\ hosts = {} /\ order = l => Abstract!HostFirst(l, order)
        /\ \A i \in hosts : order = <<l[i]>> \o SubSeq(l, 1, i - 1) \o SubSeq(l, i + 1, n)
                                => Abstract!HostFirst(l, order)
    BY Zenon DEF Abstract!HostFirst
  <1> HIDE DEF found, host, order, n
  <1>7. ASSUME NEW k \in 1..n, host + 1 = k
        PROVE  order = <<l[k]>> \o SubSeq(l, 1, k - 1) \o SubSeq(l, k + 1, n)
    <2> DEFINE x == <<l[k]>>
               y == SubSeq(l, 1, k - 1)
               z == SubSeq(l, k + 1, n)
    <2>1. Selected(l, DOMAIN l \ {k}) = y \o z
      BY <1>1, SelectedAllBut DEF n
    <2>2. order = x \o (y \o z)
      BY <1>1, <1>5, <1>7, <2>1
    <2>3. x \in Seq(Pairs)
      BY <1>1
    <2>4. y \in Seq(Pairs) /\ z \in Seq(Pairs)
      <3>1. k - 1 \in Int /\ k + 1 \in Int /\ n \in Int
        BY <1>1
      <3>2. (\A i \in 1..(k - 1) : l[i] \in Pairs) /\ \A i \in (k + 1)..n : l[i] \in Pairs
        BY <1>1
      <3> QED BY <3>1, <3>2, SubSeqProperties
    <2> HIDE DEF x, y, z
    <2>5. (x \o y) \o z = x \o (y \o z)
      BY <2>3, <2>4, ConcatAssociative
    <2> QED BY <2>2, <2>5 DEF x, y, z
  <1>8. CASE hosts = {}
    <2>1. found = <<>> /\ host = 0
      <3>1. found = <<>>
        <4>1. Len(found) \in Nat /\ \A i \in 1..Len(found) : found[i] \in hosts
          BY <1>3
        <4>2. Len(found) = 0
          BY <1>8, <4>1
        <4> QED BY <1>3, <4>2, EmptySeq
      <3> QED BY <1>4, <3>1
    <2>2. CASE n = 0
      <3>1. l = <<>> /\ DOMAIN l = {}
        BY <1>1, <2>2, EmptySeq DEF n
      <3>2. order = <<>> \o Selected(l, DOMAIN l \ {host + 1})
        BY <1>5, <3>1
      <3>3. Selected(l, DOMAIN l \ {host + 1}) = <<>>
        <4> DEFINE r == Selected(l, DOMAIN l \ {host + 1})
        <4>1. r \in Seq(Pairs)
          BY SelectedFacts
        <4>2. \A i \in DOMAIN r : InOrder(l, DOMAIN l \ {host + 1})[i] \in DOMAIN l
          BY SelectedFacts
        <4> HIDE DEF r
        <4>3. Len(r) \in Nat /\ DOMAIN r = 1..Len(r)
          BY <4>1
        <4>4. Len(r) = 0
          BY <3>1, <4>2, <4>3
        <4> QED BY <4>1, <4>4, EmptySeq DEF r
      <3>4. order = <<>>
        BY <3>2, <3>3, ConcatEmptySeq, EmptySeq
      <3> QED BY <1>6, <1>8, <3>1, <3>4, Zenon DEF order, host
    <2>3. CASE n # 0
      <3> DEFINE x == <<l[1]>>
                 z == SubSeq(l, 2, n)
      <3>1. 1 \in 1..n /\ host + 1 = 1
        BY <1>1, <2>1, <2>3
      <3>2. order = <<l[1]>> \o SubSeq(l, 1, 1 - 1) \o SubSeq(l, 1 + 1, n)
        BY <1>7, <3>1
      <3>3. SubSeq(l, 1, 0) = <<>>
        BY SubSeqEmpty
      <3>4. x \in Seq(Pairs) /\ Len(x) = 1 /\ x[1] = l[1]
        BY <1>1, <3>1
      <3>5. /\ z \in Seq(Pairs) /\ Len(z) = n - 1 /\ \A i \in 1..(n - 1) : z[i] = l[i + 1]
        <4>1. n \in Int /\ \A i \in 2..n : l[i] \in Pairs
          BY <1>1
        <4>2. /\ z \in Seq(Pairs) /\ Len(z) = IF 2 <= n THEN n - 2 + 1 ELSE 0
              /\ \A i \in 1..(n - 2 + 1) : z[i] = l[2 + i - 1]
          BY <4>1, SubSeqProperties
        <4> HIDE DEF z
        <4>3. n - 2 + 1 = n - 1
          BY <1>1
        <4>4. ASSUME NEW i \in 1..(n - 1) PROVE z[i] = l[i + 1]
          <5>1. 2 + i - 1 = i + 1
            OBVIOUS
          <5> QED BY <4>2, <4>3, <5>1
        <4> QED BY <1>1, <2>3, <4>2, <4>3, <4>4
      <3>6. x \o <<>> = x
        BY <3>4, ConcatEmptySeq
      <3>7. order = x \o z
        <4>1. 1 - 1 = 0 /\ 1 + 1 = 2
          OBVIOUS
        <4>2. order = x \o SubSeq(l, 1, 0) \o z
          BY <3>2, <4>1, Zenon
        <4> QED BY <3>3, <3>6, <4>2, Zenon
      <3> HIDE DEF x, z
      <3>8. /\ order \in Seq(Pairs) /\ Len(order) = Len(x) + Len(z)
            /\ \A i \in 1..(Len(x) + Len(z)) : order[i] = IF i <= Len(x) THEN x[i] ELSE z[i - Len(x)]
        <4>1. x \in Seq(Pairs) /\ z \in Seq(Pairs)
          BY <3>4, <3>5
        <4> QED BY <3>7, <4>1, ConcatProperties
      <3>9. ASSUME NEW i \in 1..n PROVE order[i] = l[i]
        <4>1. CASE i = 1
          <5>1. i \in 1..(Len(x) + Len(z)) /\ i <= Len(x)
            BY <1>1, <3>4, <3>5, <4>1
          <5> QED BY <3>4, <3>8, <4>1, <5>1
        <4>2. CASE i # 1
          <5>1. i \in 1..(Len(x) + Len(z)) /\ ~(i <= Len(x)) /\ i - Len(x) \in 1..(n - 1)
                /\ (i - Len(x)) + 1 = i
            BY <1>1, <3>4, <3>5, <4>2
          <5>2. order[i] = z[i - Len(x)]
            BY <3>8, <5>1
          <5>3. z[i - Len(x)] = l[(i - Len(x)) + 1]
            BY <3>5, <5>1
          <5> QED BY <5>1, <5>2, <5>3
        <4> QED BY <4>1, <4>2
      <3>10. Len(order) = n
        BY <1>1, <3>4, <3>5, <3>8
      <3>11. order = l
        BY <3>8, <3>9, <3>10, SeqEqual DEF n
      <3> QED BY <1>6, <1>8, <3>11, Zenon DEF order, host
    <2> QED BY <2>2, <2>3
  <1>9. CASE hosts # {}
    <2>1. found # <<>> /\ Len(found) \in 1..Len(found)
      <3>1. PICK i \in hosts : TRUE
        BY <1>9
      <3>2. i \in hosts \cap 1..n
        BY <1>2
      <3>3. \E a \in 1..Len(found) : found[a] = i
        <4> HIDE DEF hosts
        <4> QED BY <1>2, <3>2 DEF Enumerates
      <3>4. Len(found) \in Nat /\ Len(found) # 0
        BY <1>3, <3>3
      <3> QED BY <1>3, <3>4, EmptySeq
    <2> DEFINE k == found[Len(found)]
    <2>2. k \in hosts
      <3> HIDE DEF hosts
      <3> QED BY <1>3, <2>1
    <2>3. k \in 1..n /\ host = k - 1
      BY <1>2, <1>4, <2>1, <2>2
    <2> HIDE DEF k
    <2>4. host + 1 = k
      BY <2>3
    <2>5. order = <<l[k]>> \o SubSeq(l, 1, k - 1) \o SubSeq(l, k + 1, n)
      BY <1>7, <2>3, <2>4
    <2> QED BY <1>6, <2>2, <2>5, Zenon DEF order, host
  <1> QED BY <1>8, <1>9 DEF order, host

----------------------------------------------------------------------------
(* trim_ows.  What lies between a first and a last symbol that are not OWS. *)
LEMMA TrimIs ==
    ASSUME NEW s \in Texts, NEW first \in 1..Len(s), NEW last \in 1..Len(s),
           s[first] # "ows", s[last] # "ows",
           \A i \in 1..Len(s) : s[i] # "ows" => first <= i /\ i <= last
    PROVE  trim_ows(s) = SubSeq(s, first, last)
  <1> DEFINE T == {i \in DOMAIN s : s[i] # "ows"}
             k == InOrder(s, T)
  <1>1. Len(s) \in Nat /\ DOMAIN s = 1..Len(s)
    BY DEF Texts
  <1>2. T \cap 1..Len(s) = T /\ T \subseteq Nat /\ first \in T /\ last \in T
        /\ \A t \in T : first <= t /\ t <= last
    BY <1>1
  <1>3. Enumerates(k, T)
    <2>1. Enumerates(k, T \cap 1..Len(s))
      BY <1>1, InOrderEnumerates
    <2> QED BY <1>2, <2>1
  <1>4. trim_ows(s) = IF k = <<>> THEN <<>> ELSE SubSeq(s, k[1], k[Len(k)])
    BY DEF trim_ows
  <1> HIDE DEF T, k
  <1>5. Len(k) \in Nat /\ \A a \in 1..Len(k) : k[a] \in T
    BY <1>3 DEF Enumerates
  <1>6. PICK a \in 1..Len(k) : k[a] = first
    BY <1>2, <1>3 DEF Enumerates
  <1>7. PICK b \in 1..Len(k) : k[b] = last
    BY <1>2, <1>3 DEF Enumerates
  <1>8. k # <<>> /\ 1 \in 1..Len(k) /\ Len(k) \in 1..Len(k)
    BY <1>5, <1>6, EmptySeq DEF Enumerates
  <1>9. k[1] = first
    <2>1. 1 < a => k[1] < k[a]
      BY <1>3, <1>8 DEF Enumerates
    <2>2. k[1] \in T
      BY <1>5, <1>8
    <2> QED BY <1>2, <1>6, <2>1, <2>2
  <1>10. k[Len(k)] = last
    <2>1. b < Len(k) => k[b] < k[Len(k)]
      BY <1>3, <1>8 DEF Enumerates
    <2>2. k[Len(k)] \in T
      BY <1>5, <1>8
    <2> QED BY <1>2, <1>5, <1>7, <2>1, <2>2
  <1> QED BY <1>4, <1>8, <1>9, <1>10

(* Text that does not start or end with OWS.                                *)
Trimmed(s) == s # <<>> => s[1] # "ows" /\ s[Len(s)] # "ows"

(* What trim_ows returns: a part of the text, trimmed.                      *)
LEMMA TrimFacts ==
    ASSUME NEW s \in Texts
    PROVE  /\ trim_ows(s) \in Texts /\ Trimmed(trim_ows(s))
           /\ \A j \in DOMAIN trim_ows(s) : \E i \in DOMAIN s : trim_ows(s)[j] = s[i]
  <1> DEFINE T == {i \in DOMAIN s : s[i] # "ows"}
             k == InOrder(s, T)
             r == trim_ows(s)
  <1>1. Len(s) \in Nat /\ DOMAIN s = 1..Len(s) /\ \A i \in 1..Len(s) : s[i] \in Symbols
    BY DEF Texts
  <1>2. T \cap 1..Len(s) = T /\ T \subseteq 1..Len(s) /\ \A t \in T : s[t] # "ows"
    BY <1>1
  <1>3. Enumerates(k, T)
    <2>1. Enumerates(k, T \cap 1..Len(s))
      BY <1>1, InOrderEnumerates
    <2> QED BY <1>2, <2>1
  <1>4. r = IF k = <<>> THEN <<>> ELSE SubSeq(s, k[1], k[Len(k)])
    BY DEF trim_ows
  <1> HIDE DEF T, k, r
  <1>5. CASE k = <<>>
    <2>1. r = <<>> /\ DOMAIN <<>> = {}
      BY <1>4, <1>5
    <2>2. r \in Texts
      BY <2>1, EmptySeq DEF Texts
    <2> QED BY <2>1, <2>2 DEF Trimmed, r
  <1>6. CASE k # <<>>
    <2> DEFINE m == k[1]
               n == k[Len(k)]
    <2>1. k \in Seq(T)
      BY <1>3 DEF Enumerates
    <2>2. Len(k) \in Nat /\ Len(k) # 0
      BY <1>6, <2>1, EmptySeq
    <2>3. 1 \in 1..Len(k) /\ Len(k) \in 1..Len(k)
      BY <2>2
    <2>4. m \in T /\ n \in T
      BY <2>1, <2>3
    <2>5. 1 < Len(k) => m < n
      BY <1>3, <2>3 DEF Enumerates
    <2>6. m \in 1..Len(s) /\ n \in 1..Len(s) /\ s[m] # "ows" /\ s[n] # "ows"
      BY <1>2, <2>4
    <2>7. m <= n
      <3>1. CASE 1 < Len(k)
        BY <1>1, <2>5, <2>6, <3>1
      <3>2. CASE ~(1 < Len(k))
        <4>1. \A l \in Nat : l # 0 /\ ~(1 < l) => l = 1
          OBVIOUS
        <4>2. Len(k) = 1
          BY <2>2, <3>2, <4>1, Zenon
        <4>3. m = n
          BY <4>2
        <4> QED BY <2>6, <4>3
      <3> QED BY <3>1, <3>2
    <2>8. r = SubSeq(s, m, n)
      BY <1>4, <1>6
    <2> HIDE DEF m, n
    <2>9. /\ r \in Seq(Symbols) /\ Len(r) = n - m + 1 /\ \A i \in 1..(n - m + 1) : r[i] = s[m + i - 1]
      <3>1. m \in Int /\ n \in Int /\ \A i \in m..n : i \in 1..Len(s)
        BY <1>1, <2>6
      <3>2. \A i \in m..n : s[i] \in Symbols
        BY <1>1, <3>1
      <3> QED BY <2>7, <2>8, <3>1, <3>2, SubSeqProperties
    <2>10. r[1] = s[m] /\ r[Len(r)] = s[n]
      <3>1. 1 \in 1..(n - m + 1) /\ n - m + 1 \in 1..(n - m + 1) /\ m + 1 - 1 = m /\ m + (n - m + 1) - 1 = n
        BY <1>1, <2>6, <2>7
      <3> QED BY <2>9, <3>1
    <2>11. ASSUME NEW j \in DOMAIN r PROVE \E i \in DOMAIN s : r[j] = s[i]
      <3>1. j \in 1..(n - m + 1)
        BY <2>9
      <3>2. m + j - 1 \in 1..Len(s)
        BY <1>1, <2>6, <3>1
      <3> QED BY <1>1, <2>9, <3>1, <3>2
    <2> QED BY <2>6, <2>9, <2>10, <2>11 DEF Trimmed, Texts, r
  <1> QED BY <1>5, <1>6

(* What separates the parts of a list.                                      *)
Comma == ","

(* The parts of a list of options: not empty, trimmed, without a comma.     *)
OptionText == {x \in Texts : x # <<>> /\ Trimmed(x) /\ \A i \in DOMAIN x : x[i] # Comma}

(* Trimming leaves them.                                                    *)
LEMMA TrimOption ==
    ASSUME NEW x \in OptionText
    PROVE  trim_ows(x) = x
  <1>1. /\ x \in Seq(Symbols) /\ Len(x) \in Nat /\ Len(x) # 0 /\ x \in Texts
        /\ x[1] # "ows" /\ x[Len(x)] # "ows"
    BY EmptySeq DEF OptionText, Texts, Trimmed
  <1>2. trim_ows(x) = SubSeq(x, 1, Len(x))
    <2>1. 1 \in 1..Len(x) /\ Len(x) \in 1..Len(x) /\ \A i \in 1..Len(x) : 1 <= i /\ i <= Len(x)
      BY <1>1
    <2> QED BY <1>1, <2>1, TrimIs
  <1> QED BY <1>1, <1>2, SubSeqFull

(* It removes the OWS that a comma is written with.                         *)
LEMMA TrimAfterComma ==
    ASSUME NEW x \in OptionText, NEW s \in Texts, Len(s) = Len(x) + 1, s[1] = "ows",
           \A i \in 1..Len(x) : s[i + 1] = x[i]
    PROVE  trim_ows(s) = x
  <1> DEFINE n == Len(x)
             r == SubSeq(s, 2, n + 1)
  <1>1. x \in Seq(Symbols) /\ n \in Nat /\ n # 0 /\ x[1] # "ows" /\ x[n] # "ows" /\ Len(s) = n + 1
    BY EmptySeq DEF OptionText, Texts, Trimmed
  <1>2. 2 \in 1..Len(s) /\ n + 1 \in 1..Len(s) /\ 1 \in 1..n /\ n \in 1..n /\ 1 + 1 = 2
    BY <1>1
  <1>3. s[2] = x[1] /\ s[n + 1] = x[n]
    BY <1>2
  <1>4. ASSUME NEW i \in 1..Len(s), s[i] # "ows" PROVE 2 <= i /\ i <= n + 1
    <2>1. i # 1
      BY <1>4
    <2> QED BY <1>1, <2>1
  <1>5. trim_ows(s) = r
    <2> HIDE DEF n
    <2> QED BY <1>1, <1>2, <1>3, <1>4, TrimIs
  <1>6. /\ r \in Seq(Symbols) /\ Len(r) = n /\ \A i \in 1..n : r[i] = s[i + 1]
    <2>1. n + 1 \in Int /\ \A i \in 2..(n + 1) : i \in 1..Len(s)
      BY <1>1
    <2>2. \A i \in 2..(n + 1) : s[i] \in Symbols
      BY <2>1 DEF Texts
    <2>3. /\ r \in Seq(Symbols) /\ Len(r) = IF 2 <= n + 1 THEN n + 1 - 2 + 1 ELSE 0
          /\ \A i \in 1..(n + 1 - 2 + 1) : r[i] = s[2 + i - 1]
      BY <2>1, <2>2, SubSeqProperties
    <2> HIDE DEF r, n
    <2>4. n + 1 - 2 + 1 = n /\ 2 <= n + 1
      BY <1>1
    <2>5. ASSUME NEW i \in 1..n PROVE r[i] = s[i + 1]
      <3>1. 2 + i - 1 = i + 1
        OBVIOUS
      <3> QED BY <2>3, <2>4, <3>1
    <2> QED BY <2>3, <2>4, <2>5
  <1> HIDE DEF r
  <1>7. r = x
    BY <1>1, <1>6, SeqEqual
  <1> QED BY <1>5, <1>7

----------------------------------------------------------------------------
(* elements without quoting.  The pass over the bytes.                      *)
Passes(f, v) ==
    f = [i \in 0..Len(v) |->
            IF i = 0 THEN [escaped |-> FALSE, quoted |-> FALSE, splits |-> FALSE]
            ELSE SplitStep(f[i - 1], v[i], FALSE)]

(* elements cuts where the pass splits.                                     *)
LEMMA ElementsPass ==
    ASSUME NEW v
    PROVE  elements(v, FALSE) = Pieces(v, {i \in DOMAIN v : (CHOOSE f : Passes(f, v))[i].splits})
  BY Zenon DEF elements, Passes

(* Where there is a comma.                                                  *)
Commas(v) == {i \in DOMAIN v : v[i] = Comma}

(* Without quoting no comma is hidden.                                      *)
LEMMA ElementsSplitAtCommas ==
    ASSUME NEW v \in Texts
    PROVE  elements(v, FALSE) = Pieces(v, Commas(v))
  <1> DEFINE n == Len(v)
             V == [escaped : BOOLEAN, quoted : BOOLEAN, splits : BOOLEAN]
             base == [escaped |-> FALSE, quoted |-> FALSE, splits |-> FALSE]
             g == [p \in (1..n) \X V |-> SplitStep(p[2], v[p[1]], FALSE)]
             pass == CHOOSE f : Passes(f, v)
  <1>1. n \in Nat /\ DOMAIN v = 1..n
    BY DEF Texts
  <1>2. base \in V
    OBVIOUS
  <1>3. \A c : \A q \in V : SplitStep(q, c, FALSE) \in V
    BY DEF SplitStep
  <1> HIDE DEF n, base
  <1>4. g \in [(1..n) \X V -> V]
    <2> HIDE DEF V
    <2> QED BY <1>3
  <1>5. \A i \in 1..n, q \in V : g[<<i, q>>] = SplitStep(q, v[i], FALSE)
    <2> HIDE DEF V
    <2> QED OBVIOUS
  <1> HIDE DEF g, V
  <1>6. PICK f \in [0..n -> V] : Recurs(f, n, base, g)
    BY <1>1, <1>2, <1>4, RecursionExists
  <1>7. ASSUME NEW i \in 0..n
        PROVE  f[i] = IF i = 0 THEN base ELSE SplitStep(f[i - 1], v[i], FALSE)
    <2>1. CASE i = 0
      BY <1>6, <2>1 DEF Recurs
    <2>2. CASE i # 0
      <3>1. i \in 1..n /\ i - 1 \in 0..n
        BY <1>1, <2>2
      <3>2. f[i - 1] \in V /\ f[i] = g[<<i, f[i - 1]>>]
        BY <1>6, <3>1 DEF Recurs
      <3> QED BY <1>5, <2>2, <3>1, <3>2
    <2> QED BY <2>1, <2>2
  <1>8. Passes(f, v)
    <2>1. f = [i \in 0..n |-> IF i = 0 THEN base ELSE SplitStep(f[i - 1], v[i], FALSE)]
      BY <1>6, <1>7
    <2> QED BY <2>1 DEF Passes, n, base
  <1>9. Passes(pass, v)
    BY <1>8, Zenon
  <1>10. elements(v, FALSE) = Pieces(v, {i \in DOMAIN v : pass[i].splits})
    BY ElementsPass
  <1> HIDE DEF pass
  <1>11. \A i \in 0..n : pass[i] = IF i = 0 THEN base ELSE SplitStep(pass[i - 1], v[i], FALSE)
    BY <1>9 DEF Passes, n, base
  <1>12. pass[0] = base
    <2>1. 0 \in 0..n
      BY <1>1
    <2> QED BY <1>11, <2>1
  <1>13. ASSUME NEW i \in 1..n PROVE pass[i] = SplitStep(pass[i - 1], v[i], FALSE)
    <2>1. i \in 0..n /\ i # 0
      BY <1>1
    <2> QED BY <1>11, <2>1
  <1> DEFINE S == {i \in 0..n : pass[i].escaped = FALSE /\ pass[i].quoted = FALSE}
  <1>14. 0 \in S
    BY <1>1, <1>12 DEF base
  <1>15. ASSUME NEW q, NEW c, q.escaped = FALSE, q.quoted = FALSE
         PROVE  /\ SplitStep(q, c, FALSE).escaped = FALSE /\ SplitStep(q, c, FALSE).quoted = FALSE
                /\ SplitStep(q, c, FALSE).splits <=> c = Comma
    BY <1>15, Zenon DEF SplitStep, Comma
  <1>16. ASSUME NEW i \in 1..n, i - 1 \in S PROVE i \in S
    <2>1. pass[i - 1].escaped = FALSE /\ pass[i - 1].quoted = FALSE /\ i \in 0..n
      BY <1>1, <1>16
    <2>2. pass[i] = SplitStep(pass[i - 1], v[i], FALSE)
      BY <1>13, Zenon
    <2>3. /\ SplitStep(pass[i - 1], v[i], FALSE).escaped = FALSE
          /\ SplitStep(pass[i - 1], v[i], FALSE).quoted = FALSE
      BY <1>15, <2>1, Zenon
    <2>4. pass[i].escaped = FALSE /\ pass[i].quoted = FALSE
      BY <2>2, <2>3, Zenon
    <2> QED BY <2>1, <2>4
  <1> HIDE DEF S
  <1>17. \A i \in 0..n : i \in S
    BY <1>1, <1>14, <1>16, UpTo
  <1>18. ASSUME NEW i \in 1..n PROVE pass[i].splits <=> v[i] = Comma
    <2>1. i - 1 \in 0..n
      BY <1>1
    <2>2. pass[i - 1].escaped = FALSE /\ pass[i - 1].quoted = FALSE
      BY <1>17, <2>1 DEF S
    <2>3. pass[i] = SplitStep(pass[i - 1], v[i], FALSE)
      BY <1>13, Zenon
    <2>4. SplitStep(pass[i - 1], v[i], FALSE).splits <=> v[i] = Comma
      BY <1>15, <2>2, Zenon
    <2> QED BY <2>3, <2>4, Zenon
  <1>19. {i \in DOMAIN v : pass[i].splits} = Commas(v)
    BY <1>1, <1>18 DEF Commas
  <1> QED BY <1>10, <1>19

(* No comma lies between a and b, and both are at one or at an end.         *)
Gap(v, a, b) ==
    /\ a \in Commas(v) \cup {0} /\ b \in Commas(v) \cup {Len(v) + 1} /\ a < b
    /\ \A c \in Commas(v) : ~(a < c /\ c < b)

(* The trimmed texts between the commas.                                    *)
Between(v) ==
    {x \in Texts : \E a, b \in 0..(Len(v) + 1) : Gap(v, a, b) /\ x = trim_ows(SubSeq(v, a + 1, b - 1))}

(* Part of a text.                                                          *)
LEMMA PartTyped ==
    ASSUME NEW v \in Texts, NEW a \in 0..(Len(v) + 1), NEW b \in 0..(Len(v) + 1), a < b
    PROVE  /\ SubSeq(v, a + 1, b - 1) \in Texts /\ Len(SubSeq(v, a + 1, b - 1)) = b - a - 1
           /\ \A i \in 1..(b - a - 1) : SubSeq(v, a + 1, b - 1)[i] = v[a + i]
  <1> DEFINE r == SubSeq(v, a + 1, b - 1)
  <1>1. Len(v) \in Nat /\ \A i \in 1..Len(v) : v[i] \in Symbols
    BY DEF Texts
  <1>2. a + 1 \in Int /\ b - 1 \in Int /\ \A i \in (a + 1)..(b - 1) : i \in 1..Len(v)
    BY <1>1
  <1>3. /\ r \in Seq(Symbols) /\ Len(r) = IF a + 1 <= b - 1 THEN (b - 1) - (a + 1) + 1 ELSE 0
        /\ \A i \in 1..((b - 1) - (a + 1) + 1) : r[i] = v[(a + 1) + i - 1]
    BY <1>1, <1>2, SubSeqProperties
  <1> HIDE DEF r
  <1>4. (b - 1) - (a + 1) + 1 = b - a - 1 /\ Len(r) = b - a - 1
    BY <1>1, <1>3
  <1>5. ASSUME NEW i \in 1..(b - a - 1) PROVE r[i] = v[a + i]
    <2>1. (a + 1) + i - 1 = a + i
      BY <1>1
    <2> QED BY <1>3, <1>4, <2>1
  <1> QED BY <1>3, <1>4, <1>5 DEF r, Texts

(* elements returns them.                                                   *)
LEMMA ElementsAreBetween ==
    ASSUME NEW v \in Texts
    PROVE  /\ elements(v, FALSE) \in Seq(Texts)
           /\ \A j \in DOMAIN elements(v, FALSE) : elements(v, FALSE)[j] \in Between(v)
           /\ \A x \in Between(v) : \E j \in DOMAIN elements(v, FALSE) : elements(v, FALSE)[j] = x
  <1> DEFINE n == Len(v)
             T == Commas(v)
             k == InOrder(v, T)
             ends == Append(k, n + 1)
             start(j) == IF j = 1 THEN 0 ELSE ends[j - 1]
             found == elements(v, FALSE)
             piece(j) == trim_ows(SubSeq(v, IF j = 1 THEN 1 ELSE ends[j - 1] + 1, ends[j] - 1))
  <1>1. n \in Nat /\ DOMAIN v = 1..n /\ T \subseteq 1..n /\ T \cap 1..n = T
    <2>1. n \in Nat /\ DOMAIN v = 1..n
      BY DEF Texts
    <2>2. T \subseteq 1..n
      BY <2>1 DEF Commas
    <2> QED BY <2>1, <2>2
  <1>2. found = [j \in DOMAIN ends |-> piece(j)]
    BY ElementsSplitAtCommas, Zenon DEF Pieces
  <1>3. Enumerates(ends, T \cup {n + 1})
    <2>1. Enumerates(k, T)
      <3>1. Enumerates(k, T \cap 1..n)
        BY <1>1, InOrderEnumerates
      <3> QED BY <1>1, <3>1
    <2>2. T \subseteq Nat /\ n + 1 \in Nat /\ \A t \in T : t < n + 1
      BY <1>1
    <2> HIDE DEF T, k, n
    <2> QED BY <2>1, <2>2, EnumeratesMore
  <1> HIDE DEF n, T, k, ends, found
  <1> DEFINE L == Len(ends)
  <1>4. /\ L \in Nat /\ DOMAIN ends = 1..L /\ \A j \in 1..L : ends[j] \in T \cup {n + 1}
        /\ \A a, b \in 1..L : a < b => ends[a] < ends[b]
        /\ \A t \in T \cup {n + 1} : \E a \in 1..L : ends[a] = t
    BY <1>3 DEF Enumerates
  <1> HIDE DEF L
  <1>5. \A j \in 1..L : ends[j] \in 1..(n + 1)
    BY <1>1, <1>4
  <1>6. ASSUME NEW a \in 1..L, NEW b \in 1..L, ends[a] < ends[b] PROVE a < b
    <2>1. a # b
      BY <1>5, <1>6
    <2>2. ~(b < a)
      BY <1>4, <1>5, <1>6
    <2> QED BY <1>4, <2>1, <2>2
  <1>7. ASSUME NEW j \in 1..L
        PROVE  /\ start(j) \in 0..(n + 1) /\ ends[j] \in 0..(n + 1) /\ Gap(v, start(j), ends[j])
               /\ piece(j) = trim_ows(SubSeq(v, start(j) + 1, ends[j] - 1))
    <2>1. ends[j] \in T \cup {n + 1} /\ ends[j] \in 1..(n + 1)
      BY <1>4, <1>5
    <2>2. CASE j = 1
      <3>1. start(j) = 0
        BY <2>2
      <3>2. ASSUME NEW c \in T, c < ends[j] PROVE FALSE
        <4>1. PICK m \in 1..L : ends[m] = c
          BY <1>4
        <4>2. m < j
          BY <1>6, <3>2, <4>1
        <4> QED BY <1>4, <2>2, <4>2
      <3>3. Gap(v, 0, ends[j])
        BY <1>1, <2>1, <3>2 DEF Gap, T, n
      <3> QED BY <1>1, <2>1, <2>2, <3>1, <3>3
    <2>3. CASE j # 1
      <3> DEFINE i == j - 1
      <3>1. i \in 1..L /\ i < j /\ start(j) = ends[i]
        BY <1>4, <2>3
      <3>2. ends[i] < ends[j] /\ ends[i] \in 1..(n + 1) /\ ends[i] \in T \cup {n + 1}
        BY <1>4, <1>5, <3>1
      <3>3. ends[i] # n + 1
        BY <1>1, <2>1, <3>2
      <3>4. ASSUME NEW c \in T, ends[i] < c, c < ends[j] PROVE FALSE
        <4>1. PICK m \in 1..L : ends[m] = c
          BY <1>4
        <4>2. m < j /\ i < m
          BY <1>6, <3>1, <3>4, <4>1
        <4> QED BY <1>4, <4>2
      <3>5. Gap(v, ends[i], ends[j])
        BY <2>1, <3>2, <3>3, <3>4 DEF Gap, T, n
      <3>6. piece(j) = trim_ows(SubSeq(v, ends[i] + 1, ends[j] - 1))
        BY <2>3
      <3> HIDE DEF i
      <3> QED BY <1>1, <2>1, <3>1, <3>2, <3>5, <3>6
    <2> QED BY <2>2, <2>3
  <1>8. ASSUME NEW j \in 1..L PROVE piece(j) \in Texts /\ piece(j) \in Between(v)
    <2> DEFINE a == start(j)
               b == ends[j]
    <2>1. /\ a \in 0..(n + 1) /\ b \in 0..(n + 1) /\ Gap(v, a, b)
          /\ piece(j) = trim_ows(SubSeq(v, a + 1, b - 1))
      BY <1>7
    <2> HIDE DEF a, b, piece
    <2>2. a < b
      BY <2>1 DEF Gap
    <2>3. SubSeq(v, a + 1, b - 1) \in Texts
      BY <2>1, <2>2, PartTyped DEF n
    <2>4. piece(j) \in Texts
      BY <2>1, <2>3, TrimFacts
    <2> QED BY <2>1, <2>4 DEF Between, n
  <1>9. DOMAIN found = 1..L /\ \A j \in 1..L : found[j] = piece(j)
    BY <1>2, <1>4
  <1> HIDE DEF piece
  <1>10. found \in Seq(Texts)
    <2>1. found = [j \in 1..L |-> piece(j)]
      BY <1>2, <1>4
    <2>2. found \in [1..L -> Texts]
      BY <1>8, <2>1
    <2> QED BY <1>4, <2>2, IsASeq
  <1>11. ASSUME NEW x \in Between(v) PROVE \E j \in DOMAIN found : found[j] = x
    <2>1. PICK a \in 0..(n + 1), b \in 0..(n + 1) :
             Gap(v, a, b) /\ x = trim_ows(SubSeq(v, a + 1, b - 1))
      BY DEF Between, n
    <2>2. /\ a \in T \cup {0} /\ b \in T \cup {n + 1} /\ a < b /\ \A c \in T : ~(a < c /\ c < b)
      BY <2>1 DEF Gap, T, n
    <2>3. PICK j \in 1..L : ends[j] = b
      BY <1>4, <2>2
    <2>4. start(j) = a
      <3> DEFINE s == start(j)
      <3>1. Gap(v, s, b) /\ s \in 0..(n + 1)
        BY <1>7, <2>3
      <3> HIDE DEF s
      <3>2. s \in T \cup {0} /\ s < b /\ \A c \in T : ~(s < c /\ c < b)
        BY <3>1 DEF Gap, T
      <3>3. ~(s < a)
        <4>1. s < a => a \in T
          BY <1>1, <2>2, <3>1
        <4> QED BY <2>2, <3>2, <4>1
      <3>4. ~(a < s)
        <4>1. a < s => s \in T
          BY <1>1, <2>1, <3>2
        <4> QED BY <2>2, <3>2, <4>1
      <3>5. s = a
        BY <1>1, <2>1, <3>1, <3>3, <3>4
      <3> QED BY <3>5 DEF s
    <2>5. piece(j) = trim_ows(SubSeq(v, a + 1, b - 1))
      BY <1>7, <2>3, <2>4
    <2> QED BY <1>9, <2>1, <2>3, <2>5
  <1> QED BY <1>8, <1>9, <1>10, <1>11 DEF found

(* Text without a comma is its only part.                                   *)
LEMMA BetweenOne ==
    ASSUME NEW y \in Texts, \A i \in DOMAIN y : y[i] # Comma
    PROVE  Between(y) = {trim_ows(y)}
  <1> DEFINE n == Len(y)
  <1>1. n \in Nat /\ y \in Seq(Symbols) /\ Commas(y) = {}
    BY DEF Texts, Commas
  <1>2. SubSeq(y, 0 + 1, (n + 1) - 1) = y
    <2>1. 0 + 1 = 1 /\ (n + 1) - 1 = n
      BY <1>1
    <2> QED BY <1>1, <2>1, SubSeqFull
  <1> HIDE DEF n
  <1>3. \A a, b \in 0..(n + 1) : Gap(y, a, b) <=> a = 0 /\ b = n + 1
    BY <1>1 DEF Gap, n
  <1>4. trim_ows(y) \in Texts
    BY TrimFacts
  <1>5. 0 \in 0..(n + 1) /\ n + 1 \in 0..(n + 1)
    BY <1>1
  <1>6. Between(y) = {x \in Texts : \E a, b \in 0..(n + 1) :
                         Gap(y, a, b) /\ x = trim_ows(SubSeq(y, a + 1, b - 1))}
    BY DEF Between, n
  <1>7. ASSUME NEW x \in Between(y) PROVE x = trim_ows(y)
    BY <1>2, <1>3, <1>6
  <1>8. trim_ows(y) \in Between(y)
    BY <1>2, <1>3, <1>4, <1>5, <1>6
  <1> QED BY <1>7, <1>8

(* The last comma separates the last part from the others.                  *)
LEMMA BetweenLast ==
    ASSUME NEW c \in Texts, NEW k \in 1..Len(c), c[k] = Comma, \A i \in (k + 1)..Len(c) : c[i] # Comma
    PROVE  Between(c) = Between(SubSeq(c, 1, k - 1)) \cup {trim_ows(SubSeq(c, k + 1, Len(c)))}
  <1> DEFINE n == Len(c)
             p == SubSeq(c, 1, k - 1)
             y == SubSeq(c, k + 1, n)
  <1>1. n \in Nat /\ DOMAIN c = 1..n /\ k \in 1..n
    BY DEF Texts
  <1>2. p \in Texts /\ Len(p) = k - 1 /\ \A i \in 1..(k - 1) : p[i] = c[i]
    <2>1. 0 \in 0..(n + 1) /\ k \in 0..(n + 1) /\ 0 < k /\ 0 + 1 = 1
      BY <1>1
    <2>2. /\ SubSeq(c, 0 + 1, k - 1) \in Texts /\ Len(SubSeq(c, 0 + 1, k - 1)) = k - 0 - 1
          /\ \A i \in 1..(k - 0 - 1) : SubSeq(c, 0 + 1, k - 1)[i] = c[0 + i]
      <3> HIDE DEF p
      <3> QED BY <2>1, PartTyped
    <2>3. p = SubSeq(c, 0 + 1, k - 1)
      BY <2>1
    <2> HIDE DEF p
    <2>4. k - 0 - 1 = k - 1 /\ \A i \in 1..(k - 1) : 0 + i = i
      BY <1>1
    <2> QED BY <2>2, <2>3, <2>4
  <1>3. y = SubSeq(c, k + 1, (n + 1) - 1) /\ y \in Texts /\ trim_ows(y) \in Texts
    <2>1. k \in 0..(n + 1) /\ n + 1 \in 0..(n + 1) /\ k < n + 1 /\ (n + 1) - 1 = n
      BY <1>1
    <2>2. SubSeq(c, k + 1, (n + 1) - 1) \in Texts
      <3> HIDE DEF y
      <3> QED BY <2>1, PartTyped
    <2>3. y \in Texts
      BY <2>1, <2>2
    <2> HIDE DEF y
    <2> QED BY <2>1, <2>3, TrimFacts DEF y
  <1> HIDE DEF p, y
  <1>4. Commas(p) = {i \in Commas(c) : i < k}
    <2>1. DOMAIN p = 1..(k - 1)
      BY <1>2 DEF Texts
    <2> QED BY <1>1, <1>2, <2>1 DEF Commas
  <1>5. k \in Commas(c) /\ Commas(c) \subseteq 1..k
    BY <1>1 DEF Commas
  <1> HIDE DEF n
  <1>6. ASSUME NEW a \in 0..(n + 1), NEW b \in 0..(n + 1)
        PROVE  Gap(c, a, b) <=> (Gap(p, a, b) /\ b <= k) \/ (a = k /\ b = n + 1)
    <2>1. Gap(c, a, b) <=> /\ a \in Commas(c) \cup {0} /\ b \in Commas(c) \cup {n + 1} /\ a < b
                           /\ \A d \in Commas(c) : ~(a < d /\ d < b)
      BY DEF Gap, n
    <2>2. Gap(p, a, b) <=> /\ a \in Commas(p) \cup {0} /\ b \in Commas(p) \cup {k} /\ a < b
                           /\ \A d \in Commas(p) : ~(a < d /\ d < b)
      <3>1. Len(p) + 1 = k
        BY <1>1, <1>2
      <3> QED BY <3>1 DEF Gap
    <2>3. ASSUME Gap(c, a, b), a < k PROVE Gap(p, a, b) /\ b <= k
      <3>1. b <= k
        BY <1>1, <1>5, <2>1, <2>3
      <3>2. a \in Commas(p) \cup {0}
        BY <1>4, <2>1, <2>3
      <3>3. b \in Commas(p) \cup {k}
        <4>1. b # n + 1
          BY <1>1, <3>1
        <4>2. b \in Commas(c)
          BY <2>1, <2>3, <4>1
        <4> QED BY <1>1, <1>4, <3>1, <4>2
      <3>4. \A d \in Commas(p) : ~(a < d /\ d < b)
        BY <1>4, <2>1, <2>3
      <3> QED BY <2>1, <2>2, <2>3, <3>1, <3>2, <3>3, <3>4
    <2>4. ASSUME Gap(c, a, b), ~(a < k) PROVE a = k /\ b = n + 1
      <3>1. a = k
        BY <1>1, <1>5, <2>1, <2>4
      <3>2. b \notin Commas(c)
        BY <1>1, <1>5, <2>1, <2>4, <3>1
      <3> QED BY <2>1, <2>4, <3>1, <3>2
    <2>5. ASSUME Gap(p, a, b), b <= k PROVE Gap(c, a, b)
      <3>1. a \in Commas(c) \cup {0} /\ b \in Commas(c) \cup {n + 1} /\ a < b
        BY <1>4, <1>5, <2>2, <2>5
      <3>2. ASSUME NEW d \in Commas(c), a < d, d < b PROVE FALSE
        <4>1. d < k
          BY <1>1, <1>5, <2>5, <3>2
        <4> QED BY <1>4, <2>2, <2>5, <3>2, <4>1
      <3> QED BY <2>1, <3>1, <3>2
    <2>6. ASSUME a = k, b = n + 1 PROVE Gap(c, a, b)
      BY <1>1, <1>5, <2>1, <2>6
    <2> QED BY <2>3, <2>4, <2>5, <2>6
  <1>7. ASSUME NEW a \in 0..k, NEW b \in 0..k, a < b
        PROVE  SubSeq(c, a + 1, b - 1) = SubSeq(p, a + 1, b - 1)
    <2> DEFINE x == SubSeq(c, a + 1, b - 1)
               z == SubSeq(p, a + 1, b - 1)
               m == b - a - 1
    <2>1. a \in 0..(n + 1) /\ b \in 0..(n + 1) /\ a \in 0..(Len(p) + 1) /\ b \in 0..(Len(p) + 1)
      BY <1>1, <1>2
    <2>2. x \in Texts /\ Len(x) = m /\ \A i \in 1..m : x[i] = c[a + i]
      BY <1>7, <2>1, PartTyped DEF n
    <2>3. z \in Texts /\ Len(z) = m /\ \A i \in 1..m : z[i] = p[a + i]
      BY <1>2, <1>7, <2>1, PartTyped
    <2> HIDE DEF x, z
    <2>4. ASSUME NEW i \in 1..m PROVE x[i] = z[i]
      <3>1. a + i \in 1..(k - 1)
        BY <1>1
      <3> HIDE DEF m
      <3> QED BY <1>2, <2>2, <2>3, <3>1
    <2> HIDE DEF m
    <2>5. x = z
      BY <2>2, <2>3, <2>4, SeqEqual DEF Texts
    <2> QED BY <2>5 DEF x, z
  <1>8. ASSUME NEW x PROVE x \in Between(c) <=> x \in Between(p) \cup {trim_ows(y)}
    <2>1. x \in Between(c) <=> x \in Texts /\ \E a, b \in 0..(n + 1) :
             Gap(c, a, b) /\ x = trim_ows(SubSeq(c, a + 1, b - 1))
      BY DEF Between, n
    <2>2. x \in Between(p) <=> x \in Texts /\ \E a, b \in 0..k :
             Gap(p, a, b) /\ x = trim_ows(SubSeq(p, a + 1, b - 1))
      <3>1. Len(p) + 1 = k
        BY <1>1, <1>2
      <3> QED BY <3>1 DEF Between
    <2>3. ASSUME x \in Between(c) PROVE x \in Between(p) \cup {trim_ows(y)}
      <3>1. PICK a \in 0..(n + 1), b \in 0..(n + 1) :
               Gap(c, a, b) /\ x = trim_ows(SubSeq(c, a + 1, b - 1))
        BY <2>1, <2>3
      <3>2. CASE Gap(p, a, b) /\ b <= k
        <4>1. a < b /\ a \in 0..k /\ b \in 0..k
          BY <1>1, <3>2 DEF Gap
        <4>2. x = trim_ows(SubSeq(p, a + 1, b - 1))
          BY <1>7, <3>1, <4>1
        <4> QED BY <2>1, <2>2, <2>3, <3>2, <4>1, <4>2
      <3>3. CASE a = k /\ b = n + 1
        BY <1>3, <3>1, <3>3
      <3> QED BY <1>6, <3>1, <3>2, <3>3
    <2>4. ASSUME x \in Between(p) PROVE x \in Between(c)
      <3>1. PICK a \in 0..k, b \in 0..k : Gap(p, a, b) /\ x = trim_ows(SubSeq(p, a + 1, b - 1))
        BY <2>2, <2>4
      <3>2. a < b /\ b <= k /\ a \in 0..(n + 1) /\ b \in 0..(n + 1)
        BY <1>1, <3>1 DEF Gap
      <3>3. Gap(c, a, b)
        BY <1>6, <3>1, <3>2
      <3>4. x = trim_ows(SubSeq(c, a + 1, b - 1))
        BY <1>7, <3>1, <3>2
      <3> QED BY <2>1, <2>2, <2>4, <3>2, <3>3, <3>4
    <2>5. trim_ows(y) \in Between(c)
      <3>1. k \in 0..(n + 1) /\ n + 1 \in 0..(n + 1)
        BY <1>1
      <3>2. Gap(c, k, n + 1)
        BY <1>6, <3>1
      <3> QED BY <1>3, <3>1, <3>2 DEF Between, n
    <2> QED BY <2>3, <2>4, <2>5
  <1> QED BY <1>8 DEF p, y, n

(* The parts that are not empty are options, of the symbols of the text.    *)
LEMMA BetweenAreOptions ==
    ASSUME NEW v \in Texts, NEW x \in Between(v)
    PROVE  /\ x # <<>> => x \in OptionText
           /\ (\A i \in DOMAIN v : v[i] # "ctl") => \A i \in DOMAIN x : x[i] # "ctl"
  <1> DEFINE n == Len(v)
  <1>1. n \in Nat /\ DOMAIN v = 1..n
    BY DEF Texts
  <1>2. PICK a \in 0..(n + 1), b \in 0..(n + 1) :
           Gap(v, a, b) /\ x = trim_ows(SubSeq(v, a + 1, b - 1))
    BY DEF Between
  <1>3. a < b /\ \A c \in Commas(v) : ~(a < c /\ c < b)
    BY <1>2 DEF Gap
  <1> DEFINE part == SubSeq(v, a + 1, b - 1)
             m == b - a - 1
  <1>4. part \in Texts /\ Len(part) = m /\ \A i \in 1..m : part[i] = v[a + i]
    BY <1>3, PartTyped
  <1>5. x = trim_ows(part)
    BY <1>2
  <1> HIDE DEF part
  <1>6. /\ x \in Texts /\ Trimmed(x)
        /\ \A j \in DOMAIN x : \E i \in DOMAIN part : x[j] = part[i]
    BY <1>4, <1>5, TrimFacts
  <1>7. ASSUME NEW j \in DOMAIN x PROVE \E i \in DOMAIN v : x[j] = v[i] /\ v[i] # Comma
    <2>1. PICK i \in DOMAIN part : x[j] = part[i]
      BY <1>6
    <2>2. i \in 1..m
      BY <1>4, <2>1 DEF Texts
    <2>3. a + i \in 1..n /\ a < a + i /\ a + i < b
      BY <1>1, <2>2
    <2>4. x[j] = v[a + i]
      BY <1>4, <2>1, <2>2
    <2>5. v[a + i] # Comma
      BY <1>1, <1>3, <2>3 DEF Commas
    <2> QED BY <1>1, <2>3, <2>4, <2>5
  <1>8. x # <<>> => x \in OptionText
    BY <1>6, <1>7 DEF OptionText
  <1> QED BY <1>7, <1>8

----------------------------------------------------------------------------
(* Concat.  The sequences up to each one.                                   *)
Concats(f, seqs) == f = [i \in 0..Len(seqs) |-> IF i = 0 THEN <<>> ELSE f[i - 1] \o seqs[i]]

(* Concat returns the last.                                                 *)
LEMMA ConcatIs ==
    ASSUME NEW seqs
    PROVE  Concat(seqs) = (CHOOSE f : Concats(f, seqs))[Len(seqs)]
  BY Zenon DEF Concat, Concats

(* Each is the one before and one sequence more.                            *)
LEMMA ConcatFacts ==
    ASSUME NEW X, NEW seqs \in Seq(Seq(X))
    PROVE  \E f : /\ Concat(seqs) = f[Len(seqs)] /\ f[0] = <<>>
                  /\ \A i \in 1..Len(seqs) : f[i] = f[i - 1] \o seqs[i]
                  /\ \A i \in 0..Len(seqs) : f[i] \in Seq(X)
  <1> DEFINE n == Len(seqs)
             V == Seq(X)
             g == [p \in (1..n) \X V |-> p[2] \o seqs[p[1]]]
             all == CHOOSE f : Concats(f, seqs)
  <1>1. n \in Nat /\ (\A i \in 1..n : seqs[i] \in V) /\ <<>> \in V
    BY EmptySeq
  <1>2. \A x, y \in V : x \o y \in V
    BY ConcatProperties
  <1> HIDE DEF n, V
  <1>3. g \in [(1..n) \X V -> V]
    BY <1>1, <1>2
  <1>4. \A i \in 1..n, x \in V : g[<<i, x>>] = x \o seqs[i]
    OBVIOUS
  <1> HIDE DEF g
  <1>5. PICK f \in [0..n -> V] : Recurs(f, n, <<>>, g)
    BY <1>1, <1>3, RecursionExists
  <1>6. ASSUME NEW i \in 0..n
        PROVE  f[i] = IF i = 0 THEN <<>> ELSE f[i - 1] \o seqs[i]
    <2>1. CASE i = 0
      BY <1>5, <2>1 DEF Recurs
    <2>2. CASE i # 0
      <3>1. i \in 1..n /\ i - 1 \in 0..n
        BY <1>1, <2>2
      <3>2. f[i - 1] \in V /\ f[i] = g[<<i, f[i - 1]>>]
        BY <1>5, <3>1 DEF Recurs
      <3> QED BY <1>4, <2>2, <3>1, <3>2
    <2> QED BY <2>1, <2>2
  <1>7. Concats(f, seqs)
    <2>1. f = [i \in 0..n |-> IF i = 0 THEN <<>> ELSE f[i - 1] \o seqs[i]]
      BY <1>5, <1>6
    <2> QED BY <2>1 DEF Concats, n
  <1>8. Concats(all, seqs)
    BY <1>7, Zenon
  <1>9. Concat(seqs) = all[n]
    BY ConcatIs DEF n
  <1> HIDE DEF all
  <1>10. \A i \in 0..n : all[i] = IF i = 0 THEN <<>> ELSE all[i - 1] \o seqs[i]
    BY <1>8 DEF Concats, n
  <1>11. all[0] = <<>>
    <2>1. 0 \in 0..n
      BY <1>1
    <2> QED BY <1>10, <2>1
  <1>12. ASSUME NEW i \in 1..n PROVE all[i] = all[i - 1] \o seqs[i]
    <2>1. i \in 0..n /\ i # 0
      BY <1>1
    <2> QED BY <1>10, <2>1
  <1> DEFINE S == {i \in 0..n : all[i] \in V}
  <1>13. 0 \in S
    BY <1>1, <1>11
  <1>14. ASSUME NEW i \in 1..n, i - 1 \in S PROVE i \in S
    <2>1. all[i - 1] \o seqs[i] \in V
      BY <1>1, <1>2, <1>14
    <2>2. all[i] \in V
      BY <1>12, <2>1, Zenon
    <2>3. i \in 0..n
      BY <1>1
    <2> QED BY <2>2, <2>3
  <1> HIDE DEF S
  <1>15. \A i \in 0..n : i \in S
    BY <1>1, <1>13, <1>14, UpTo
  <1>16. \A i \in 0..n : all[i] \in V
    BY <1>15 DEF S
  <1> HIDE DEF V
  <1> QED BY <1>9, <1>11, <1>12, <1>16, Zenon DEF n, V

(* It has the members of all of them, and no others.                        *)
LEMMA ConcatMembers ==
    ASSUME NEW X, NEW seqs \in Seq(Seq(X))
    PROVE  /\ Concat(seqs) \in Seq(X)
           /\ \A j \in DOMAIN Concat(seqs) :
                 \E i \in DOMAIN seqs : \E m \in DOMAIN seqs[i] : Concat(seqs)[j] = seqs[i][m]
           /\ \A i \in DOMAIN seqs : \A m \in DOMAIN seqs[i] :
                 \E j \in DOMAIN Concat(seqs) : Concat(seqs)[j] = seqs[i][m]
  <1> DEFINE n == Len(seqs)
  <1>1. n \in Nat /\ DOMAIN seqs = 1..n /\ \A i \in 1..n : seqs[i] \in Seq(X)
    OBVIOUS
  <1>2. PICK f : /\ Concat(seqs) = f[n] /\ f[0] = <<>>
                 /\ \A i \in 1..n : f[i] = f[i - 1] \o seqs[i]
                 /\ \A i \in 0..n : f[i] \in Seq(X)
    BY ConcatFacts
  <1> HIDE DEF n
  <1> DEFINE In(x, t) == \E j \in DOMAIN t : t[j] = x
             Good(i) == \A x : In(x, f[i]) <=> \E m \in 1..i : In(x, seqs[m])
             S == {i \in 0..n : Good(i)}
  <1>3. ASSUME NEW s \in Seq(X), NEW t \in Seq(X), NEW x
        PROVE  In(x, s \o t) <=> In(x, s) \/ In(x, t)
    <2> DEFINE c == s \o t
    <2>1. /\ c \in Seq(X) /\ Len(c) = Len(s) + Len(t) /\ Len(s) \in Nat /\ Len(t) \in Nat
          /\ \A i \in 1..(Len(s) + Len(t)) : c[i] = IF i <= Len(s) THEN s[i] ELSE t[i - Len(s)]
      BY ConcatProperties, LenProperties
    <2>2. DOMAIN c = 1..(Len(s) + Len(t)) /\ DOMAIN s = 1..Len(s) /\ DOMAIN t = 1..Len(t)
      <3> HIDE DEF c
      <3> QED BY <2>1
    <2> HIDE DEF c
    <2>3. ASSUME NEW j \in DOMAIN c
          PROVE  (\E i \in DOMAIN s : s[i] = c[j]) \/ (\E i \in DOMAIN t : t[i] = c[j])
      <3>1. CASE j <= Len(s)
        <4>1. j \in DOMAIN s /\ c[j] = s[j]
          BY <2>1, <2>2, <3>1
        <4> QED BY <4>1
      <3>2. CASE ~(j <= Len(s))
        <4>1. j - Len(s) \in DOMAIN t /\ c[j] = t[j - Len(s)]
          BY <2>1, <2>2, <3>2
        <4> QED BY <4>1
      <3> QED BY <3>1, <3>2
    <2>4. ASSUME NEW i \in DOMAIN s PROVE \E j \in DOMAIN c : c[j] = s[i]
      <3>1. i \in DOMAIN c /\ c[i] = s[i]
        BY <2>1, <2>2
      <3> QED BY <3>1
    <2>5. ASSUME NEW i \in DOMAIN t PROVE \E j \in DOMAIN c : c[j] = t[i]
      <3>1. Len(s) + i \in 1..(Len(s) + Len(t)) /\ ~(Len(s) + i <= Len(s)) /\ (Len(s) + i) - Len(s) = i
        BY <2>1, <2>2
      <3>2. Len(s) + i \in DOMAIN c /\ c[Len(s) + i] = t[i]
        BY <2>1, <2>2, <3>1
      <3> QED BY <3>2
    <2>6. In(x, c) <=> In(x, s) \/ In(x, t)
      BY <2>3, <2>4, <2>5, Zenon
    <2> QED BY <2>6, Zenon DEF c
  <1>4. 0 \in S
    <2>1. 1..0 = {} /\ DOMAIN <<>> = {} /\ 0 \in 0..n
      BY <1>1
    <2>2. Good(0)
      BY <1>2, <2>1
    <2> QED BY <2>1, <2>2
  <1>5. ASSUME NEW i \in 1..n, i - 1 \in S PROVE i \in S
    <2>1. i - 1 \in 0..n /\ i \in 0..n /\ i \in 1..i /\ \A m \in 1..i : m \in 1..(i - 1) \/ m = i
      BY <1>1
    <2>2. f[i] = f[i - 1] \o seqs[i] /\ f[i - 1] \in Seq(X) /\ seqs[i] \in Seq(X)
      BY <1>1, <1>2, <2>1
    <2>3. Good(i - 1)
      BY <1>5
    <2>4. \A m \in 1..(i - 1) : m \in 1..i
      BY <1>1
    <2>5. ASSUME NEW x PROVE In(x, f[i]) <=> \E m \in 1..i : In(x, seqs[m])
      <3> HIDE DEF In
      <3>1. In(x, f[i - 1] \o seqs[i]) <=> In(x, f[i - 1]) \/ In(x, seqs[i])
        BY <1>3, <2>2
      <3>2. In(x, f[i]) <=> In(x, f[i - 1]) \/ In(x, seqs[i])
        BY <2>2, <3>1
      <3>3. In(x, f[i - 1]) <=> \E m \in 1..(i - 1) : In(x, seqs[m])
        BY <2>3
      <3> QED BY <2>1, <2>4, <3>2, <3>3
    <2> HIDE DEF In
    <2> QED BY <2>1, <2>5
  <1> HIDE DEF S
  <1>6. n \in S
    <2>1. n \in 0..n
      BY <1>1
    <2> QED BY <1>1, <1>4, <1>5, <2>1, UpTo
  <1>7. \A x : In(x, f[n]) <=> \E m \in 1..n : In(x, seqs[m])
    BY <1>6, Zenon DEF S
  <1>8. f[n] \in Seq(X)
    <2>1. n \in 0..n
      BY <1>1
    <2> QED BY <1>2, <2>1
  <1>9. ASSUME NEW j \in DOMAIN f[n]
        PROVE  \E i \in DOMAIN seqs : \E m \in DOMAIN seqs[i] : f[n][j] = seqs[i][m]
    <2>1. \E i \in 1..n : \E m \in DOMAIN seqs[i] : f[n][j] = seqs[i][m]
      BY <1>7, Zenon
    <2> QED BY <1>1, <2>1
  <1>10. ASSUME NEW i \in DOMAIN seqs, NEW m \in DOMAIN seqs[i]
         PROVE  \E j \in DOMAIN f[n] : f[n][j] = seqs[i][m]
    <2>1. i \in 1..n
      BY <1>1
    <2> QED BY <1>7, <2>1, Zenon
  <1>11. Concat(seqs) = f[n]
    BY <1>2
  <1>12. Concat(seqs) \in Seq(X)
    BY <1>8, <1>11
  <1>13. \A j \in DOMAIN Concat(seqs) :
            \E i \in DOMAIN seqs : \E m \in DOMAIN seqs[i] : Concat(seqs)[j] = seqs[i][m]
    BY <1>9, <1>11
  <1>14. \A i \in DOMAIN seqs : \A m \in DOMAIN seqs[i] :
            \E j \in DOMAIN Concat(seqs) : Concat(seqs)[j] = seqs[i][m]
    BY <1>10, <1>11
  <1> QED BY <1>12, <1>13, <1>14

----------------------------------------------------------------------------
(* Join.  What is written between two options.                              *)
Separator == <<",", "ows">>

(* A pair is a sequence of two.                                             *)
LEMMA PairIsSeq ==
    ASSUME NEW X, NEW a \in X, NEW b \in X
    PROVE  <<a, b>> \in Seq(X) /\ Len(<<a, b>>) = 2 /\ <<a, b>>[1] = a /\ <<a, b>>[2] = b
  OBVIOUS

(* A comma and a space.                                                     *)
LEMMA SeparatorFacts ==
    Separator \in Texts /\ Len(Separator) = 2 /\ Separator[1] = Comma /\ Separator[2] = "ows"
  <1>1. Comma \in Symbols /\ "ows" \in Symbols
    BY Zenon DEF Comma, Symbols
  <1>2. Separator = <<Comma, "ows">>
    BY Zenon DEF Separator, Comma
  <1> QED BY <1>1, <1>2, PairIsSeq DEF Texts

(* Two texts.                                                               *)
LEMMA TwoTexts ==
    ASSUME NEW s \in Texts, NEW t \in Texts
    PROVE  /\ s \o t \in Texts /\ Len(s) \in Nat /\ Len(t) \in Nat /\ Len(s \o t) = Len(s) + Len(t)
           /\ \A i \in 1..Len(s) : (s \o t)[i] = s[i]
           /\ \A i \in 1..Len(t) : (s \o t)[Len(s) + i] = t[i]
  <1> DEFINE c == s \o t
  <1>1. /\ c \in Seq(Symbols) /\ Len(s) \in Nat /\ Len(t) \in Nat /\ Len(c) = Len(s) + Len(t)
        /\ \A i \in 1..(Len(s) + Len(t)) : c[i] = IF i <= Len(s) THEN s[i] ELSE t[i - Len(s)]
    BY ConcatProperties, LenProperties DEF Texts
  <1> HIDE DEF c
  <1>2. \A i \in 1..Len(s) : c[i] = s[i]
    BY <1>1
  <1>3. ASSUME NEW i \in 1..Len(t) PROVE c[Len(s) + i] = t[i]
    <2>1. Len(s) + i \in 1..(Len(s) + Len(t)) /\ ~(Len(s) + i <= Len(s)) /\ (Len(s) + i) - Len(s) = i
      BY <1>1
    <2> QED BY <1>1, <2>1
  <1> QED BY <1>1, <1>2, <1>3 DEF c, Texts

(* One more option after the separator.                                     *)
LEMMA OneMoreOption ==
    ASSUME NEW p \in Texts, NEW x \in OptionText, NEW y \in OptionText
    PROVE  Between((p \o (x \o Separator)) \o y) = Between(p \o x) \cup {y}
  <1> DEFINE b == p \o x
             xs == x \o Separator
             pxs == p \o xs
             c == pxs \o y
             k == Len(b) + 1
             n == Len(c)
  <1>1. x \in Texts /\ y \in Texts /\ \A i \in DOMAIN y : y[i] # Comma
    BY DEF OptionText
  <1>2. /\ b \in Texts /\ Len(b) = Len(p) + Len(x) /\ Len(p) \in Nat /\ Len(x) \in Nat
        /\ \A i \in 1..Len(p) : b[i] = p[i]
        /\ \A i \in 1..Len(x) : b[Len(p) + i] = x[i]
    BY <1>1, TwoTexts
  <1>3. /\ xs \in Texts /\ Len(xs) = Len(x) + 2 /\ (\A i \in 1..Len(x) : xs[i] = x[i])
        /\ xs[Len(x) + 1] = Comma /\ xs[Len(x) + 2] = "ows"
    <2>1. /\ xs \in Texts /\ Len(xs) = Len(x) + Len(Separator)
          /\ \A i \in 1..Len(x) : xs[i] = x[i]
          /\ \A i \in 1..Len(Separator) : xs[Len(x) + i] = Separator[i]
      BY <1>1, SeparatorFacts, TwoTexts
    <2> HIDE DEF xs
    <2> QED BY <2>1, SeparatorFacts
  <1> HIDE DEF b, xs
  <1>4. /\ pxs \in Texts /\ Len(pxs) = Len(p) + Len(xs)
        /\ \A i \in 1..Len(p) : pxs[i] = p[i]
        /\ \A i \in 1..Len(xs) : pxs[Len(p) + i] = xs[i]
    BY <1>3, TwoTexts
  <1> HIDE DEF pxs
  <1>5. /\ c \in Texts /\ n = Len(pxs) + Len(y) /\ Len(y) \in Nat
        /\ \A i \in 1..Len(pxs) : c[i] = pxs[i]
        /\ \A i \in 1..Len(y) : c[Len(pxs) + i] = y[i]
    BY <1>1, <1>4, TwoTexts
  <1> HIDE DEF c, n
  <1>6. /\ k = Len(p) + Len(x) + 1 /\ k \in Nat /\ n = k + 1 + Len(y) /\ k \in 1..n
        /\ Len(pxs) = k + 1 /\ k - 1 = Len(b)
    BY <1>2, <1>3, <1>4, <1>5
  <1> HIDE DEF k
  <1>7. ASSUME NEW i \in 1..(Len(x) + 2) PROVE c[Len(p) + i] = xs[i]
    <2>1. i \in 1..Len(xs) /\ Len(p) + i \in 1..Len(pxs)
      BY <1>2, <1>3, <1>4
    <2> QED BY <1>4, <1>5, <2>1
  <1>8. c[k] = Comma /\ c[k + 1] = "ows"
    <2>1. /\ Len(x) + 1 \in 1..(Len(x) + 2) /\ Len(x) + 2 \in 1..(Len(x) + 2)
          /\ Len(p) + (Len(x) + 1) = k /\ Len(p) + (Len(x) + 2) = k + 1
      BY <1>2, <1>6
    <2> QED BY <1>3, <1>7, <2>1
  <1>9. ASSUME NEW i \in 1..Len(y) PROVE c[k + 1 + i] = y[i] /\ c[k + 1 + i] # Comma
    <2>1. k + 1 + i = Len(pxs) + i /\ DOMAIN y = 1..Len(y)
      BY <1>1, <1>6 DEF Texts
    <2> QED BY <1>1, <1>5, <2>1
  <1>10. ASSUME NEW i \in (k + 1)..Len(c) PROVE c[i] # Comma
    <2>1. i \in (k + 1)..n
      BY DEF n
    <2>2. CASE i = k + 1
      <3>1. "ows" # Comma
        BY Zenon DEF Comma
      <3> QED BY <1>8, <2>2, <3>1
    <2>3. CASE i # k + 1
      <3>1. i - k - 1 \in 1..Len(y) /\ k + 1 + (i - k - 1) = i
        BY <1>5, <1>6, <2>1, <2>3
      <3> QED BY <1>9, <3>1
    <2> QED BY <2>2, <2>3
  <1>11. Between(c) = Between(SubSeq(c, 1, k - 1)) \cup {trim_ows(SubSeq(c, k + 1, Len(c)))}
    BY <1>5, <1>6, <1>8, <1>10, BetweenLast DEF n
  <1>12. SubSeq(c, 1, k - 1) = b
    <2> DEFINE r == SubSeq(c, 0 + 1, k - 1)
    <2>1. 0 \in 0..(n + 1) /\ k \in 0..(n + 1) /\ 0 < k /\ 0 + 1 = 1 /\ k - 0 - 1 = k - 1
      BY <1>6
    <2>2. r \in Texts /\ Len(r) = k - 0 - 1 /\ \A i \in 1..(k - 0 - 1) : r[i] = c[0 + i]
      <3> HIDE DEF r
      <3> QED BY <1>5, <2>1, PartTyped DEF n, r
    <2> HIDE DEF r
    <2>3. ASSUME NEW i \in 1..Len(b) PROVE r[i] = b[i]
      <3>1. r[i] = c[i]
        <4>1. i \in 1..(k - 0 - 1) /\ 0 + i = i
          BY <1>6, <2>1
        <4> QED BY <2>2, <4>1
      <3>2. CASE i <= Len(p)
        <4>1. i \in 1..Len(p) /\ i \in 1..Len(pxs)
          BY <1>2, <1>6, <3>2
        <4> QED BY <1>2, <1>4, <1>5, <3>1, <4>1
      <3>3. CASE ~(i <= Len(p))
        <4> DEFINE j == i - Len(p)
        <4>1. j \in 1..Len(x) /\ j \in 1..(Len(x) + 2) /\ Len(p) + j = i
          BY <1>2, <3>3
        <4> HIDE DEF j
        <4>2. c[i] = xs[j] /\ b[i] = x[j] /\ xs[j] = x[j]
          BY <1>2, <1>3, <1>7, <4>1
        <4> QED BY <3>1, <4>2
      <3> QED BY <3>2, <3>3
    <2>4. r = b
      <3>1. Len(r) = Len(b)
        BY <1>6, <2>1, <2>2
      <3> QED BY <1>2, <2>2, <2>3, <3>1, SeqEqual DEF Texts
    <2> QED BY <2>1, <2>4 DEF r
  <1>13. trim_ows(SubSeq(c, k + 1, Len(c))) = y
    <2> DEFINE r == SubSeq(c, k + 1, (n + 1) - 1)
    <2>1. k \in 0..(n + 1) /\ n + 1 \in 0..(n + 1) /\ k < n + 1 /\ (n + 1) - 1 = n
          /\ (n + 1) - k - 1 = Len(y) + 1
      BY <1>5, <1>6
    <2>2. r \in Texts /\ Len(r) = (n + 1) - k - 1 /\ \A i \in 1..((n + 1) - k - 1) : r[i] = c[k + i]
      <3> HIDE DEF r
      <3> QED BY <1>5, <2>1, PartTyped DEF n, r
    <2> HIDE DEF r
    <2>3. Len(r) = Len(y) + 1 /\ \A i \in 1..(Len(y) + 1) : r[i] = c[k + i]
      BY <2>1, <2>2
    <2>4. r[1] = "ows"
      <3>1. 1 \in 1..(Len(y) + 1)
        BY <1>5
      <3> QED BY <1>8, <2>3, <3>1
    <2>5. ASSUME NEW i \in 1..Len(y) PROVE r[i + 1] = y[i]
      <3>1. i + 1 \in 1..(Len(y) + 1) /\ k + (i + 1) = k + 1 + i
        BY <1>5, <1>6
      <3> QED BY <1>9, <2>3, <3>1
    <2>6. trim_ows(r) = y
      BY <2>2, <2>3, <2>4, <2>5, TrimAfterComma
    <2> QED BY <2>1, <2>6 DEF r, n
  <1> QED BY <1>11, <1>12, <1>13 DEF c, pxs, xs, b

(* Text that may be a field value's.                                        *)
Clean(x) == \A i \in DOMAIN x : x[i] # "ctl"

(* Two clean texts are clean, and start as the first does.                  *)
LEMMA TwoClean ==
    ASSUME NEW s \in Texts, NEW t \in Texts, Clean(s), Clean(t)
    PROVE  Clean(s \o t)
  <1> DEFINE c == s \o t
  <1>1. /\ c \in Texts /\ Len(s) \in Nat /\ Len(t) \in Nat /\ Len(c) = Len(s) + Len(t)
        /\ \A i \in 1..Len(s) : c[i] = s[i]
        /\ \A i \in 1..Len(t) : c[Len(s) + i] = t[i]
    BY TwoTexts
  <1>2. DOMAIN s = 1..Len(s) /\ DOMAIN t = 1..Len(t)
    BY DEF Texts
  <1> HIDE DEF c
  <1>3. DOMAIN c = 1..(Len(s) + Len(t))
    BY <1>1 DEF Texts
  <1>4. ASSUME NEW i \in DOMAIN c PROVE c[i] # "ctl"
    <2>1. CASE i <= Len(s)
      BY <1>1, <1>2, <1>3, <2>1 DEF Clean
    <2>2. CASE ~(i <= Len(s))
      <3>1. i - Len(s) \in 1..Len(t) /\ Len(s) + (i - Len(s)) = i
        BY <1>1, <1>3, <2>2
      <3> QED BY <1>1, <1>2, <3>1 DEF Clean
    <2> QED BY <2>1, <2>2
  <1> QED BY <1>4 DEF Clean, c

(* Join: a list of exactly the options, that may be sent when they may.     *)
LEMMA JoinLists ==
    ASSUME NEW opts \in Seq(OptionText), opts # <<>>
    PROVE  /\ Join(opts) \in Texts
           /\ Between(Join(opts)) = {opts[j] : j \in DOMAIN opts}
           /\ (\A j \in DOMAIN opts : Clean(opts[j])) => Clean(Join(opts)) /\ Trimmed(Join(opts))
  <1> DEFINE n == Len(opts)
             w == [i \in DOMAIN opts |-> IF i = n THEN opts[i] ELSE opts[i] \o Separator]
  <1>1. /\ n \in Nat /\ n # 0 /\ DOMAIN opts = 1..n
        /\ \A i \in 1..n : opts[i] \in OptionText /\ opts[i] \in Texts
    BY EmptySeq DEF OptionText
  <1>2. Join(opts) = Concat(w)
    BY Zenon DEF Join, Separator
  <1>3. w \in Seq(Texts) /\ Len(w) = n
    <2>1. \A i \in 1..n : opts[i] \o Separator \in Texts
      BY <1>1, SeparatorFacts, TwoTexts
    <2> HIDE DEF n
    <2>2. w \in [1..n -> Texts]
      BY <1>1, <2>1
    <2> HIDE DEF w
    <2> QED BY <1>1, <2>2, IsASeq
  <1>4. ASSUME NEW i \in 1..n PROVE w[i] = IF i = n THEN opts[i] ELSE opts[i] \o Separator
    BY <1>1
  <1> HIDE DEF n, w
  <1>5. PICK f : /\ Concat(w) = f[n] /\ f[0] = <<>>
                 /\ \A i \in 1..n : f[i] = f[i - 1] \o w[i]
                 /\ \A i \in 0..n : f[i] \in Texts
    <2>1. w \in Seq(Seq(Symbols))
      BY <1>3 DEF Texts
    <2>2. \E f : /\ Concat(w) = f[n] /\ f[0] = <<>>
                 /\ \A i \in 1..n : f[i] = f[i - 1] \o w[i]
                 /\ \A i \in 0..n : f[i] \in Seq(Symbols)
      BY <1>3, <2>1, ConcatFacts
    <2> QED BY <2>2 DEF Texts
  <1> DEFINE Upto(i) == {opts[j] : j \in 1..i}
             Good(i) == \A y \in OptionText : Between(f[i] \o y) = Upto(i) \cup {y}
             S == {i \in 0..n : i < n => Good(i)}
  <1>6. 0 \in S
    <2>1. Upto(0) = {}
      OBVIOUS
    <2>2. ASSUME NEW y \in OptionText PROVE Between(f[0] \o y) = {y}
      <3>1. y \in Texts /\ \A i \in DOMAIN y : y[i] # Comma
        BY DEF OptionText
      <3>2. f[0] \o y = y
        BY <1>5, <3>1, ConcatEmptySeq DEF Texts
      <3>3. Between(y) = {trim_ows(y)}
        BY <3>1, BetweenOne
      <3> QED BY <3>2, <3>3, TrimOption
    <2> HIDE DEF Upto
    <2>3. Good(0)
      BY <2>1, <2>2
    <2> HIDE DEF Good
    <2> QED BY <1>1, <2>3
  <1>7. ASSUME NEW i \in 1..n, i - 1 \in S PROVE i \in S
    <2> SUFFICES ASSUME i < n PROVE Good(i)
      BY <1>1
    <2>1. i - 1 \in 0..n /\ i - 1 < n /\ i # n
      BY <1>1
    <2>2. Good(i - 1)
      <3> HIDE DEF Good
      <3> QED BY <1>7, <2>1
    <2>3. f[i] = f[i - 1] \o (opts[i] \o Separator)
      BY <1>4, <1>5, <2>1
    <2>4. f[i - 1] \in Texts /\ opts[i] \in OptionText
      BY <1>1, <1>5, <2>1
    <2>5. Upto(i) = Upto(i - 1) \cup {opts[i]}
      <3>1. \A j \in 1..i : j \in 1..(i - 1) \/ j = i
        BY <1>1
      <3>2. i \in 1..i /\ \A j \in 1..(i - 1) : j \in 1..i
        BY <1>1
      <3> QED BY <3>1, <3>2
    <2> HIDE DEF Upto
    <2>6. ASSUME NEW y \in OptionText PROVE Between(f[i] \o y) = Upto(i) \cup {y}
      <3>1. Between((f[i - 1] \o (opts[i] \o Separator)) \o y) = Between(f[i - 1] \o opts[i]) \cup {y}
        BY <2>4, OneMoreOption
      <3>2. Between(f[i - 1] \o opts[i]) = Upto(i - 1) \cup {opts[i]}
        BY <2>2, <2>4
      <3> QED BY <2>3, <2>5, <3>1, <3>2
    <2> QED BY <2>6
  <1> HIDE DEF S
  <1>8. n - 1 \in 0..n /\ n - 1 < n /\ n \in 1..n /\ n \in 0..n
    BY <1>1
  <1>9. \A i \in 0..n : i \in S
    BY <1>1, <1>6, <1>7, UpTo
  <1>10. Good(n - 1)
    <2> HIDE DEF Good
    <2> QED BY <1>8, <1>9 DEF S
  <1> HIDE DEF S
  <1>11. f[n] = f[n - 1] \o opts[n] /\ f[n] \in Texts /\ f[n - 1] \in Texts
         /\ opts[n] \in OptionText /\ opts[n] \in Texts
    BY <1>1, <1>4, <1>5, <1>8
  <1>12. Between(f[n]) = {opts[j] : j \in DOMAIN opts}
    <2>1. Between(f[n]) = Upto(n - 1) \cup {opts[n]}
      BY <1>10, <1>11
    <2>2. \A j \in 1..n : j \in 1..(n - 1) \/ j = n
      BY <1>1
    <2>3. \A j \in 1..(n - 1) : j \in 1..n
      BY <1>1
    <2> QED BY <1>1, <1>8, <2>1, <2>2, <2>3
  <1>13. ASSUME \A j \in DOMAIN opts : Clean(opts[j]) PROVE Clean(f[n]) /\ Trimmed(f[n])
    <2> DEFINE Begun(i) == Clean(f[i]) /\ (i # 0 => f[i] # <<>> /\ f[i][1] # "ows")
               R == {i \in 0..n : Begun(i)}
    <2>1. 0 \in R
      <3>1. Clean(<<>>)
        BY DEF Clean
      <3> QED BY <1>1, <1>5, <3>1
    <2>2. Clean(Separator)
      <3>1. DOMAIN Separator = 1..2 /\ Comma # "ctl"
        <4>1. Comma # "ctl"
          BY Zenon DEF Comma
        <4>2. DOMAIN Separator = 1..Len(Separator)
          BY SeparatorFacts DEF Texts
        <4> QED BY <4>1, <4>2, SeparatorFacts
      <3>2. ASSUME NEW i \in 1..2 PROVE Separator[i] # "ctl"
        <4>1. i = 1 \/ i = 2
          OBVIOUS
        <4> QED BY <3>1, <4>1, SeparatorFacts
      <3> QED BY <3>1, <3>2 DEF Clean
    <2>3. ASSUME NEW i \in 1..n PROVE w[i] \in Texts /\ Clean(w[i]) /\ w[i] # <<>> /\ w[i][1] # "ows"
      <3>1. opts[i] \in Texts /\ Clean(opts[i]) /\ opts[i] # <<>> /\ opts[i][1] # "ows"
        BY <1>1, <1>13 DEF OptionText, Trimmed
      <3>2. Len(opts[i]) \in Nat /\ Len(opts[i]) # 0
        BY <3>1, EmptySeq DEF Texts
      <3> DEFINE c == opts[i] \o Separator
      <3>3. c \in Texts /\ Len(c) = Len(opts[i]) + 2 /\ c[1] = opts[i][1]
        <4>1. /\ c \in Texts /\ Len(c) = Len(opts[i]) + Len(Separator)
              /\ \A j \in 1..Len(opts[i]) : c[j] = opts[i][j]
          BY <3>1, SeparatorFacts, TwoTexts
        <4> HIDE DEF c
        <4>2. 1 \in 1..Len(opts[i])
          BY <3>2
        <4> QED BY <4>1, <4>2, SeparatorFacts
      <3>4. Clean(c)
        BY <2>2, <3>1, SeparatorFacts, TwoClean
      <3> HIDE DEF c
      <3>5. c # <<>>
        <4>1. Len(c) # 0
          BY <3>2, <3>3
        <4> QED BY <3>3, <4>1, EmptySeq DEF Texts
      <3>6. w[i] = opts[i] \/ w[i] = c
        BY <1>4 DEF c
      <3> QED BY <3>1, <3>3, <3>4, <3>5, <3>6
    <2>4. ASSUME NEW i \in 1..n, i - 1 \in R PROVE i \in R
      <3> DEFINE s == f[i - 1]
                 t == w[i]
                 c == s \o t
      <3>1. i - 1 \in 0..n /\ i \in 0..n /\ f[i] = c /\ s \in Texts /\ t \in Texts
            /\ Clean(s) /\ Clean(t) /\ t # <<>> /\ t[1] # "ows"
            /\ (i - 1 # 0 => s # <<>> /\ s[1] # "ows")
        <4>1. i - 1 \in 0..n /\ i \in 0..n
          BY <1>1
        <4>2. f[i] = c /\ s \in Texts
          BY <1>5, <4>1
        <4>3. Begun(i - 1)
          BY <2>4
        <4> QED BY <2>3, <4>1, <4>2, <4>3
      <3>2. i - 1 = 0 => s = <<>>
        BY <1>5
      <3> HIDE DEF s, t
      <3>3. /\ c \in Texts /\ Len(s) \in Nat /\ Len(t) \in Nat /\ Len(c) = Len(s) + Len(t)
            /\ \A j \in 1..Len(s) : c[j] = s[j]
            /\ \A j \in 1..Len(t) : c[Len(s) + j] = t[j]
        BY <3>1, TwoTexts
      <3>4. Clean(c)
        BY <3>1, TwoClean
      <3> HIDE DEF c
      <3>5. Len(t) # 0
        BY <3>1, EmptySeq DEF Texts
      <3>6. c # <<>>
        <4>1. Len(c) # 0
          BY <3>3, <3>5
        <4> QED BY <3>3, <4>1, EmptySeq DEF Texts
      <3>7. c[1] # "ows"
        <4>1. CASE i - 1 = 0
          <5>1. Len(s) = 0
            BY <3>2, <4>1, EmptySeq
          <5>2. 1 \in 1..Len(t) /\ Len(s) + 1 = 1
            BY <3>3, <3>5, <5>1
          <5> QED BY <3>1, <3>3, <5>2
        <4>2. CASE i - 1 # 0
          <5>1. Len(s) # 0
            BY <3>1, <4>2, EmptySeq DEF Texts
          <5>2. 1 \in 1..Len(s)
            BY <3>3, <5>1
          <5> QED BY <3>1, <3>3, <4>2, <5>2
        <4> QED BY <4>1, <4>2
      <3> QED BY <3>1, <3>4, <3>6, <3>7
    <2> HIDE DEF R
    <2>5. n \in R
      BY <1>1, <1>8, <2>1, <2>4, UpTo
    <2>6. Clean(f[n]) /\ f[n] # <<>> /\ f[n][1] # "ows"
      BY <1>1, <2>5 DEF R
    <2>7. f[n][Len(f[n])] # "ows"
      <3> DEFINE s == f[n - 1]
                 t == opts[n]
                 c == s \o t
      <3>1. t # <<>> /\ t[Len(t)] # "ows"
        BY <1>11 DEF OptionText, Trimmed
      <3>2. /\ c \in Texts /\ Len(s) \in Nat /\ Len(t) \in Nat /\ Len(c) = Len(s) + Len(t)
            /\ \A j \in 1..Len(t) : c[Len(s) + j] = t[j]
        BY <1>11, TwoTexts
      <3>3. t \in Texts /\ f[n] = c
        BY <1>11
      <3> HIDE DEF s, t, c
      <3>4. Len(t) # 0
        BY <3>1, <3>3, EmptySeq DEF Texts
      <3>5. Len(t) \in 1..Len(t)
        BY <3>2, <3>4
      <3> QED BY <3>1, <3>2, <3>3, <3>5
    <2> QED BY <2>6, <2>7 DEF Trimmed
  <1> QED BY <1>2, <1>5, <1>11, <1>12, <1>13

----------------------------------------------------------------------------
(* FieldList, instantiated, computes with the operators of Syntax.          *)
LEMMA SameSelected ==
    ASSUME NEW s, NEW set
    PROVE  Abstract!Selected(s, set) = Selected(s, set) /\ List!Selected(s, set) = Selected(s, set)
  BY Zenon DEF Abstract!Selected, List!Selected, Selected, Abstract!InOrder, List!InOrder, InOrder

(* It knows the same tokens.                                               *)
LEMMA SameToken ==
    ASSUME NEW s
    PROVE  Abstract!IsToken(s) <=> IsToken(s)
  BY Zenon DEF Abstract!IsToken, IsToken, Abstract!TokenBytes, TokenBytes, Abstract!Digit, Digit

(* And both instances find the same options.                                *)
LEMMA SameOptions ==
    ASSUME NEW fields
    PROVE  List!Options(fields) = Abstract!Options(fields)
  BY Zenon DEF Abstract!Options, List!Options, Abstract!NotConnection, List!NotConnection,
               Abstract!elements, List!elements, Abstract!SplitStep, List!SplitStep,
               Abstract!Pieces, List!Pieces, Abstract!trim_ows, List!trim_ows,
               Abstract!InOrder, List!InOrder

----------------------------------------------------------------------------
(* set_connection_option.  The name of the field.                           *)
ConnectionName == <<"connection">>

(* A name of one symbol.                                                    *)
LEMMA NameOfOne ==
    ASSUME NEW s \in TokenBytes
    PROVE  <<s>> \in Texts /\ Abstract!valid_name(<<s>>)
  <1>1. s \in Symbols
    BY Zenon DEF Symbols
  <1>2. <<s>> \in Seq(Symbols)
    BY <1>1
  <1>3. <<s>> # <<>> /\ \A i \in DOMAIN <<s>> : <<s>>[i] \in TokenBytes
    OBVIOUS
  <1> QED BY <1>2, <1>3, SameToken DEF Texts, Abstract!valid_name, IsToken

(* Connection is one.                                                       *)
LEMMA ConnectionIsName == ConnectionName \in Texts /\ Abstract!valid_name(ConnectionName)
  <1>1. "connection" \in TokenBytes
    BY Zenon DEF TokenBytes
  <1> QED BY <1>1, NameOfOne DEF ConnectionName

(* An option of one symbol.                                                 *)
LEMMA OptionOfOne ==
    ASSUME NEW s \in Symbols, s # "ows", s # "ctl", s # Comma
    PROVE  <<s>> \in OptionText /\ Clean(<<s>>)
  <1>1. <<s>> \in Seq(Symbols) /\ <<s>> # <<>> /\ Len(<<s>>) = 1 /\ <<s>>[1] = s /\ DOMAIN <<s>> = {1}
    OBVIOUS
  <1> QED BY <1>1 DEF OptionText, Texts, Trimmed, Clean

(* close and keep-alive are.                                                *)
LEMMA PersistenceIsOption ==
    ASSUME NEW option \in Abstract!Persistence
    PROVE  option \in OptionText /\ Clean(option)
  <1>1. /\ "close" \in Symbols /\ "close" # "ows" /\ "close" # "ctl" /\ "close" # Comma
        /\ "keep-alive" \in Symbols /\ "keep-alive" # "ows" /\ "keep-alive" # "ctl" /\ "keep-alive" # Comma
    BY Zenon DEF Symbols, TokenBytes, Comma
  <1>2. <<"close">> \in OptionText /\ Clean(<<"close">>)
    BY <1>1, OptionOfOne, Zenon
  <1>3. <<"keep-alive">> \in OptionText /\ Clean(<<"keep-alive">>)
    BY <1>1, OptionOfOne, Zenon
  <1> QED BY <1>2, <1>3, Zenon DEF Abstract!Persistence

(* The options of the Connection fields, as texts between commas.           *)
LEMMA OptionsBetween ==
    ASSUME NEW l \in Seq(Pairs)
    PROVE  Abstract!Options(l) =
             {x \in Texts : /\ x # <<>>
                            /\ \E i \in DOMAIN l : l[i][1] = ConnectionName /\ x \in Between(l[i][2])}
  <1>1. ASSUME NEW i \in DOMAIN l
        PROVE  /\ l[i][2] \in Texts
               /\ {elements(l[i][2], FALSE)[j] : j \in DOMAIN elements(l[i][2], FALSE)} = Between(l[i][2])
               /\ Abstract!NotConnection(l[i]) <=> l[i][1] # ConnectionName
    <2>1. l[i][2] \in Texts
      BY DEF Pairs
    <2>2. Abstract!NotConnection(l[i]) <=> l[i][1] # ConnectionName
      BY Zenon DEF Abstract!NotConnection, ConnectionName
    <2> DEFINE e == elements(l[i][2], FALSE)
    <2>3. /\ \A j \in DOMAIN e : e[j] \in Between(l[i][2])
          /\ \A x \in Between(l[i][2]) : \E j \in DOMAIN e : e[j] = x
      BY <2>1, ElementsAreBetween
    <2> HIDE DEF e
    <2>4. {e[j] : j \in DOMAIN e} = Between(l[i][2])
      BY <2>3
    <2> QED BY <2>1, <2>2, <2>4 DEF e
  <1> DEFINE found(i) == {elements(l[i][2], FALSE)[j] : j \in DOMAIN elements(l[i][2], FALSE)}
             con == {i \in DOMAIN l : ~Abstract!NotConnection(l[i])}
  <1>2. Abstract!Options(l) = UNION {found(i) \ {<<>>} : i \in con}
    BY Zenon DEF Abstract!Options, Abstract!elements, elements, Abstract!SplitStep, SplitStep,
                 Abstract!Pieces, Pieces, Abstract!trim_ows, trim_ows, Abstract!InOrder, InOrder
  <1>3. \A i \in DOMAIN l : Between(l[i][2]) \subseteq Texts
    BY Zenon DEF Between
  <1>4. \A i : i \in con <=> i \in DOMAIN l /\ l[i][1] = ConnectionName
    BY <1>1
  <1>5. \A i \in con : found(i) = Between(l[i][2])
    BY <1>1, <1>4
  <1> HIDE DEF found, con
  <1>6. ASSUME NEW x
        PROVE  x \in Abstract!Options(l) <=> x # <<>> /\ \E i \in con : x \in Between(l[i][2])
    BY <1>2, <1>5
  <1> QED BY <1>3, <1>4, <1>6

(* One Connection field is left, with the other options and the new one.    *)
LEMMA SetOptionLists ==
    ASSUME NEW h, Intact(h), NEW option \in Abstract!Persistence,
           NEW d, d = set_connection_option(h, option)
    PROVE  /\ Intact(d) /\ iter(d) # <<>>
           /\ SubSeq(iter(d), 1, Len(iter(d)) - 1)
                = Selected(iter(h), {i \in DOMAIN iter(h) : Abstract!NotConnection(iter(h)[i])})
           /\ ~Abstract!NotConnection(iter(d)[Len(iter(d))])
           /\ Abstract!Options(iter(d)) = (Abstract!Options(iter(h)) \ Abstract!Persistence) \cup {option}
           /\ Abstract!AllValid(iter(h)) => Abstract!AllValid(iter(d))
  <1> DEFINE l == iter(h)
             P == Abstract!Persistence
             con == {i \in DOMAIN l : l[i][1] = ConnectionName}
             lines == Selected(l, con)
             seqs == [i \in DOMAIN lines |-> elements(lines[i][2], FALSE)]
             found == Concat(seqs)
             chosen == {i \in DOMAIN found : found[i] \notin P \cup {<<>>}}
             others == Selected(found, chosen)
             opts == Append(others, option)
             value == Join(opts)
             keep == {l[i] : i \in DOMAIN l \ con}
             r == retain(h, keep)
             rest == {i \in DOMAIN l : Abstract!NotConnection(l[i])}
  <1>1. d = push(r, ConnectionName, value)
    BY Zenon DEF set_connection_option, ConnectionName
  <1>2. l \in Seq(Pairs) /\ DOMAIN l = 1..Len(l) /\ Len(l) \in Nat
    <2>1. h \in HeadersType /\ \A i \in DOMAIN h.fields : Within(h.fields[i], Len(h.bytes))
      BY DEF Intact
    <2>2. l \in Seq(Pairs)
      BY <2>1, IterTyped
    <2> HIDE DEF l
    <2> QED BY <2>2
  <1> HIDE DEF P, l
  <1>3. \A i \in DOMAIN l : l[i][1] \in Texts /\ l[i][2] \in Texts
    BY <1>2 DEF Pairs
  <1>4. /\ lines \in Seq(Pairs)
        /\ \A j \in DOMAIN lines : \E i \in con : lines[j] = l[i]
        /\ \A i \in con : \E j \in DOMAIN lines : lines[j] = l[i]
    <2>1. con \cap DOMAIN l = con
      OBVIOUS
    <2> HIDE DEF con
    <2>2. /\ lines \in Seq(Pairs)
          /\ \A j \in DOMAIN lines :
                InOrder(l, con)[j] \in con \cap DOMAIN l /\ lines[j] = l[InOrder(l, con)[j]]
          /\ \A i \in con \cap DOMAIN l : \E j \in DOMAIN lines : lines[j] = l[i]
      BY <1>2, SelectedFacts
    <2> HIDE DEF lines
    <2> QED BY <2>1, <2>2
  <1> HIDE DEF con, lines
  <1>5. \A j \in DOMAIN lines : lines[j][2] \in Texts
    BY <1>4 DEF Pairs
  <1>6. seqs \in Seq(Seq(Texts)) /\ DOMAIN seqs = DOMAIN lines
    <2>1. \A j \in DOMAIN lines : elements(lines[j][2], FALSE) \in Seq(Texts)
      BY <1>5, ElementsAreBetween
    <2>2. DOMAIN lines = 1..Len(lines) /\ Len(lines) \in Nat
      BY <1>4
    <2>3. seqs \in [1..Len(lines) -> Seq(Texts)]
      BY <2>1, <2>2
    <2> HIDE DEF seqs
    <2>4. seqs \in Seq(Seq(Texts))
      BY <2>2, <2>3, IsASeq
    <2> QED BY <2>2, <2>3, <2>4
  <1>7. \A j \in DOMAIN lines : seqs[j] = elements(lines[j][2], FALSE)
    OBVIOUS
  <1> HIDE DEF seqs
  <1>8. /\ found \in Seq(Texts)
        /\ \A j \in DOMAIN found : \E i \in DOMAIN seqs : \E m \in DOMAIN seqs[i] : found[j] = seqs[i][m]
        /\ \A i \in DOMAIN seqs : \A m \in DOMAIN seqs[i] : \E j \in DOMAIN found : found[j] = seqs[i][m]
    BY <1>6, ConcatMembers
  <1> HIDE DEF found
  <1>9. \A x : (\E j \in DOMAIN found : found[j] = x) <=>
               \E i \in DOMAIN l : l[i][1] = ConnectionName /\ x \in Between(l[i][2])
    <2> SUFFICES ASSUME NEW x
                 PROVE  (\E j \in DOMAIN found : found[j] = x) <=>
                          \E i \in DOMAIN l : l[i][1] = ConnectionName /\ x \in Between(l[i][2])
      OBVIOUS
    <2>1. ASSUME NEW j \in DOMAIN found, found[j] = x
          PROVE  \E i \in DOMAIN l : l[i][1] = ConnectionName /\ x \in Between(l[i][2])
      <3>9. PICK a \in DOMAIN seqs : \E m \in DOMAIN seqs[a] : found[j] = seqs[a][m]
        BY <1>8
      <3>1. PICK m \in DOMAIN seqs[a] : found[j] = seqs[a][m]
        BY <3>9
      <3>2. a \in DOMAIN lines /\ seqs[a] = elements(lines[a][2], FALSE) /\ lines[a][2] \in Texts
        BY <1>5, <1>6, <1>7
      <3>3. seqs[a][m] \in Between(lines[a][2])
        BY <3>2, ElementsAreBetween
      <3>4. PICK i \in con : lines[a] = l[i]
        BY <1>4, <3>2
      <3> QED BY <2>1, <3>1, <3>3, <3>4 DEF con
    <2>2. ASSUME NEW i \in DOMAIN l, l[i][1] = ConnectionName, x \in Between(l[i][2])
          PROVE  \E j \in DOMAIN found : found[j] = x
      <3>1. i \in con
        BY <2>2 DEF con
      <3>2. PICK a \in DOMAIN lines : lines[a] = l[i]
        BY <1>4, <3>1
      <3>3. a \in DOMAIN seqs /\ seqs[a] = elements(l[i][2], FALSE) /\ l[i][2] \in Texts
        BY <1>3, <1>6, <1>7, <3>2
      <3>4. PICK m \in DOMAIN elements(l[i][2], FALSE) : elements(l[i][2], FALSE)[m] = x
        BY <2>2, <3>3, ElementsAreBetween
      <3>5. m \in DOMAIN seqs[a] /\ seqs[a][m] = x
        BY <3>3, <3>4
      <3> QED BY <1>8, <3>3, <3>5
    <2> QED BY <2>1, <2>2
  <1>10. /\ others \in Seq(Texts)
         /\ \A x : (\E j \in DOMAIN others : others[j] = x) <=>
                   x \notin P \cup {<<>>} /\ \E j \in DOMAIN found : found[j] = x
    <2>1. chosen \cap DOMAIN found = chosen
      OBVIOUS
    <2>2. \A i \in DOMAIN found : i \in chosen <=> found[i] \notin P \cup {<<>>}
      OBVIOUS
    <2> HIDE DEF chosen
    <2>3. /\ others \in Seq(Texts)
          /\ \A j \in DOMAIN others :
                /\ InOrder(found, chosen)[j] \in chosen \cap DOMAIN found
                /\ others[j] = found[InOrder(found, chosen)[j]]
          /\ \A i \in chosen \cap DOMAIN found : \E j \in DOMAIN others : others[j] = found[i]
      BY <1>8, SelectedFacts
    <2> HIDE DEF others
    <2> QED BY <2>1, <2>2, <2>3
  <1> HIDE DEF others, chosen
  <1>11. ASSUME NEW j \in DOMAIN others
         PROVE  others[j] \in OptionText /\ (Abstract!AllValid(l) => Clean(others[j]))
    <2> DEFINE x == others[j]
    <2>1. x # <<>> /\ \E i \in DOMAIN l : l[i][1] = ConnectionName /\ x \in Between(l[i][2])
      BY <1>9, <1>10
    <2> HIDE DEF x
    <2>2. PICK i \in DOMAIN l : l[i][1] = ConnectionName /\ x \in Between(l[i][2])
      BY <2>1
    <2>3. l[i][2] \in Texts
      BY <1>3
    <2>4. x \in OptionText /\ (Clean(l[i][2]) => Clean(x))
      BY <2>1, <2>2, <2>3, BetweenAreOptions DEF Clean
    <2>5. Abstract!AllValid(l) => Clean(l[i][2])
      BY DEF Abstract!AllValid, Abstract!valid_value, Clean
    <2> QED BY <2>4, <2>5 DEF x
  <1>12. option \in OptionText /\ Clean(option)
    BY PersistenceIsOption
  <1>13. others \in Seq(OptionText)
    <2>1. DOMAIN others = 1..Len(others) /\ Len(others) \in Nat
      BY <1>10
    <2>2. others = [j \in 1..Len(others) |-> others[j]]
      BY <1>10
    <2>3. others \in [1..Len(others) -> OptionText]
      BY <1>11, <2>1, <2>2
    <2> QED BY <2>1, <2>3, IsASeq
  <1>14. /\ opts \in Seq(OptionText) /\ Len(opts) = Len(others) + 1 /\ Len(others) \in Nat
         /\ opts[Len(others) + 1] = option /\ \A j \in 1..Len(others) : opts[j] = others[j]
    BY <1>12, <1>13, AppendProperties
  <1> HIDE DEF opts
  <1>15. opts # <<>> /\ DOMAIN opts = 1..(Len(others) + 1) /\ DOMAIN others = 1..Len(others)
    <2>1. Len(opts) # 0
      BY <1>14
    <2> QED BY <1>13, <1>14, <2>1, EmptySeq
  <1>16. \A j \in DOMAIN opts : j \in DOMAIN others \/ j = Len(others) + 1
    BY <1>14, <1>15
  <1>17. /\ value \in Texts /\ Between(value) = {opts[j] : j \in DOMAIN opts}
         /\ (\A j \in DOMAIN opts : Clean(opts[j])) => Clean(value) /\ Trimmed(value)
    BY <1>14, <1>15, JoinLists
  <1> HIDE DEF value
  <1>18. \A x : x \in Between(value) <=> x = option \/ \E j \in DOMAIN others : others[j] = x
    <2>1. \A j \in DOMAIN others : j \in DOMAIN opts /\ opts[j] = others[j]
      BY <1>14, <1>15
    <2>2. Len(others) + 1 \in DOMAIN opts
      BY <1>14, <1>15
    <2>3. ASSUME NEW x, x \in Between(value) PROVE x = option \/ \E j \in DOMAIN others : others[j] = x
      <3>1. PICK j \in DOMAIN opts : x = opts[j]
        BY <1>17, <2>3
      <3> QED BY <1>14, <1>16, <2>1, <3>1
    <2>4. option \in Between(value)
      BY <1>14, <1>17, <2>2
    <2>5. ASSUME NEW j \in DOMAIN others PROVE others[j] \in Between(value)
      BY <1>17, <2>1
    <2> QED BY <2>3, <2>4, <2>5
  <1>19. Intact(r) /\ iter(r) = Selected(l, {i \in DOMAIN l : l[i] \in keep})
    BY RetainSelects DEF l
  <1>20. {i \in DOMAIN l : l[i] \in keep} = rest
    <2>1. \A i \in DOMAIN l : i \in con <=> l[i][1] = ConnectionName
      BY DEF con
    <2>2. \A i \in DOMAIN l : Abstract!NotConnection(l[i]) <=> l[i][1] # ConnectionName
      BY Zenon DEF Abstract!NotConnection, ConnectionName
    <2>3. ASSUME NEW i \in DOMAIN l PROVE l[i] \in keep <=> l[i][1] # ConnectionName
      <3>1. ASSUME l[i] \in keep PROVE l[i][1] # ConnectionName
        <4>1. PICK j \in DOMAIN l \ con : l[i] = l[j]
          BY <3>1
        <4> QED BY <2>1, <4>1
      <3>2. ASSUME l[i][1] # ConnectionName PROVE l[i] \in keep
        <4>1. i \in DOMAIN l \ con
          BY <2>1, <3>2
        <4> QED BY <4>1
      <3> QED BY <3>1, <3>2
    <2> HIDE DEF keep
    <2> QED BY <2>2, <2>3
  <1> DEFINE kept == Selected(l, rest)
  <1>21. iter(r) = kept
    BY <1>19, <1>20
  <1>22. /\ kept \in Seq(Pairs)
         /\ \A j \in DOMAIN kept : \E i \in DOMAIN l : kept[j] = l[i] /\ Abstract!NotConnection(l[i])
    <2>1. \A i \in rest : i \in DOMAIN l /\ Abstract!NotConnection(l[i])
      OBVIOUS
    <2> HIDE DEF rest
    <2>2. /\ kept \in Seq(Pairs)
          /\ \A j \in DOMAIN kept :
                InOrder(l, rest)[j] \in rest \cap DOMAIN l /\ kept[j] = l[InOrder(l, rest)[j]]
      BY <1>2, SelectedFacts
    <2> HIDE DEF kept
    <2> QED BY <2>1, <2>2
  <1> HIDE DEF r, keep, rest, kept
  <1> DEFINE e == iter(d)
             last == <<ConnectionName, value>>
  <1>23. Intact(d) /\ e = Append(kept, last)
    BY <1>1, <1>17, <1>19, <1>21, ConnectionIsName, PushAppends
  <1>24. last \in Pairs /\ last[1] = ConnectionName /\ last[2] = value
    BY <1>17, ConnectionIsName DEF Pairs
  <1> HIDE DEF e, last
  <1> DEFINE n == Len(kept)
  <1>25. /\ e \in Seq(Pairs) /\ Len(e) = n + 1 /\ n \in Nat
         /\ e[n + 1] = last /\ \A j \in 1..n : e[j] = kept[j]
         /\ DOMAIN kept = 1..n
    BY <1>22, <1>23, <1>24, AppendProperties
  <1> HIDE DEF n
  <1>26. /\ e # <<>> /\ DOMAIN e = 1..(n + 1) /\ n + 1 \in DOMAIN e
         /\ \A j \in DOMAIN e : j \in DOMAIN kept \/ j = n + 1
    <2>1. Len(e) # 0
      BY <1>25
    <2> QED BY <1>25, <2>1, EmptySeq
  <1>27. SubSeq(e, 1, Len(e) - 1) = kept
    <2> DEFINE s == SubSeq(e, 1, n)
    <2>1. Len(e) - 1 = n /\ n \in Int
      BY <1>25
    <2>2. /\ s \in Seq(Pairs) /\ Len(s) = IF 1 <= n THEN n - 1 + 1 ELSE 0
          /\ \A i \in 1..(n - 1 + 1) : s[i] = e[1 + i - 1]
      <3>1. \A i \in 1..n : e[i] \in Pairs
        BY <1>25
      <3> QED BY <2>1, <3>1, SubSeqProperties
    <2> HIDE DEF s
    <2>3. Len(s) = n
      BY <1>25, <2>2
    <2>4. ASSUME NEW i \in 1..n PROVE s[i] = kept[i]
      <3>1. n - 1 + 1 = n /\ 1 + i - 1 = i
        BY <1>25
      <3> QED BY <1>25, <2>2, <3>1
    <2>5. s = kept
      BY <1>22, <2>2, <2>3, <2>4, SeqEqual DEF n
    <2> QED BY <2>1, <2>5 DEF s
  <1>28. ~Abstract!NotConnection(e[Len(e)])
    BY <1>24, <1>25 DEF Abstract!NotConnection, ConnectionName
  <1>29. ASSUME NEW x
         PROVE  (\E i \in DOMAIN e : e[i][1] = ConnectionName /\ x \in Between(e[i][2]))
                  <=> x \in Between(value)
    <2>1. ASSUME NEW i \in DOMAIN kept PROVE i \in DOMAIN e => e[i][1] # ConnectionName
      <3>1. PICK j \in DOMAIN l : kept[i] = l[j] /\ Abstract!NotConnection(l[j])
        BY <1>22
      <3>2. l[j][1] # ConnectionName
        BY <3>1, Zenon DEF Abstract!NotConnection, ConnectionName
      <3>3. e[i] = kept[i]
        BY <1>25
      <3> QED BY <3>1, <3>2, <3>3
    <2>2. e[n + 1][1] = ConnectionName /\ e[n + 1][2] = value
      BY <1>24, <1>25
    <2> QED BY <1>26, <2>1, <2>2
  <1>30. Abstract!Options(e) = (Abstract!Options(l) \ P) \cup {option}
    <2>1. Abstract!Options(e) = {x \in Texts : x # <<>> /\ x \in Between(value)}
      <3>1. Abstract!Options(e) =
              {x \in Texts : /\ x # <<>>
                             /\ \E i \in DOMAIN e : e[i][1] = ConnectionName /\ x \in Between(e[i][2])}
        BY <1>25, OptionsBetween
      <3> QED BY <1>29, <3>1
    <2>2. Abstract!Options(l) = {x \in Texts : x # <<>> /\ \E j \in DOMAIN found : found[j] = x}
      <3>1. Abstract!Options(l) =
              {x \in Texts : /\ x # <<>>
                             /\ \E i \in DOMAIN l : l[i][1] = ConnectionName /\ x \in Between(l[i][2])}
        BY <1>2, OptionsBetween
      <3> QED BY <1>9, <3>1
    <2>3. option \in Texts /\ option # <<>>
      BY <1>12 DEF OptionText
    <2>4. ASSUME NEW x PROVE x \in Abstract!Options(e) <=> x \in (Abstract!Options(l) \ P) \cup {option}
      <3>1. x \in Abstract!Options(e) <=>
               x \in Texts /\ x # <<>> /\ (x = option \/ \E j \in DOMAIN others : others[j] = x)
        BY <1>18, <2>1
      <3>2. (\E j \in DOMAIN others : others[j] = x) <=>
               x \notin P \cup {<<>>} /\ \E j \in DOMAIN found : found[j] = x
        BY <1>10
      <3> QED BY <2>2, <2>3, <3>1, <3>2
    <2> QED BY <2>4
  <1>31. ASSUME Abstract!AllValid(l) PROVE Abstract!AllValid(e)
    <2>1. \A j \in DOMAIN opts : Clean(opts[j])
      BY <1>11, <1>12, <1>14, <1>15, <1>16, <1>31
    <2>2. Clean(value) /\ Trimmed(value)
      BY <1>17, <2>1
    <2>3. Abstract!valid_value(value)
      BY <2>2 DEF Clean, Trimmed, Abstract!valid_value
    <2>4. ASSUME NEW j \in DOMAIN e PROVE Abstract!valid_name(e[j][1]) /\ Abstract!valid_value(e[j][2])
      <3>1. CASE j = n + 1
        BY <1>24, <1>25, <2>3, <3>1, ConnectionIsName
      <3>2. CASE j # n + 1
        <4>1. j \in DOMAIN kept /\ e[j] = kept[j]
          BY <1>25, <1>26, <3>2
        <4>2. PICK i \in DOMAIN l : kept[j] = l[i]
          BY <1>22, <4>1
        <4> QED BY <1>31, <4>1, <4>2 DEF Abstract!AllValid
      <3> QED BY <3>1, <3>2
    <2> QED BY <2>4 DEF Abstract!AllValid
  <1> QED BY <1>23, <1>26, <1>27, <1>28, <1>30, <1>31 DEF e, l, P, kept, rest

----------------------------------------------------------------------------
(* The cached validity and the fields agree.                                *)
LEMMA ValidityIsExact ==
    ASSUME NEW h, Intact(h)
    PROVE  is_valid(h) <=> Abstract!AllValid(iter(h))
  BY DEF Intact, is_valid

(* FieldList's view of the state after a call.                              *)
LEMMA ViewOfNext ==
    /\ iter(headers)' = iter(headers')
    /\ is_valid(headers)' = is_valid(headers')
    /\ serialize_request(iter(headers), host_at(iter(headers)))'
         = serialize_request(iter(headers'), host_at(iter(headers')))
  BY Zenon DEF iter, Slice, is_valid, Abstract!AllValid, Abstract!valid_name, Abstract!valid_value,
               Abstract!IsToken, Abstract!TokenBytes, Abstract!Digit,
               serialize_request, host_at, Selected, InOrder

(* Each call is one of FieldList's.                                         *)
LEMMA CallsAreFieldLists ==
    ASSUME Intact(headers), Next
    PROVE  Intact(headers') /\ List!Next
  <1> DEFINE h == headers
             d == headers'
             l == iter(h)
             m == iter(d)
  <1>1. l \in Seq(Pairs)
    BY IterTyped DEF Intact
  <1>2. ASSUME Intact(d)
        PROVE  /\ is_valid(headers)' = List!AllValid(iter(headers)')
               /\ List!HostFirst(iter(headers)', serialize_request(iter(headers), host_at(iter(headers)))')
    <2>1. m \in Seq(Pairs)
      BY <1>2, IterTyped DEF Intact
    <2>2. Abstract!HostFirst(m, serialize_request(m, host_at(m)))
      BY <2>1, HostIsFirst
    <2>3. List!HostFirst(m, serialize_request(m, host_at(m)))
      BY <2>2, Zenon DEF Abstract!HostFirst, List!HostFirst
    <2>4. is_valid(d) <=> Abstract!AllValid(m)
      BY <1>2, ValidityIsExact
    <2>5. List!AllValid(m) <=> Abstract!AllValid(m)
      BY Zenon DEF Abstract!AllValid, List!AllValid, Abstract!valid_name, List!valid_name,
                   Abstract!valid_value, List!valid_value, Abstract!IsToken, List!IsToken,
                   Abstract!TokenBytes, List!TokenBytes, Abstract!Digit, List!Digit
    <2>6. is_valid(d) = List!AllValid(m)
      BY <2>4, <2>5, Zenon DEF is_valid, List!AllValid
    <2> QED BY <2>3, <2>6, ViewOfNext, Zenon
  <1>3. ASSUME NEW section \in Sections, Receive(section)
        PROVE  Intact(d) /\ List!Receive(section)
    <2>1. section \in Seq(Pairs)
      BY HeadersAssumption DEF Pairs, Texts
    <2>2. Intact(d) /\ m = section
      BY <1>3, <2>1, ReceiveLists DEF Receive
    <2> QED BY <2>2, ViewOfNext, Zenon DEF List!Receive
  <1>4. ASSUME NEW name \in Names, NEW value \in Values, Push(name, value)
        PROVE  Intact(d) /\ List!Push(name, value)
    <2>1. name \in Texts /\ value \in Texts
      BY HeadersAssumption DEF Texts
    <2>2. Intact(d) /\ m = Append(l, <<name, value>>)
      BY <1>4, <2>1, PushAppends DEF Push
    <2> QED BY <2>2, ViewOfNext, Zenon DEF List!Push, List!FieldOf
  <1>5. ASSUME NEW keep \in SUBSET {iter(headers)[i] : i \in DOMAIN headers.fields}, Retain(keep)
        PROVE  Intact(d) /\ List!Retain(keep)
    <2>1. Intact(d) /\ m = Selected(l, {i \in DOMAIN l : l[i] \in keep})
      BY <1>5, RetainSelects DEF Retain
    <2> QED BY <2>1, SameSelected, ViewOfNext, Zenon DEF List!Retain
  <1>6. ASSUME NEW option \in Abstract!Persistence, SetOption(option)
        PROVE  Intact(d) /\ List!SetOption(option)
    <2>1. /\ Intact(d) /\ m # <<>>
          /\ SubSeq(m, 1, Len(m) - 1) = Selected(l, {i \in DOMAIN l : Abstract!NotConnection(l[i])})
          /\ ~Abstract!NotConnection(m[Len(m)])
          /\ Abstract!Options(m) = (Abstract!Options(l) \ Abstract!Persistence) \cup {option}
          /\ Abstract!AllValid(l) => Abstract!AllValid(m)
      BY <1>6, SetOptionLists DEF SetOption
    <2>2. List!Options(m) = Abstract!Options(m) /\ List!Options(l) = Abstract!Options(l)
      BY SameOptions
    <2>3. is_valid(h) => is_valid(d)
      BY <2>1, ValidityIsExact
    <2>4. /\ m # <<>>
          /\ SubSeq(m, 1, Len(m) - 1) = List!Selected(l, {i \in DOMAIN l : List!NotConnection(l[i])})
          /\ ~List!NotConnection(m[Len(m)])
      BY <2>1, SameSelected, Zenon DEF Abstract!NotConnection, List!NotConnection
    <2>5. List!Options(m) = (List!Options(l) \ List!Persistence) \cup {option}
      BY <2>1, <2>2, Zenon DEF Abstract!Persistence, List!Persistence
    <2> QED BY <2>1, <2>3, <2>4, <2>5, ViewOfNext, Zenon DEF List!SetOption
  <1>7. DOMAIN iter(headers) = DOMAIN headers.fields
    BY DEF iter
  <1>8. List!Persistence = Abstract!Persistence
    BY Zenon DEF Abstract!Persistence, List!Persistence
  <1>9. CASE \E section \in Sections : Receive(section)
    BY <1>2, <1>3, <1>9, Zenon DEF List!Next
  <1>10. CASE \E name \in Names, value \in Values : Push(name, value)
    BY <1>2, <1>4, <1>10, Zenon DEF List!Next
  <1>11. CASE \E keep \in SUBSET {iter(headers)[i] : i \in DOMAIN headers.fields} : Retain(keep)
    <2>1. PICK keep \in SUBSET {iter(headers)[i] : i \in DOMAIN headers.fields} : Retain(keep)
      BY <1>11
    <2>2. keep \in SUBSET {iter(headers)[i] : i \in DOMAIN iter(headers)}
      BY <1>7
    <2> QED BY <1>2, <1>5, <2>1, <2>2, Zenon DEF List!Next
  <1>12. CASE \E option \in Abstract!Persistence : SetOption(option)
    BY <1>2, <1>6, <1>8, <1>12, Zenon DEF List!Next
  <1> QED BY <1>9, <1>10, <1>11, <1>12 DEF Next

(* What holds of the Headers of every reachable state.                      *)
LEMMA HeadersStayIntact == PySpec => []Intact(headers)
  <1>1. PyInit => Intact(headers)
    <2> SUFFICES ASSUME headers = new PROVE Intact(headers)
      BY DEF PyInit, Init
    <2>1. headers.bytes = <<>> /\ headers.fields = <<>> /\ headers \in HeadersType
      BY EmptySeq DEF new, HeadersType, Texts
    <2>2. Abstract!AllValid(iter(headers))
      BY <2>1 DEF Abstract!AllValid, iter
    <2> QED BY <2>1, <2>2 DEF Intact
  <1>2. Intact(headers) /\ [PyNext]_pyVars => Intact(headers)'
    <2> SUFFICES ASSUME Intact(headers), [PyNext]_pyVars PROVE Intact(headers)'
      OBVIOUS
    <2>1. Intact(headers)' <=> Intact(headers')
      BY Zenon DEF Intact, HeadersType, FieldRanges, Ranges, Texts, Symbols, TokenBytes, Digit, Within,
                   iter, Slice, Abstract!AllValid, Abstract!valid_name, Abstract!valid_value,
                   Abstract!IsToken, Abstract!TokenBytes, Abstract!Digit
    <2>2. CASE Change
      BY <2>1, <2>2, CallsAreFieldLists DEF Change
    <2>3. CASE headers' = headers
      BY <2>1, <2>3
    <2>4. Change \/ headers' = headers
      BY DEF PyNext, new_py, Read, Look, Build, Store, pyVars
    <2> QED BY <2>2, <2>3, <2>4
  <1> QED BY <1>1, <1>2, PTL DEF PySpec

(* One buffer, ranges into it and a cached flag are a list of fields,       *)
(* whatever sections are received, fields pushed and removed and options    *)
(* chosen, of any length and in any number: a step of Headers is a step of  *)
(* FieldList on the pairs that iter returns.                                *)
THEOREM HeadersAreFieldLists == PySpec => IsFieldList
  <1> DEFINE view == <<iter(headers), is_valid(headers),
                       serialize_request(iter(headers), host_at(iter(headers)))>>
  <1>1. PyInit => List!Init
    <2> SUFFICES ASSUME headers = new PROVE List!Init
      BY DEF PyInit, Init
    <2>1. iter(headers) = <<>>
      BY DEF new, iter
    <2>2. is_valid(headers) = TRUE
      BY Zenon DEF new, is_valid
    <2>3. serialize_request(<<>>, host_at(<<>>)) = <<>>
      <3>1. <<>> \in Seq(Pairs)
        BY EmptySeq
      <3>2. Abstract!HostFirst(<<>>, serialize_request(<<>>, host_at(<<>>)))
        BY <3>1, HostIsFirst
      <3> QED BY <3>2 DEF Abstract!HostFirst
    <2> QED BY <2>1, <2>2, <2>3, Zenon DEF List!Init
  <1>2. Intact(headers) /\ [PyNext]_pyVars => [List!Next]_view
    <2> SUFFICES ASSUME Intact(headers), [PyNext]_pyVars PROVE [List!Next]_view
      OBVIOUS
    <2>1. CASE Change
      BY <2>1, CallsAreFieldLists DEF Change
    <2>2. CASE headers' = headers
      BY <2>2, ViewOfNext
    <2>3. Change \/ headers' = headers
      BY DEF PyNext, new_py, Read, Look, Build, Store, pyVars
    <2> QED BY <2>1, <2>2, <2>3
  <1> QED BY <1>1, <1>2, HeadersStayIntact, PTL DEF PySpec, IsFieldList, List!Spec
=============================================================================
