----------------------------- MODULE PyHeaders -----------------------------
(***************************************************************************)
(* The Headers object of the Python binding                                 *)
(* (crates/h11r-python/src/api/headers.rs): finished Headers, and the tuple *)
(* of their pairs, built on first use.  Threads read them concurrently, and *)
(* building them allocates, which may run a finalizer that reads them again *)
(* in the same thread.                                                      *)
(***************************************************************************)
EXTENDS Headers

CONSTANTS Threads,
          MaxWrapped,  \* bound on the calls that made Headers that are wrapped
          MaxReads     \* bound on the reads, those of finalizers included

ASSUME PyHeadersAssumption == MaxWrapped \in Nat /\ MaxReads \in Nat

VARIABLES wrapped,   \* has the object been made
          items,     \* the PyOnceLock: a tuple's number, 0 when unset
          stack,     \* the unfinished reads of each thread, the innermost last
          reads,     \* reads so far
          made,      \* the tuples built so far
          returned   \* the tuples that reads have returned

readVars == <<items, stack, reads, made, returned>>

pyVars == <<headers, calls, wrapped, readVars>>

(* A read looks at the cell, builds a tuple, and then has it to store.      *)
Looking == [at |-> "looking", tuple |-> 0]

Building == [at |-> "building", tuple |-> 0]

Storing(tuple) == [at |-> "storing", tuple |-> tuple]

Top(t) == IF stack[t] = <<>> THEN [at |-> "idle", tuple |-> 0] ELSE stack[t][Len(stack[t])]

Pop(t) == [stack EXCEPT ![t] = SubSeq(@, 1, Len(@) - 1)]

Become(t, frame) == [stack EXCEPT ![t] = Append(SubSeq(@, 1, Len(@) - 1), frame)]

(* Mutant: the tuple is built by the closure of get_or_init, which one      *)
(* reader at a time may run.                                                *)
InsideTheCell(t) == \A u \in Threads, i \in 1..MaxReads :
                        i \in DOMAIN stack[u] => stack[u][i].at = "looking"

(* The tuple is built outside the cell, whoever else is building one.       *)
MayBuild(t) == Top(t) = Looking

(* Mutant: a reader returns the tuple that it has built.                    *)
StoreKeepsOwn(tuple) == tuple

(* get_or_init: the tuple it returns.                                       *)
get_or_init(tuple) == IF items = 0 THEN tuple ELSE items

----------------------------------------------------------------------------
PyInit == /\ Init
          /\ wrapped = FALSE
          /\ items = 0
          /\ stack = [t \in Threads |-> <<>>]
          /\ reads = 0
          /\ made = <<>>
          /\ returned = {}

(* The core changes Headers only before they are wrapped: the class is      *)
(* frozen.                                                                  *)
Change == ~wrapped /\ Next /\ UNCHANGED <<wrapped, readVars>>

new_py == /\ ~wrapped /\ calls <= MaxWrapped
          /\ wrapped' = TRUE
          /\ UNCHANGED <<headers, calls, readVars>>

(* A thread reads the fields, or a finalizer does while it builds.          *)
Read(t) ==
    /\ wrapped /\ reads < MaxReads
    /\ Top(t).at \in {"idle", "building"}
    /\ stack' = [stack EXCEPT ![t] = Append(@, Looking)]
    /\ reads' = reads + 1
    /\ UNCHANGED <<headers, calls, wrapped, items, made, returned>>

Look(t) ==
    /\ Top(t) = Looking
    /\ \/ /\ items # 0
          /\ stack' = Pop(t)
          /\ returned' = returned \cup {items}
       \/ /\ items = 0
          /\ MayBuild(t)
          /\ stack' = Become(t, Building)
          /\ UNCHANGED returned
    /\ UNCHANGED <<headers, calls, wrapped, items, reads, made>>

Build(t) ==
    /\ Top(t) = Building
    /\ \/ /\ made' = Append(made, iter(headers))
          /\ stack' = Become(t, Storing(Len(made')))
       \/ /\ stack' = Pop(t)      \* an allocation fails, and the read with it
          /\ UNCHANGED made
    /\ UNCHANGED <<headers, calls, wrapped, items, reads, returned>>

Store(t) ==
    /\ Top(t).at = "storing"
    /\ items' = IF items = 0 THEN Top(t).tuple ELSE items
    /\ returned' = returned \cup {get_or_init(Top(t).tuple)}
    /\ stack' = Pop(t)
    /\ UNCHANGED <<headers, calls, wrapped, reads, made>>

PyNext == \/ Change
          \/ new_py
          \/ \E t \in Threads : Read(t) \/ Look(t) \/ Build(t) \/ Store(t)

(* A thread that is in a read is scheduled.                                 *)
Fairness == \A t \in Threads : WF_pyVars(Look(t) \/ Build(t) \/ Store(t))

PySpec == PyInit /\ [][PyNext]_pyVars /\ Fairness

----------------------------------------------------------------------------
(* Every read that succeeds returns the same tuple, however many built one, *)
(* so identity and iteration order hold across threads and finalizers, and  *)
(* it has the pairs that get and get_all look up.                           *)
OneTuple ==
    /\ returned \subseteq {items} \ {0}
    /\ items # 0 => made[items] = iter(headers)

(* Every read returns or fails: no thread waits on another, or on itself.   *)
ReadsReturn == \A t \in Threads : stack[t] # <<>> ~> stack[t] = <<>>
=============================================================================
