----------------------- MODULE ConnectionStateProofs -----------------------
(***************************************************************************)
(* Proofs about ConnectionState, for every sequence of calls: invariants    *)
(* follow from the inductive invariant IInv, and the refinement of          *)
(* Lifecycle classifies every step by the phases it changes.                *)
(***************************************************************************)
EXTENDS ConnectionState, CallProofs

----------------------------------------------------------------------------
(* The inductive invariant.                                                 *)
IInv == /\ st \in ConnectionStates
        /\ local \in Roles
        /\ Stable(st)
        /\ Joint(st)

(* Every call that the owner of the state can make keeps the invariant.     *)
LEMMA IInvInductive == IInv /\ [Next]_vars => IInv'
  <1> SUFFICES ASSUME IInv, [Next]_vars PROVE IInv'
    OBVIOUS
  <1>1. ASSUME NEW role \in Roles, NEW ev \in StateEvents, ProcessEvent(role, ev)
        PROVE  IInv'
    BY <1>1, EventKeepsJoint DEF IInv, ProcessEvent
  <1>2. CASE DisableKeepAlive
    BY <1>2, DisableKeepsJoint DEF IInv, DisableKeepAlive
  <1>3. CASE ProcessError
    BY <1>3, ErrorKeepsJoint DEF IInv, ProcessError, ReadableStates, peer, Roles
  <1>4. CASE StartNextCycle
    BY <1>4, NewIsJoint DEF IInv, StartNextCycle
  <1>5. CASE UNCHANGED vars
    BY <1>5 DEF IInv, vars
  <1> QED BY <1>1, <1>2, <1>3, <1>4, <1>5 DEF Next

(* The invariant holds in every reachable state.                            *)
LEMMA IInvHolds == Spec => []IInv
  <1>1. Init => IInv
    BY NewIsJoint DEF Init, IInv
  <1> QED BY <1>1, IInvInductive, PTL DEF Spec

(* Each role of a ConnectionState only ever reaches the states meaningful   *)
(* to its half of the exchange.                                             *)
THEOREM TypeCorrect == Spec => []TypeOK
  <1>1. IInv => TypeOK
    BY DEF IInv, TypeOK, Joint
  <1> QED BY <1>1, IInvHolds, PTL

(* The stored state is always stabilized, which is what lets process_event  *)
(* return early on body data.                                               *)
THEOREM AlwaysStabilized == Spec => []Stabilized
  <1>1. IInv => Stabilized
    BY PassEstablishesStable DEF IInv, Stabilized
  <1> QED BY <1>1, IInvHolds, PTL

(* Requests and responses of process_event stay paired: neither actor runs  *)
(* ahead of, or is left behind by, the exchange of the other.               *)
THEOREM ExchangesInOrder == Spec => []ExchangeOrder
  <1>1. IInv => ExchangeOrder
    BY DEF IInv, Joint, ExchangeOrder
  <1> QED BY <1>1, IInvHolds, PTL

(* A protocol switch is decided once and for both actors.                   *)
THEOREM SwitchesDecided == Spec => []SwitchDecision
  <1>1. IInv => SwitchDecision
    BY DEF IInv, Joint, SwitchDecision
  <1> QED BY <1>1, IInvHolds, PTL

(* Two actors that are both Done can always start_next_cycle, and           *)
(* keep_alive says so.                                                      *)
THEOREM CompleteExchangeIsReusable == Spec => []CompleteIsReusable
  <1>1. IInv => CompleteIsReusable
    BY DEF IInv, Joint, Stable, Resolved, Closing, CompleteIsReusable, CanStartNextCycle, keep_alive
  <1> QED BY <1>1, IInvHolds, PTL

(* process_error on the peer never takes away a message that the local      *)
(* actor has started or owes.                                               *)
THEOREM PeerErrorKeepsLocalMessage == Spec => ErrorKeepsLocalMessage
  <1> DEFINE A == state(st, local) \in {"Idle", "SendResponse", "SendBody"}
                    /\ state(st', peer(local)) = "Error" /\ state(st, peer(local)) # "Error"
                  => state(st', local) = state(st, local)
  <1>1. IInv /\ [Next]_vars => [A]_vars
    <2> SUFFICES ASSUME IInv, Next PROVE A
      OBVIOUS
    <2>1. ASSUME NEW role \in Roles, NEW ev \in StateEvents, ProcessEvent(role, ev),
                 NEW r \in Roles, state(st', r) = "Error"
          PROVE  state(st, r) = "Error"
      <3>1. CASE ev.kind = "Data"
        BY <3>1, <2>1 DEF ProcessEvent, process_event
      <3>2. CASE ev.kind # "Data"
        <4>1. PICK d \in ConnectionStates :
                 /\ st' = stabilize(d)
                 /\ ClientEventStep(st, d) \/ ServerEventStep(st, d)
          BY <2>1, <3>2, EventSteps DEF IInv, ProcessEvent
        <4> QED BY <2>1, <4>1, StabilizeEffect DEF ClientEventStep, ServerEventStep, state, Roles
      <3> QED BY <3>1, <3>2
    <2>2. CASE \E role \in Roles, ev \in StateEvents : ProcessEvent(role, ev)
      BY <2>1, <2>2 DEF IInv, peer, Roles
    <2>3. CASE DisableKeepAlive
      <3>1. [st EXCEPT !.keep_alive = FALSE] \in ConnectionStates
        BY DEF IInv, ConnectionStates
      <3>2. ASSUME NEW r \in Roles, state(st', r) = "Error" PROVE state(st, r) = "Error"
        BY <2>3, <3>1, <3>2, StabilizeEffect
           DEF IInv, DisableKeepAlive, disable_keep_alive, state, Roles, ConnectionStates
      <3> QED BY <3>2 DEF IInv, peer, Roles
    <2>4. CASE ProcessError
      <3> DEFINE d == WithState([st EXCEPT !.keep_alive = FALSE], peer(local), "Error")
      <3>1. /\ d \in ConnectionStates
            /\ local = "server" => d.client = "Error" /\ d.server = st.server
            /\ local = "client" => d.server = "Error" /\ d.client = st.client
        BY DEF IInv, WithState, ConnectionStates, States, Roles, peer
      <3>2. st' = stabilize(d)
        BY <2>4 DEF ProcessError, process_error
      <3> HIDE DEF d
      <3> QED BY <2>4, <3>1, <3>2, StabilizeEffect DEF IInv, state, Roles, peer
    <2>5. CASE StartNextCycle
      BY <2>5 DEF StartNextCycle, new, state
    <2> QED BY <2>2, <2>3, <2>4, <2>5 DEF Next
  <1> QED BY <1>1, IInvHolds, PTL DEF Spec, ErrorKeepsLocalMessage

----------------------------------------------------------------------------
(* The refinement mapping to Lifecycle, as functions of the state.          *)
Phase(c) == [a \in Roles |-> PhaseOf(state(c, a))]

(* keep_alive in terms of phases.                                           *)
Reuse(c) == c.keep_alive /\ PhaseOf(c.client) # "Gone" /\ PhaseOf(c.server) # "Gone"

(* Connection::keep_alive answers no exactly when the flag is down or an    *)
(* actor is Gone.                                                           *)
LEMMA ReuseIsKeepAlive ==
    ASSUME NEW c \in ConnectionStates
    PROVE  keep_alive(c) = Reuse(c)
  BY DEF keep_alive, Reuse, PhaseOf, ConnectionStates, States

(* What GiveUp asks of a step.                                              *)
Leaves(c, d) ==
    /\ ~Reuse(d)
    /\ PhaseOf(d.client) = PhaseOf(c.client) \/ PhaseOf(d.client) = "Gone"
    /\ PhaseOf(d.server) = PhaseOf(c.server) \/ PhaseOf(d.server) = "Gone"

(* Such a step is a GiveUp: the actors that leave are those that are Gone   *)
(* after it.                                                                *)
LEMMA LeavesIsGiveUp ==
    ASSUME NEW c \in ConnectionStates, NEW d \in ConnectionStates, Leaves(c, d)
    PROVE  \E leaving \in SUBSET Roles :
              Phase(d) = [a \in Roles |-> IF a \in leaving THEN "Gone" ELSE Phase(c)[a]]
  <1> DEFINE leaving == {a \in Roles : Phase(d)[a] = "Gone"}
  <1>1. leaving \in SUBSET Roles
    OBVIOUS
  <1>2. \A a \in Roles : Phase(d)[a] = IF a \in leaving THEN "Gone" ELSE Phase(c)[a]
    BY DEF Leaves, Phase, state, Roles
  <1>3. Phase(d) = [a \in Roles |-> IF a \in leaving THEN "Gone" ELSE Phase(c)[a]]
    BY <1>2 DEF Phase
  <1> QED BY <1>1, <1>3

(* What an accepted event amounts to in Lifecycle: nothing, the start of an *)
(* exchange, an early response, the end of one message, or giving up.       *)
LEMMA EventPhases ==
    ASSUME NEW c \in ConnectionStates, Stable(c), Joint(c), NEW d \in ConnectionStates,
           ClientEventStep(c, d) \/ ServerEventStep(c, d), NEW f, f = stabilize(d)
    PROVE  \/ Leaves(c, f)
           \/ /\ Reuse(f) <=> Reuse(c)
              /\ PhaseOf(f.client) = PhaseOf(c.client) /\ PhaseOf(f.server) = PhaseOf(c.server)
           \/ /\ Reuse(f) <=> Reuse(c)
              /\ PhaseOf(c.client) = "Ready" /\ PhaseOf(c.server) = "Ready"
              /\ PhaseOf(f.client) = "Active" /\ PhaseOf(f.server) = "Active"
           \/ /\ ~Reuse(f) /\ PhaseOf(f.client) = PhaseOf(c.client)
              /\ PhaseOf(c.server) = "Ready" /\ PhaseOf(f.server) = "Active"
           \/ /\ Reuse(f) <=> Reuse(c)
              /\ PhaseOf(c.client) = "Active" /\ PhaseOf(f.client) = "Finished"
              /\ PhaseOf(f.server) = PhaseOf(c.server)
           \/ /\ Reuse(f) <=> Reuse(c)
              /\ PhaseOf(c.server) = "Active" /\ PhaseOf(f.server) = "Finished"
              /\ PhaseOf(f.client) = PhaseOf(c.client)
  <1> USE DEF Reuse, PhaseOf
  <1>1. f \in ConnectionStates /\ Stable(f)
    BY StabilizeReachesFixpoint, PassEstablishesStable
  <1>2. CASE c.client = "Idle" /\ c.server = "Idle" /\ d.client = "SendBody"
    BY <1>2, StabilizeEffect DEF ClientEventStep, ServerEventStep
  <1>3. CASE c.client = "SendBody" /\ d.client = "Done"
    <2>1. d.server = c.server /\ d.keep_alive = c.keep_alive
      BY <1>3 DEF ClientEventStep, ServerEventStep
    <2>2. f.server = c.server /\ f.keep_alive = c.keep_alive
      BY <1>3, <2>1, StabilizeEffect DEF Stable, Closing, ConnectionStates
    <2> QED BY <1>3, <2>1, <2>2, StabilizeEffect DEF Leaves
  <1>4. CASE d.client = "Closed"
    BY <1>4, StabilizeEffect DEF ClientEventStep, ServerEventStep, Leaves
  <1>5. CASE ServerEventStep(c, d)
    <2>1. CASE d.server = "SendBody"
      BY <1>5, <2>1, StabilizeEffect DEF ServerEventStep, Leaves, Joint, ConnectionStates
    <2>2. CASE d.server = "SendResponse"
      BY <1>5, <2>2, StabilizeEffect
         DEF ServerEventStep, Leaves, Stable, Closing, Joint, ConnectionStates
    <2>3. CASE d.server = "SwitchedProtocol"
      BY <1>5, <2>3, StabilizeEffect DEF ServerEventStep, Leaves
    <2>4. CASE d.server = "Done"
      BY <1>5, <2>4, StabilizeEffect
         DEF ServerEventStep, Leaves, Stable, Closing, Joint, ConnectionStates
    <2>5. CASE d.server = "Closed"
      BY <1>5, <2>5, StabilizeEffect DEF ServerEventStep, Leaves
    <2> QED BY <1>5, <2>1, <2>2, <2>3, <2>4, <2>5 DEF ServerEventStep
  <1> QED BY <1>2, <1>3, <1>4, <1>5 DEF ClientEventStep

(* ConnectionState implements Lifecycle: every call on the state is one     *)
(* step of the sequence of exchanges, or none.                              *)
THEOREM ImplementsLifecycle == Spec => Exchanges
  <1>1. Init => L!Init
    BY DEF Init, L!Init, new, keep_alive, PhaseOf, state, Roles, L!Actors
  <1>2. IInv /\ IInv' /\ [Next]_vars => [L!Next]_(L!vars)
    <2> SUFFICES ASSUME IInv, IInv', [Next]_vars PROVE [L!Next]_(L!vars)
      OBVIOUS
    <2>1. Leaves(st, st') => L!GiveUp
      BY LeavesIsGiveUp, ReuseIsKeepAlive DEF IInv, L!GiveUp, L!Actors, Roles, Phase, Leaves
    <2>2. ASSUME NEW role \in Roles, NEW ev \in StateEvents, ProcessEvent(role, ev)
          PROVE  [L!Next]_(L!vars)
      <3>1. CASE ev.kind = "Data"
        BY <2>2, <3>1 DEF ProcessEvent, process_event, L!vars
      <3>2. CASE ev.kind # "Data"
        <4>1. PICK d \in ConnectionStates :
                 /\ st' = stabilize(d)
                 /\ ClientEventStep(st, d) \/ ServerEventStep(st, d)
          BY <2>2, <3>2, EventSteps DEF IInv, ProcessEvent
        <4>2. /\ keep_alive(st) = Reuse(st) /\ keep_alive(st') = Reuse(st')
              /\ Reuse(st) \in BOOLEAN /\ Reuse(st') \in BOOLEAN
          BY ReuseIsKeepAlive DEF IInv, Reuse
        <4> HIDE DEF Reuse
        <4>3. CASE Leaves(st, st')
          BY <4>3, <2>1 DEF L!Next
        <4>4. CASE /\ Reuse(st') <=> Reuse(st)
                   /\ PhaseOf(st'.client) = PhaseOf(st.client)
                   /\ PhaseOf(st'.server) = PhaseOf(st.server)
          BY <4>4, <4>2 DEF L!vars, state, Roles
        <4>5. CASE /\ Reuse(st') <=> Reuse(st)
                   /\ PhaseOf(st.client) = "Ready" /\ PhaseOf(st.server) = "Ready"
                   /\ PhaseOf(st'.client) = "Active" /\ PhaseOf(st'.server) = "Active"
          BY <4>5, <4>2 DEF L!Next, L!StartExchange, L!Actors, state, Roles
        <4>6. CASE /\ ~Reuse(st') /\ PhaseOf(st'.client) = PhaseOf(st.client)
                   /\ PhaseOf(st.server) = "Ready" /\ PhaseOf(st'.server) = "Active"
          BY <4>6, <4>2 DEF L!Next, L!EarlyResponse, L!Actors, state, Roles
        <4>7. CASE /\ Reuse(st') <=> Reuse(st)
                   /\ PhaseOf(st.client) = "Active" /\ PhaseOf(st'.client) = "Finished"
                   /\ PhaseOf(st'.server) = PhaseOf(st.server)
          <5>1. L!Finish("client")
            BY <4>7, <4>2 DEF L!Finish, state, Roles
          <5> QED BY <5>1 DEF L!Next, L!Actors
        <4>8. CASE /\ Reuse(st') <=> Reuse(st)
                   /\ PhaseOf(st.server) = "Active" /\ PhaseOf(st'.server) = "Finished"
                   /\ PhaseOf(st'.client) = PhaseOf(st.client)
          <5>1. L!Finish("server")
            BY <4>8, <4>2 DEF L!Finish, state, Roles
          <5> QED BY <5>1 DEF L!Next, L!Actors
        <4> QED BY <4>1, <4>3, <4>4, <4>5, <4>6, <4>7, <4>8, EventPhases DEF IInv
      <3> QED BY <3>1, <3>2
    <2>3. CASE DisableKeepAlive
      <3> DEFINE d == [st EXCEPT !.keep_alive = FALSE]
      <3>1. /\ d \in ConnectionStates /\ d.keep_alive = FALSE
            /\ d.client = st.client /\ d.server = st.server
        BY DEF IInv, ConnectionStates
      <3>2. st' = stabilize(d)
        BY <2>3 DEF DisableKeepAlive, disable_keep_alive
      <3> HIDE DEF d
      <3>3. Leaves(st, st')
        BY <3>1, <3>2, StabilizeEffect DEF Leaves, Reuse, PhaseOf
      <3> QED BY <3>3, <2>1 DEF L!Next
    <2>4. CASE ProcessError
      <3> DEFINE d == WithState([st EXCEPT !.keep_alive = FALSE], peer(local), "Error")
      <3>1. /\ d \in ConnectionStates /\ d.keep_alive = FALSE
            /\ local = "server" => d.client = "Error" /\ d.server = st.server
            /\ local = "client" => d.server = "Error" /\ d.client = st.client
        BY DEF IInv, WithState, ConnectionStates, States, Roles, peer
      <3>2. st' = stabilize(d)
        BY <2>4 DEF ProcessError, process_error
      <3> HIDE DEF d
      <3>3. Leaves(st, st')
        BY <3>1, <3>2, StabilizeEffect DEF IInv, Roles, Leaves, Reuse, PhaseOf
      <3> QED BY <3>3, <2>1 DEF L!Next
    <2>5. CASE StartNextCycle
      BY <2>5 DEF StartNextCycle, L!NextExchange, L!Next, CanStartNextCycle, new,
                  keep_alive, PhaseOf, state, Roles, L!Actors
    <2>6. CASE UNCHANGED vars
      BY <2>6 DEF vars, L!vars
    <2> QED BY <2>2, <2>3, <2>4, <2>5, <2>6 DEF Next
  <1> QED BY <1>1, <1>2, IInvHolds, PTL DEF Spec, Exchanges, L!Spec

=============================================================================
