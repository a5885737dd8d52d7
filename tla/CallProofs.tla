------------------------------ MODULE CallProofs ------------------------------
(***************************************************************************)
(* What the calls of a connection return, for any connection.  First the    *)
(* operators of State: (1) stabilize: each of its rules establishes one     *)
(* predicate and keeps those of the earlier rules, so one pass reaches the  *)
(* fixpoint Stable.  (2) Joint: a call moves one actor, which may leave     *)
(* Joint for the weaker Relaxed, and stabilize restores it.  (3) What each  *)
(* call does to each actor, in the form in which later proofs use it.       *)
(* Then those of Wire, Receive and Send, for any connection of the right    *)
(* type that satisfies Sound, the invariant of its parts: a poll keeps it,  *)
(* a send that fails changes nothing, and one that succeeds keeps it and    *)
(* touches nothing that was received.                                       *)
(***************************************************************************)
EXTENDS Receive, Send, TLAPS, SequenceTheorems

WF == INSTANCE WellFoundedInduction

----------------------------------------------------------------------------
(* What each rule of stabilize leaves behind: no client waits for a switch  *)
(* that is decided or that nobody proposed.                                 *)
Resolved(c) ==
    /\ c.client = "Done" => c.proposals = {}
    /\ c.client = "MightSwitchProtocol" => c.proposals # {} /\ c.server # "SwitchedProtocol"
    /\ c.client = "SwitchedProtocol" /\ c.server = "SwitchedProtocol" => c.proposals = {}

(* No actor rests in Done without keep-alive.                               *)
Closing(c) == ~c.keep_alive => c.client # "Done" /\ c.server # "Done"

(* No actor is left behind by a peer that closed or failed.                 *)
Propagated(c) ==
    /\ c.client = "Closed" => c.server \notin {"Done", "Idle"}
    /\ c.client = "Error" => c.server # "Done"
    /\ c.server = "Closed" => c.client \notin {"Done", "Idle"}
    /\ c.server = "Error" => c.client # "Done"

(* The switch rule establishes Resolved, and does nothing where it holds.   *)
LEMMA ResolveEstablishes ==
    ASSUME NEW c \in ConnectionStates
    PROVE  /\ ResolveSwitch(c) \in ConnectionStates
           /\ Resolved(ResolveSwitch(c))
           /\ Resolved(c) => ResolveSwitch(c) = c
  BY DEF ResolveSwitch, Resolved, ConnectionStates, States

(* The keep-alive rule establishes Closing and keeps Resolved.              *)
LEMMA RequireEstablishes ==
    ASSUME NEW c \in ConnectionStates
    PROVE  /\ RequireClose(c) \in ConnectionStates
           /\ Closing(RequireClose(c))
           /\ Resolved(c) => Resolved(RequireClose(c))
           /\ Closing(c) => RequireClose(c) = c
  BY DEF RequireClose, Resolved, Closing, ConnectionStates, States

(* The close rule establishes Propagated and keeps what the two earlier     *)
(* rules established: MustClose enables neither of them again.              *)
LEMMA PropagateEstablishes ==
    ASSUME NEW c \in ConnectionStates
    PROVE  /\ PropagateClose(c) \in ConnectionStates
           /\ Propagated(PropagateClose(c))
           /\ Resolved(c) => Resolved(PropagateClose(c))
           /\ Closing(c) => Closing(PropagateClose(c))
           /\ Propagated(c) => PropagateClose(c) = c
  BY DEF PropagateClose, Propagated, Resolved, Closing, ConnectionStates, States

(* The fixpoint of stabilize, spelt out.                                    *)
Stable(c) == Resolved(c) /\ Closing(c) /\ Propagated(c)

(* One turn of the loop in stabilize reaches Stable, and the states a turn  *)
(* does not change are exactly the Stable ones.                             *)
LEMMA PassEstablishesStable ==
    ASSUME NEW c \in ConnectionStates
    PROVE  /\ StabilizePass(c) \in ConnectionStates
           /\ Stable(StabilizePass(c))
           /\ Stable(c) <=> StabilizePass(c) = c
  BY ResolveEstablishes, RequireEstablishes, PropagateEstablishes DEF StabilizePass, Stable

(* The loop of stabilize ("until a fixpoint") ends: from any value of the   *)
(* connection state, reachable or not, one turn reaches the fixpoint and    *)
(* the second one changes nothing.                                          *)
THEOREM StabilizeReachesFixpoint ==
    ASSUME NEW c \in ConnectionStates
    PROVE  /\ StabilizePass(StabilizePass(c)) = StabilizePass(c)
           /\ stabilize(c) = StabilizePass(c)
  BY PassEstablishesStable DEF stabilize

(* The three rules as relations between the state before and after, in the  *)
(* form in which the SMT solver composes them.                              *)
ResolveStep(c, d) ==
    /\ d.server = c.server
    /\ d.keep_alive = c.keep_alive
    /\ \/ d.client = c.client
       \/ /\ c.client = "Done" /\ c.proposals # {}
          /\ \/ d.client = "MightSwitchProtocol"
             \/ d.client = "SwitchedProtocol" /\ c.server = "SwitchedProtocol"
       \/ /\ c.client = "MightSwitchProtocol"
          /\ c.server = "SwitchedProtocol" /\ d.client = "SwitchedProtocol"
       \/ /\ c.client = "MightSwitchProtocol" /\ c.proposals = {}
          /\ c.server # "SwitchedProtocol" /\ d.client = "Done"
    /\ \/ d.proposals = c.proposals
       \/ d.proposals = {} /\ d.client = "SwitchedProtocol" /\ c.server = "SwitchedProtocol"

(* What RequireClose may do.                                                *)
RequireStep(c, d) ==
    /\ d.keep_alive = c.keep_alive
    /\ d.proposals = c.proposals
    /\ d.client = c.client \/ (c.client = "Done" /\ ~c.keep_alive /\ d.client = "MustClose")
    /\ d.server = c.server \/ (c.server = "Done" /\ ~c.keep_alive /\ d.server = "MustClose")

(* What PropagateClose may do.                                              *)
PropagateStep(c, d) ==
    /\ d.keep_alive = c.keep_alive
    /\ d.proposals = c.proposals
    /\ \/ d.client = c.client /\ d.server = c.server
       \/ /\ c.client = "Closed" \/ (c.client = "Error" /\ c.server = "Done")
          /\ c.server \in {"Done", "Idle"}
          /\ d.client = c.client /\ d.server = "MustClose"
       \/ /\ c.server = "Closed" \/ (c.server = "Error" /\ c.client = "Done")
          /\ c.client \in {"Done", "Idle"}
          /\ d.server = c.server /\ d.client = "MustClose"

(* A turn of the loop is one step of each relation, in this order.          *)
LEMMA PassSteps ==
    ASSUME NEW c \in ConnectionStates
    PROVE  \E d, e \in ConnectionStates : /\ ResolveStep(c, d) /\ Resolved(d)
                                          /\ RequireStep(d, e)
                                          /\ PropagateStep(e, StabilizePass(c))
  <1> DEFINE d == ResolveSwitch(c)
             e == RequireClose(d)
  <1>1. d \in ConnectionStates /\ Resolved(d) /\ e \in ConnectionStates
    BY ResolveEstablishes, RequireEstablishes
  <1>2. ResolveStep(c, d)
    BY DEF ResolveSwitch, ResolveStep, ConnectionStates, States
  <1>3. ASSUME NEW a \in ConnectionStates PROVE RequireStep(a, RequireClose(a))
    BY DEF RequireClose, RequireStep, ConnectionStates, States
  <1>4. ASSUME NEW a \in ConnectionStates PROVE PropagateStep(a, PropagateClose(a))
    BY DEF PropagateClose, PropagateStep, ConnectionStates, States
  <1> QED BY <1>1, <1>2, <1>3, <1>4 DEF StabilizePass

----------------------------------------------------------------------------
(* The inductive invariant proper: the pairs of actor states, with the      *)
(* keep-alive flag and the proposals, that calls can reach.  The last three *)
(* conjuncts are the strengthening: without them a server that must close   *)
(* could be revived by a request, a half-switched connection could lose its *)
(* proposals, and a failed client could look reusable.                      *)
Joint(c) ==
    /\ c.client # "SendResponse"
    /\ c.server # "MightSwitchProtocol"
    /\ c.client = "Idle" => \/ c.server = "Idle"
                            \/ c.server \in {"SendBody", "MustClose", "Error"} /\ ~c.keep_alive
    /\ c.server = "Idle" => c.client \in {"Idle", "Error"}
    /\ c.client = "Done" => c.server \in {"SendResponse", "SendBody", "Done"}
    /\ c.proposals # {} => /\ c.client \in {"SendBody", "MightSwitchProtocol", "Error"}
                            /\ c.server \in {"SendResponse", "SwitchedProtocol", "Error"}
    /\ c.client = "MightSwitchProtocol" => /\ c.proposals # {}
                                            /\ c.server \in {"SendResponse", "Error"}
    /\ c.server = "SwitchedProtocol" => c.client \in {"SendBody", "SwitchedProtocol", "Error"}
    /\ c.client = "SwitchedProtocol" => c.server = "SwitchedProtocol"
    /\ c.server = "MustClose" => ~c.keep_alive \/ c.client = "Closed"
    /\ c.server = "SwitchedProtocol" /\ c.client = "SendBody" => c.proposals # {}
    /\ c.client = "Error" => ~c.keep_alive

(* What holds of the state between the direct transition of one actor and   *)
(* stabilize: weaker than Joint where a joint rule is still to apply.       *)
Relaxed(c) ==
    /\ c.client # "SendResponse"
    /\ c.server # "MightSwitchProtocol"
    /\ c.client = "Idle" =>
          \/ c.server \in {"Idle", "Closed"}
          \/ c.server \in {"SendBody", "Done", "MustClose", "Error"} /\ ~c.keep_alive
    /\ c.server = "Idle" => c.client \in {"Idle", "Error", "Closed"}
    /\ c.client = "SwitchedProtocol" => c.server = "SwitchedProtocol"
    /\ c.proposals # {} => /\ c.client \in {"SendBody", "Done", "MightSwitchProtocol", "Error"}
                           /\ c.server \in {"SendResponse", "SwitchedProtocol", "Error"}
    /\ c.server = "SwitchedProtocol" =>
          \/ c.client \in {"SwitchedProtocol", "Error", "MightSwitchProtocol"}
          \/ c.client \in {"SendBody", "Done"} /\ c.proposals # {}
    /\ c.server = "MustClose" => ~c.keep_alive \/ c.client = "Closed"
    /\ c.client = "Error" => ~c.keep_alive

(* stabilize restores Joint from Relaxed.                                   *)
LEMMA PassRestoresJoint ==
    ASSUME NEW c \in ConnectionStates, Relaxed(c)
    PROVE  /\ stabilize(c) \in ConnectionStates
           /\ Stable(stabilize(c))
           /\ Joint(stabilize(c))
  <1> DEFINE f == StabilizePass(c)
  <1>1. stabilize(c) = f /\ f \in ConnectionStates /\ Stable(f)
    BY StabilizeReachesFixpoint, PassEstablishesStable
  <1>2. PICK d, e \in ConnectionStates :
             ResolveStep(c, d) /\ Resolved(d) /\ RequireStep(d, e) /\ PropagateStep(e, f)
    BY PassSteps
  <1>3. Joint(f)
    <2> HIDE DEF f
    <2> QED BY <1>1, <1>2 DEF Relaxed, Joint, Stable, Resolved, Closing, Propagated,
                             ResolveStep, RequireStep, PropagateStep, ConnectionStates, States
  <1> QED BY <1>1, <1>3

(* What an accepted event other than body data does to the state before     *)
(* stabilize runs, for an event of the client.                              *)
ClientEventStep(c, d) ==
    /\ d.keep_alive = c.keep_alive
    /\ \/ /\ c.client = "Idle" /\ c.server = "Idle"
          /\ d.client = "SendBody" /\ d.server = "SendResponse"
       \/ /\ c.client = "SendBody" /\ d.client = "Done"
          /\ d.server = c.server /\ d.proposals = c.proposals
       \/ /\ c.client \in {"Idle", "Done", "MustClose", "Closed"} /\ d.client = "Closed"
          /\ d.server = c.server /\ d.proposals = c.proposals

(* The same for an event of the server.                                     *)
ServerEventStep(c, d) ==
    /\ d.client = c.client
    /\ \/ /\ c.server \in {"Idle", "SendResponse"} /\ d.server = "SendBody"
          /\ d.proposals = {}
          /\ d.keep_alive => c.keep_alive /\ c.server # "Idle"
       \/ /\ d.proposals = c.proposals /\ d.keep_alive = c.keep_alive
          /\ \/ c.server = "SendResponse" /\ d.server = "SendResponse"
             \/ c.server = "SendResponse" /\ d.server = "SwitchedProtocol" /\ c.proposals # {}
             \/ c.server = "SendBody" /\ d.server = "Done"
             \/ c.server \in {"Idle", "Done", "MustClose", "Closed"} /\ d.server = "Closed"

(* An accepted event other than body data is one of these steps of its own  *)
(* actor, followed by stabilize.                                            *)
LEMMA EventSteps ==
    ASSUME NEW c \in ConnectionStates, NEW role \in Roles, NEW ev \in StateEvents,
           Accepts(c, role, ev), ev.kind # "Data"
    PROVE  \E d \in ConnectionStates :
              /\ process_event(c, role, ev) = stabilize(d)
              /\ ClientEventStep(c, d) \/ ServerEventStep(c, d)
  <1> DEFINE t == direct_transition(role, state(c, role), ev.kind)
             j == JointEffect(c, role, ev)
             d == WithState(j, role, t)
  <1>1. t \in States
    BY DEF Accepts, direct_transition, States, None
  <1>2. ev.switches \in SUBSET SwitchKinds
    BY DEF StateEvents, Request, ProtocolSwitch, StateEvent
  <1>3. j \in ConnectionStates
    BY <1>2 DEF JointEffect, ConnectionStates, States
  <1>4. /\ d \in ConnectionStates
        /\ d.keep_alive = j.keep_alive /\ d.proposals = j.proposals
        /\ role = "client" => d.client = t /\ d.server = j.server
        /\ role = "server" => d.server = t /\ d.client = j.client
    <2> HIDE DEF t, j
    <2> QED BY <1>1, <1>3 DEF WithState, ConnectionStates, Roles
  <1>5. CASE role = "client" /\ ev.kind = "Request"
    <2>1. /\ t = "SendBody" /\ c.client = "Idle" /\ c.server = "Idle"
          /\ j.server = "SendResponse" /\ j.keep_alive = c.keep_alive
      BY <1>5 DEF Accepts, direct_transition, state, None, JointEffect, ConnectionStates
    <2>2. ClientEventStep(c, d)
      BY <2>1, <1>4, <1>5 DEF ClientEventStep
    <2> QED BY <1>4, <2>2 DEF process_event
  <1>6. CASE role = "client" /\ ev.kind # "Request"
    <2>1. j = c
      BY <1>6 DEF JointEffect
    <2>2. \/ c.client = "SendBody" /\ t = "Done"
          \/ c.client \in {"Idle", "Done", "MustClose", "Closed"} /\ t = "Closed"
      BY <1>6 DEF Accepts, direct_transition, state, None
    <2>3. ClientEventStep(c, d)
      BY <2>1, <2>2, <1>4, <1>6 DEF ClientEventStep
    <2> QED BY <1>4, <2>3 DEF process_event
  <1>7. CASE role = "server" /\ ev.kind = "Response"
    <2>1. /\ t = "SendBody" /\ c.server \in {"Idle", "SendResponse"}
          /\ j.client = c.client /\ j.proposals = {}
          /\ j.keep_alive => c.keep_alive /\ c.server # "Idle"
      BY <1>7 DEF Accepts, direct_transition, state, None, JointEffect, ConnectionStates
    <2>2. ServerEventStep(c, d)
      BY <2>1, <1>4, <1>7 DEF ServerEventStep
    <2> QED BY <1>4, <2>2 DEF process_event
  <1>8. CASE role = "server" /\ ev.kind # "Response"
    <2>1. j = c
      BY <1>8 DEF JointEffect
    <2>2. \/ c.server = "SendResponse" /\ t = "SendResponse"
          \/ c.server = "SendResponse" /\ t = "SwitchedProtocol" /\ c.proposals # {}
          \/ c.server = "SendBody" /\ t = "Done"
          \/ c.server \in {"Idle", "Done", "MustClose", "Closed"} /\ t = "Closed"
      BY <1>8 DEF Accepts, direct_transition, state, None, StateEvents, Request,
                  ProtocolSwitch, StateEvent
    <2>3. ServerEventStep(c, d)
      BY <2>1, <2>2, <1>4, <1>8 DEF ServerEventStep
    <2> QED BY <1>4, <2>3 DEF process_event
  <1> QED BY <1>5, <1>6, <1>7, <1>8 DEF Roles

(* An accepted process_event keeps the invariant, the fast path for body    *)
(* data included.                                                           *)
LEMMA EventKeepsJoint ==
    ASSUME NEW c \in ConnectionStates, Stable(c), Joint(c),
           NEW role \in Roles, NEW ev \in StateEvents, Accepts(c, role, ev)
    PROVE  /\ process_event(c, role, ev) \in ConnectionStates
           /\ Stable(process_event(c, role, ev))
           /\ Joint(process_event(c, role, ev))
  <1>1. CASE ev.kind = "Data"
    BY <1>1 DEF process_event
  <1>2. CASE ev.kind # "Data"
    <2>1. PICK d \in ConnectionStates :
             /\ process_event(c, role, ev) = stabilize(d)
             /\ ClientEventStep(c, d) \/ ServerEventStep(c, d)
      BY <1>2, EventSteps
    <2>2. CASE ClientEventStep(c, d)
      <3>1. Relaxed(d)
        BY <2>2 DEF ClientEventStep, Relaxed, Joint, Stable, Resolved, Closing, Propagated,
                    ConnectionStates, States
      <3> QED BY <3>1, <2>1, PassRestoresJoint
    <2>3. CASE ServerEventStep(c, d)
      <3>1. Relaxed(d)
        BY <2>3 DEF ServerEventStep, Relaxed, Joint, Stable, Resolved, Closing, Propagated,
                    ConnectionStates, States
      <3> QED BY <3>1, <2>1, PassRestoresJoint
    <2> QED BY <2>1, <2>2, <2>3
  <1> QED BY <1>1, <1>2

(* disable_keep_alive keeps the invariant.                                  *)
LEMMA DisableKeepsJoint ==
    ASSUME NEW c \in ConnectionStates, Stable(c), Joint(c)
    PROVE  /\ disable_keep_alive(c) \in ConnectionStates
           /\ Stable(disable_keep_alive(c))
           /\ Joint(disable_keep_alive(c))
  <1> DEFINE d == [c EXCEPT !.keep_alive = FALSE]
  <1>1. d \in ConnectionStates /\ Relaxed(d)
    BY DEF Relaxed, Joint, Stable, Resolved, Propagated, ConnectionStates, States
  <1> QED BY <1>1, PassRestoresJoint DEF disable_keep_alive

(* process_error keeps the invariant for an actor that is being read.       *)
LEMMA ErrorKeepsJoint ==
    ASSUME NEW c \in ConnectionStates, Stable(c), Joint(c),
           NEW role \in Roles, state(c, role) \in {"Idle", "SendResponse", "SendBody", "Error"}
    PROVE  /\ process_error(c, role) \in ConnectionStates
           /\ Stable(process_error(c, role))
           /\ Joint(process_error(c, role))
  <1> DEFINE d == WithState([c EXCEPT !.keep_alive = FALSE], role, "Error")
  <1>1. /\ d \in ConnectionStates
        /\ d.proposals = c.proposals /\ d.keep_alive = FALSE
        /\ role = "client" => d.client = "Error" /\ d.server = c.server
        /\ role = "server" => d.server = "Error" /\ d.client = c.client
    BY DEF WithState, ConnectionStates, States, Roles
  <1>2. Relaxed(d)
    <2> HIDE DEF d
    <2> QED BY <1>1 DEF Relaxed, Joint, Stable, Resolved, Propagated, ConnectionStates, States,
                        state, Roles
  <1> QED BY <1>1, <1>2, PassRestoresJoint DEF process_error

(* A new connection, and the state start_next_cycle installs, satisfy the   *)
(* invariant.                                                               *)
LEMMA NewIsJoint == new \in ConnectionStates /\ Stable(new) /\ Joint(new)
  BY DEF new, ConnectionStates, States, Stable, Resolved, Closing, Propagated, Joint

(* What stabilize may change of each actor: a finished client waits,        *)
(* switches or must close; a finished or stranded server must close;        *)
(* nothing else moves, and keep-alive is not touched.                       *)
LEMMA StabilizeEffect ==
    ASSUME NEW c \in ConnectionStates, NEW f, f = stabilize(c)
    PROVE  /\ f \in ConnectionStates
           /\ f.keep_alive = c.keep_alive
           /\ f.proposals = c.proposals \/ (f.proposals = {} /\ f.server = "SwitchedProtocol")
           /\ \/ f.client = c.client
              \/ /\ c.client \in {"Done", "MightSwitchProtocol"}
                 /\ \/ f.client \in {"Done", "MightSwitchProtocol"}
                    \/ f.client = "SwitchedProtocol" /\ c.server = "SwitchedProtocol"
                    \/ /\ f.client = "MustClose"
                       /\ ~c.keep_alive \/ c.server \in {"Closed", "Error"}
              \/ c.client = "Idle" /\ c.server = "Closed" /\ f.client = "MustClose"
           /\ \/ f.server = c.server
              \/ /\ c.server = "Done" /\ f.server = "MustClose"
                 /\ ~c.keep_alive \/ c.client \in {"Closed", "Error"}
              \/ c.server = "Idle" /\ c.client = "Closed" /\ f.server = "MustClose"
  <1>1. f = StabilizePass(c) /\ f \in ConnectionStates
    BY StabilizeReachesFixpoint, PassEstablishesStable
  <1>2. PICK d, e \in ConnectionStates :
             ResolveStep(c, d) /\ Resolved(d) /\ RequireStep(d, e) /\ PropagateStep(e, f)
    BY <1>1, PassSteps
  <1> QED BY <1>1, <1>2 DEF ResolveStep, RequireStep, PropagateStep

----------------------------------------------------------------------------
(* What becomes of an actor that a call does not move: it stays, or has     *)
(* nothing left to send and settles.  An actor in a message, one that owes  *)
(* a response, and one that is gone stay where they are.                    *)
ClientSettles(s, t) ==
    \/ t = s
    \/ s \in {"Done", "MightSwitchProtocol"}
         /\ t \in {"Done", "MightSwitchProtocol", "SwitchedProtocol", "MustClose"}
    \/ s = "Idle" /\ t = "MustClose"

(* A server settles only by having to close.                                *)
ServerSettles(s, t) == t = s \/ (s \in {"Idle", "Done"} /\ t = "MustClose")

(* A state that a call of the connection may leave behind.                  *)
Lawful(c) == c \in ConnectionStates /\ Stable(c) /\ Joint(c)

(* Proposals go only with a switch.                                         *)
KeepsProposals(c, f) == f.proposals = c.proposals \/ (f.proposals = {} /\ f.server = "SwitchedProtocol")

(* A request: both actors leave Idle.                                       *)
LEMMA RequestEffect ==
    ASSUME NEW c, Lawful(c), NEW p \in SUBSET SwitchKinds, Accepts(c, "client", Request(p)),
           NEW f, f = process_event(c, "client", Request(p))
    PROVE  /\ Lawful(f)
           /\ c.client = "Idle" /\ c.server = "Idle"
           /\ f.client = "SendBody" /\ f.server = "SendResponse"
           /\ f.proposals = p /\ f.keep_alive = c.keep_alive
  <1> DEFINE ev == Request(p)
             d == [c EXCEPT !.client = "SendBody", !.server = "SendResponse", !.proposals = p]
  <1>1. ev \in StateEvents /\ ev.kind = "Request" /\ ev.switches = p
    BY DEF StateEvents, Request
  <1>2. Lawful(f)
    BY <1>1, EventKeepsJoint DEF Lawful, Roles
  <1>3. c.client = "Idle" /\ c.server = "Idle"
    BY <1>1 DEF Accepts, direct_transition, state, None
  <1>4. /\ d \in ConnectionStates
        /\ d.client = "SendBody" /\ d.server = "SendResponse" /\ d.proposals = p
        /\ d.keep_alive = c.keep_alive
    BY DEF Lawful, ConnectionStates, States
  <1>5. f = stabilize(d)
    <2>1. direct_transition("client", state(c, "client"), "Request") = "SendBody"
      BY <1>3 DEF direct_transition, state
    <2>2. JointEffect(c, "client", ev) = [c EXCEPT !.proposals = p, !.server = "SendResponse"]
      BY <1>1 DEF JointEffect
    <2>3. [[c EXCEPT !.proposals = p, !.server = "SendResponse"] EXCEPT !.client = "SendBody"] = d
      BY DEF Lawful, ConnectionStates
    <2> QED BY <1>1, <2>1, <2>2, <2>3 DEF process_event, WithState
  <1> HIDE DEF d
  <1> QED BY <1>2, <1>3, <1>4, <1>5, StabilizeEffect

(* A final response: the proposals are decided, and keep-alive survives     *)
(* only if a request was there to answer.                                   *)
LEMMA ResponseEffect ==
    ASSUME NEW c, Lawful(c), Accepts(c, "server", StateEvent("Response")),
           NEW f, f = process_event(c, "server", StateEvent("Response"))
    PROVE  /\ Lawful(f)
           /\ c.server \in {"Idle", "SendResponse"} /\ f.server = "SendBody"
           /\ f.proposals = {} /\ ClientSettles(c.client, f.client)
           /\ f.keep_alive => c.keep_alive /\ c.server = "SendResponse"
  <1> DEFINE ev == StateEvent("Response")
  <1>1. ev \in StateEvents /\ ev.kind = "Response"
    BY DEF StateEvents, StateEvent
  <1>2. Lawful(f)
    BY <1>1, EventKeepsJoint DEF Lawful, Roles
  <1>3. c.server \in {"Idle", "SendResponse"}
    BY <1>1 DEF Accepts, direct_transition, state, None
  <1>4. PICK d \in ConnectionStates :
           f = stabilize(d) /\ (ClientEventStep(c, d) \/ ServerEventStep(c, d))
                            /\ d.server = "SendBody" /\ d.client = c.client
    <2> DEFINE j == JointEffect(c, "server", ev)
               d == [j EXCEPT !.server = "SendBody"]
    <2>1. direct_transition("server", state(c, "server"), "Response") = "SendBody"
      BY <1>3 DEF direct_transition, state
    <2>2. f = stabilize(d)
      BY <1>1, <2>1 DEF process_event, WithState
    <2>3. /\ j \in ConnectionStates /\ j.client = c.client /\ j.proposals = {}
          /\ j.keep_alive => c.keep_alive /\ c.server # "Idle"
      BY <1>1 DEF JointEffect, Lawful, ConnectionStates
    <2>4. /\ d \in ConnectionStates /\ d.server = "SendBody" /\ d.client = c.client
          /\ d.proposals = {} /\ (d.keep_alive => c.keep_alive /\ c.server # "Idle")
      <3> HIDE DEF j
      <3> QED BY <2>3 DEF ConnectionStates, States
    <2>5. ServerEventStep(c, d)
      <3> HIDE DEF d
      <3> QED BY <2>4, <1>3 DEF ServerEventStep
    <2> QED BY <2>2, <2>4, <2>5
  <1>5. d.proposals = {} /\ (d.keep_alive => c.keep_alive /\ c.server = "SendResponse")
    BY <1>3, <1>4 DEF ClientEventStep, ServerEventStep
  <1> QED BY <1>2, <1>3, <1>4, <1>5, StabilizeEffect DEF ClientSettles

(* The same for the actor with the given role.                              *)
Settles(role, c, f) ==
    IF role = "client" THEN ClientSettles(c.client, f.client) ELSE ServerSettles(c.server, f.server)

(* Body data leaves the state alone, and an informational response leaves   *)
(* it at the fixpoint it was at.                                            *)
LEMMA DataEffect ==
    ASSUME NEW c, NEW role, Accepts(c, role, StateEvent("Data"))
    PROVE  state(c, role) = "SendBody" /\ process_event(c, role, StateEvent("Data")) = c
  BY DEF Accepts, StateEvent, direct_transition, None, process_event

(* Nor does an informational response.                                      *)
LEMMA InformationalEffect ==
    ASSUME NEW c, Lawful(c), NEW role \in Roles, Accepts(c, role, StateEvent("InformationalResponse"))
    PROVE  /\ role = "server" /\ c.server = "SendResponse"
           /\ process_event(c, role, StateEvent("InformationalResponse")) = c
  <1> DEFINE ev == StateEvent("InformationalResponse")
  <1>1. ev.kind = "InformationalResponse"
    BY DEF StateEvent
  <1>2. /\ role = "server" /\ c.server = "SendResponse"
        /\ direct_transition(role, state(c, role), ev.kind) = "SendResponse"
    BY <1>1 DEF Accepts, direct_transition, state, None, Roles
  <1>3. JointEffect(c, role, ev) = c
    BY <1>1, <1>2 DEF JointEffect
  <1>4. WithState(c, role, "SendResponse") = c
    BY <1>2 DEF WithState, Lawful, ConnectionStates
  <1>5. stabilize(c) = c
    BY PassEstablishesStable DEF Lawful, stabilize
  <1> QED BY <1>1, <1>2, <1>3, <1>4, <1>5 DEF process_event

(* The end of a message: its actor is done, or what being done leads to.    *)
LEMMA EndEffect ==
    ASSUME NEW c, Lawful(c), NEW role \in Roles, Accepts(c, role, StateEvent("EndOfMessage")),
           NEW f, f = process_event(c, role, StateEvent("EndOfMessage"))
    PROVE  /\ Lawful(f)
           /\ state(c, role) = "SendBody"
           /\ state(f, role) \in {"Done", "MightSwitchProtocol", "SwitchedProtocol", "MustClose"}
           /\ role = "server" => f.server \in {"Done", "MustClose"}
           /\ Settles(peer(role), c, f)
           /\ f.keep_alive = c.keep_alive /\ KeepsProposals(c, f)
  <1> DEFINE ev == StateEvent("EndOfMessage")
             d == WithState(c, role, "Done")
  <1>1. ev \in StateEvents /\ ev.kind = "EndOfMessage"
    BY DEF StateEvents, StateEvent
  <1>2. Lawful(f)
    BY <1>1, EventKeepsJoint DEF Lawful
  <1>3. state(c, role) = "SendBody" /\ direct_transition(role, state(c, role), ev.kind) = "Done"
    BY <1>1 DEF Accepts, direct_transition, None
  <1>4. f = stabilize(d)
    BY <1>1, <1>3 DEF process_event, JointEffect
  <1>5. /\ d \in ConnectionStates /\ d.proposals = c.proposals /\ d.keep_alive = c.keep_alive
        /\ role = "client" => d.client = "Done" /\ d.server = c.server
        /\ role = "server" => d.server = "Done" /\ d.client = c.client
    BY DEF WithState, Lawful, ConnectionStates, States, Roles
  <1> HIDE DEF d
  <1> QED BY <1>2, <1>3, <1>4, <1>5, StabilizeEffect
          DEF state, peer, Settles, ClientSettles, ServerSettles, KeepsProposals, Roles

(* The end of the connection for one actor.                                 *)
LEMMA ClosedEffect ==
    ASSUME NEW c, Lawful(c), NEW role \in Roles, Accepts(c, role, StateEvent("ConnectionClosed")),
           NEW f, f = process_event(c, role, StateEvent("ConnectionClosed"))
    PROVE  /\ Lawful(f)
           /\ state(c, role) \in {"Idle", "Done", "MustClose", "Closed"}
           /\ state(f, role) = "Closed"
           /\ Settles(peer(role), c, f)
           /\ f.keep_alive = c.keep_alive /\ KeepsProposals(c, f)
  <1> DEFINE ev == StateEvent("ConnectionClosed")
             d == WithState(c, role, "Closed")
  <1>1. ev \in StateEvents /\ ev.kind = "ConnectionClosed"
    BY DEF StateEvents, StateEvent
  <1>2. Lawful(f)
    BY <1>1, EventKeepsJoint DEF Lawful
  <1>3. /\ state(c, role) \in {"Idle", "Done", "MustClose", "Closed"}
        /\ direct_transition(role, state(c, role), ev.kind) = "Closed"
    BY <1>1 DEF Accepts, direct_transition, None
  <1>4. f = stabilize(d)
    BY <1>1, <1>3 DEF process_event, JointEffect
  <1>5. /\ d \in ConnectionStates /\ d.proposals = c.proposals /\ d.keep_alive = c.keep_alive
        /\ role = "client" => d.client = "Closed" /\ d.server = c.server
        /\ role = "server" => d.server = "Closed" /\ d.client = c.client
    BY DEF WithState, Lawful, ConnectionStates, States, Roles
  <1> HIDE DEF d
  <1> QED BY <1>2, <1>3, <1>4, <1>5, StabilizeEffect
          DEF state, peer, Settles, ClientSettles, ServerSettles, KeepsProposals, Roles

(* A protocol switch, by 101 or by a successful answer to CONNECT.          *)
LEMMA SwitchEffect ==
    ASSUME NEW c, Lawful(c), NEW k \in SwitchKinds, NEW role \in Roles,
           Accepts(c, role, ProtocolSwitch(k)),
           NEW f, f = process_event(c, role, ProtocolSwitch(k))
    PROVE  /\ Lawful(f) /\ role = "server"
           /\ c.server = "SendResponse" /\ f.server = "SwitchedProtocol"
           /\ k \in c.proposals /\ ClientSettles(c.client, f.client)
           /\ f.keep_alive = c.keep_alive
  <1> DEFINE ev == ProtocolSwitch(k)
             d == [c EXCEPT !.server = "SwitchedProtocol"]
  <1>1. ev \in StateEvents /\ ev.kind = "ProtocolSwitch" /\ ev.switches = {k}
    BY DEF StateEvents, ProtocolSwitch
  <1>2. Lawful(f)
    BY <1>1, EventKeepsJoint DEF Lawful
  <1>3. /\ role = "server" /\ c.server = "SendResponse" /\ k \in c.proposals
        /\ direct_transition(role, state(c, role), ev.kind) = "SwitchedProtocol"
    BY <1>1 DEF Accepts, direct_transition, None, state, Roles
  <1>4. f = stabilize(d)
    BY <1>1, <1>3 DEF process_event, JointEffect, WithState
  <1>5. /\ d \in ConnectionStates /\ d.keep_alive = c.keep_alive
        /\ d.server = "SwitchedProtocol" /\ d.client = c.client
    BY DEF Lawful, ConnectionStates, States
  <1> HIDE DEF d
  <1> QED BY <1>2, <1>3, <1>4, <1>5, StabilizeEffect DEF ClientSettles

(* disable_keep_alive: both actors settle.                                  *)
LEMMA DisableEffect ==
    ASSUME NEW c, Lawful(c), NEW f, f = disable_keep_alive(c)
    PROVE  /\ Lawful(f) /\ ~f.keep_alive
           /\ ClientSettles(c.client, f.client) /\ ServerSettles(c.server, f.server)
           /\ c.client = "Idle" => f.client = "Idle"
           /\ c.server = "Idle" => f.server = "Idle"
           /\ KeepsProposals(c, f)
  <1> DEFINE d == [c EXCEPT !.keep_alive = FALSE]
  <1>1. /\ d \in ConnectionStates /\ ~d.keep_alive /\ d.proposals = c.proposals
        /\ d.client = c.client /\ d.server = c.server
    BY DEF Lawful, ConnectionStates
  <1>2. Lawful(f)
    BY DisableKeepsJoint DEF Lawful
  <1>3. f = stabilize(d)
    BY DEF disable_keep_alive
  <1>4. /\ c.server = "Closed" => c.client # "Idle"
        /\ c.client = "Closed" => c.server # "Idle"
    BY DEF Lawful, Stable, Propagated
  <1> HIDE DEF d
  <1> QED BY <1>1, <1>2, <1>3, <1>4, StabilizeEffect DEF ClientSettles, ServerSettles, KeepsProposals

(* process_error: the actor that is being read fails.                       *)
LEMMA ErrorEffect ==
    ASSUME NEW c, Lawful(c), NEW role \in Roles,
           state(c, role) \in {"Idle", "SendResponse", "SendBody", "Error"},
           NEW f, f = process_error(c, role)
    PROVE  /\ Lawful(f) /\ ~f.keep_alive
           /\ state(f, role) = "Error"
           /\ Settles(peer(role), c, f)
           /\ KeepsProposals(c, f)
  <1> DEFINE d == WithState([c EXCEPT !.keep_alive = FALSE], role, "Error")
  <1>1. /\ d \in ConnectionStates /\ ~d.keep_alive /\ d.proposals = c.proposals
        /\ role = "client" => d.client = "Error" /\ d.server = c.server
        /\ role = "server" => d.server = "Error" /\ d.client = c.client
    BY DEF WithState, Lawful, ConnectionStates, States, Roles
  <1>2. Lawful(f)
    BY ErrorKeepsJoint DEF Lawful
  <1>3. f = stabilize(d)
    BY DEF process_error
  <1> HIDE DEF d
  <1> QED BY <1>1, <1>2, <1>3, StabilizeEffect
          DEF state, peer, Settles, ClientSettles, ServerSettles, KeepsProposals, Roles

----------------------------------------------------------------------------
(* Least numbers, for the proofs about positions in a sequence.  The order  *)
(* on Nat as a set of pairs: the library's facts about well-founded orders  *)
(* then need no operator as a parameter.                                    *)
Less == {pair \in Nat \X Nat : pair[1] < pair[2]}

(* No sequence of numbers decreases for ever.                               *)
LEMMA LessIsWellFounded == WF!IsWellFoundedOn(Less, Nat)
  BY WF!NatLessThanWellFounded, Zenon DEF WF!OpToRel, Less

(* A set of numbers that is not empty has a least element.                  *)
LEMMA LeastExists ==
    ASSUME NEW T, T \subseteq Nat, T # {}
    PROVE  \E x \in T : \A y \in T : x <= y
  <1>1. PICK x \in T : \A y \in T : ~(<<y, x>> \in Less)
    BY LessIsWellFounded, WF!WFMin, Zenon
  <1>2. ASSUME NEW y \in T PROVE x <= y
    <2>1. x \in Nat /\ y \in Nat
      OBVIOUS
    <2>2. y < x => <<y, x>> \in Less
      BY <2>1 DEF Less
    <2> QED BY <1>1, <2>1, <2>2
  <1> QED BY <1>2

----------------------------------------------------------------------------
LOCAL INSTANCE SequencesExt

(* Min, and with it the position that SelectInSeq returns.                  *)
LEMMA MinIsLeast ==
    ASSUME NEW T, T \subseteq Nat, T # {}
    PROVE  Min(T) \in T /\ \A y \in T : Min(T) <= y
  BY LeastExists DEF Min

(* A section is a prefix of the input.                                      *)
LEMMA PrefixIsInitial ==
    ASSUME NEW X, NEW s \in Seq(X), NEW n \in Nat
    PROVE  /\ Prefix(s, n) \in Seq(X)
           /\ Len(Prefix(s, n)) <= Len(s)
           /\ \A i \in 1..Len(Prefix(s, n)) : Prefix(s, n)[i] = s[i]
  <1> DEFINE m == IF n < Len(s) THEN n ELSE Len(s)
  <1>1. m \in 0..Len(s)
    BY LenProperties
  <1>2. SubSeq(s, 1, m) \in Seq(X) /\ Len(SubSeq(s, 1, m)) = m
        /\ \A i \in 1..m : SubSeq(s, 1, m)[i] = s[i]
    BY <1>1, SubSeqProperties
  <1> QED BY <1>1, <1>2 DEF Prefix

(* What is left of the input once n symbols are taken.                      *)
LEMMA SkipLeavesRest ==
    ASSUME NEW X, NEW s \in Seq(X), NEW n \in 0..Len(s)
    PROVE  /\ Skip(s, n) \in Seq(X)
           /\ Len(Skip(s, n)) = Len(s) - n
           /\ \A i \in 1..(Len(s) - n) : Skip(s, n)[i] = s[i + n]
  <1>1. Len(s) \in Nat
    BY LenProperties
  <1> QED BY <1>1, SubSeqProperties DEF Skip

(* The first symbol of a sequence that has one.                             *)
LEMMA FirstElement ==
    ASSUME NEW X, NEW s \in Seq(X), s # <<>>
    PROVE  s[1] \in X /\ Len(s) >= 1
  <1>1. Len(s) \in Nat \ {0}
    BY EmptySeq
  <1> QED BY <1>1, ElementOfSeq

(* find_crlf returns a position of the input, or 0.                         *)
LEMMA LineEnd ==
    ASSUME NEW X, NEW s \in Seq(X)
    PROVE  find_crlf(s) \in 0..Len(s)
  <1> DEFINE I == {i \in 1..Len(s) : s[i].tok \in {"crlf", "field", "head"}}
  <1>1. find_crlf(s) = IF I # {} THEN Min(I) ELSE 0
    BY DEF find_crlf, SelectInSeq
  <1>2. I \subseteq Nat /\ Len(s) \in Nat
    BY LenProperties
  <1>3. I # {} => Min(I) \in I
    BY <1>2, MinIsLeast
  <1> QED BY <1>1, <1>2, <1>3

(* An unfinished line is counted without a byte at most.                    *)
LEMMA UnfinishedLine ==
    ASSUME NEW X, NEW s \in Seq(X)
    PROVE  incomplete_line_len(s) \in Int /\ incomplete_line_len(s) <= Len(s)
  <1>1. Len(s) \in Nat
    BY LenProperties
  <1>2. \/ incomplete_line_len(s) = Len(s) - 1
        \/ incomplete_line_len(s) = Len(s) - 0
    BY DEF incomplete_line_len
  <1> QED BY <1>1, <1>2

(* A complete trailer section ends within the input.                        *)
LEMMA TrailersEnd ==
    ASSUME NEW X, NEW s \in Seq(X), NEW p, p = parse_trailers(s)
    PROVE  /\ p.status \in {"Partial", "Err", "Complete"}
           /\ p.status = "Complete" => p.end \in 1..Len(s)
  <1> DEFINE I == {i \in 1..Len(s) : s[i].tok \notin {"byte", "hex", "field"}}
             stop == IF I # {} THEN Min(I) ELSE 0
             fresh == stop = 1 \/ s[stop - 1].tok = "field"
  <1>1. p = IF stop = 0 \/ (fresh /\ AwaitsLf(s, stop)) THEN Parsed("Partial", 0)
            ELSE IF s[stop].tok = "crlf" /\ fresh THEN Parsed("Complete", stop)
            ELSE Parsed("Err", 0)
    BY DEF parse_trailers, SelectInSeq
  <1>2. stop # 0 => stop \in 1..Len(s)
    BY MinIsLeast
  <1> HIDE DEF stop
  <1> QED BY <1>1, <1>2 DEF Parsed

(* A complete head ends with the first head symbol of the input, and that   *)
(* one is of the kind asked for.                                            *)
LEMMA HeadEnd ==
    ASSUME NEW X, NEW s \in Seq(X), NEW kind, NEW lenient, NEW p, p = parse_head(s, kind, lenient)
    PROVE  /\ p.status \in {"Partial", "Err", "Complete"}
           /\ p.status = "Complete" =>
                 /\ p.end \in 1..Len(s)
                 /\ s[p.end].tok = "head" /\ s[p.end].h.kind = kind
                 /\ \A j \in 1..(p.end - 1) : s[j].tok # "head"
  <1> DEFINE I == {i \in 1..Len(s) : s[i].tok \notin {"crlf", "byte", "hex"}}
             stop == IF I # {} THEN Min(I) ELSE 0
  <1>1. \/ p = Parsed("Err", 0) \/ p = Parsed("Partial", 0)
        \/ /\ p = Parsed("Complete", stop) /\ stop # 0
           /\ s[stop].tok = "head" /\ s[stop].h.kind = kind
    BY DEF parse_head, SelectInSeq
  <1>2. stop # 0 => stop \in I /\ \A j \in I : stop <= j
    <2>1. I \subseteq Nat
      BY LenProperties
    <2> QED BY <2>1, MinIsLeast
  <1>3. ASSUME stop # 0, NEW j \in 1..(stop - 1) PROVE s[j].tok # "head"
    <2>1. Len(s) \in Nat
      BY LenProperties
    <2>2. j \in 1..Len(s) /\ j < stop
      BY <1>2, <1>3, <2>1
    <2>3. \A i \in I : stop <= i
      BY <1>2, <1>3
    <2>4. stop \in Nat
      BY <1>2, <1>3, <2>1
    <2>5. j \notin I
      <3> HIDE DEF I, stop
      <3> QED BY <2>2, <2>3, <2>4
    <2>6. s[j].tok \in {"crlf", "byte", "hex"}
      BY <2>2, <2>5, Zenon
    <2> QED BY <2>6
  <1> HIDE DEF stop
  <1> QED BY <1>1, <1>2, <1>3 DEF Parsed

----------------------------------------------------------------------------
(* Types.                                                                   *)

(* What ConnectionAssumption says of the symbols of one setting.            *)
SymbolsOK(X) == \A x \in X : /\ x.tok = "head" => x.h \in MessageHeads
                             /\ x.tok = "hex" => x.n \in Nat

(* The framings of content; only a response may be delimited by the end of  *)
(* the connection.                                                          *)
IsFraming(f, response) ==
    \/ f = Chunked
    \/ f = CloseDelimited /\ response
    \/ \E n \in Nat : f = Fixed(n)

(* framing accepts nothing but a framing.                                   *)
LEMMA FramingValue ==
    ASSUME NEW h \in MessageHeads, NEW version, NEW response \in BOOLEAN,
           framing(h, version, response) # FramingError
    PROVE  IsFraming(framing(h, version, response), response)
  <1>1. h.cl \in Seq(Nat \cup {BadLength})
    BY DEF MessageHeads
  <1>2. h.cl # <<>> => h.cl[1] \in Nat \cup {BadLength}
    BY <1>1, FirstElement, Zenon
  <1>3. h.cl # <<>> /\ h.cl[1] # BadLength => h.cl[1] \in Nat
    BY <1>2, Zenon
  <1>4. CodingsFraming(h.te, response) \in {FramingError, Chunked}
        \/ (CodingsFraming(h.te, response) = CloseDelimited /\ response)
    BY DEF CodingsFraming
  <1>5. \/ framing(h, version, response) \in {FramingError, CodingsFraming(h.te, response)}
        \/ framing(h, version, response) = CloseDelimited /\ response
        \/ framing(h, version, response) = Fixed(0)
        \/ /\ framing(h, version, response) = Fixed(h.cl[1])
           /\ h.cl # <<>> /\ h.cl[1] # BadLength
    BY DEF framing
  <1>6. 0 \in Nat
    OBVIOUS
  <1> QED BY <1>3, <1>4, <1>5, <1>6 DEF IsFraming

(* The framing of a response to be sent, whichever rule chooses it.         *)
LEMMA ResponseFramingValue ==
    ASSUME NEW c, NEW h \in MessageHeads, response_framing(c, h) # FramingError
    PROVE  IsFraming(response_framing(c, h), TRUE)
  <1> DEFINE bodyless == response_has_no_body(c, h.status)
             declared == framing(h, h.version, bodyless)
  <1>1. bodyless \in BOOLEAN
    BY DEF response_has_no_body, opens_tunnel
  <1>2. declared # FramingError => IsFraming(declared, TRUE)
    BY <1>1, FramingValue DEF IsFraming
  <1>3. 0 \in Nat /\ IsFraming(Fixed(0), TRUE) /\ IsFraming(Chunked, TRUE)
        /\ IsFraming(CloseDelimited, TRUE)
    BY DEF IsFraming
  <1>4. response_framing(c, h) \in {FramingError, Fixed(0), Chunked, CloseDelimited, declared}
    BY DEF response_framing
  <1> QED BY <1>2, <1>3, <1>4

(* A framing as the writer, and as the reader it leads to.                  *)
LEMMA FramingShape ==
    ASSUME NEW f, NEW response, IsFraming(f, response), NEW r,
           r = Reader(IF f = Chunked THEN "ChunkSize" ELSE f.kind, f.n)
    PROVE  /\ f \in [kind : {None, "Fixed", "Chunked", "CloseDelimited"}, n : Nat]
           /\ f.kind # None /\ f # NoFraming
           /\ r \in Readers /\ r.n = f.n /\ ~r.first
           /\ r.kind \in {"Fixed", "ChunkSize", "CloseDelimited"}
           /\ r.kind = "CloseDelimited" => f = CloseDelimited /\ response
           /\ f.kind = "CloseDelimited" => f = CloseDelimited
  BY DEF IsFraming, Fixed, Chunked, CloseDelimited, NoFraming, None, Reader, Readers, ReaderKinds

(* Adding a Content-Length keeps a head a head.                             *)
LEMMA WithLengthIsHead ==
    ASSUME NEW h \in MessageHeads, NEW n \in Nat
    PROVE  WithLength(h, n) \in MessageHeads
  <1>1. Append(h.cl, n) \in Seq(Nat \cup {BadLength})
    BY AppendProperties DEF MessageHeads
  <1> QED BY <1>1 DEF WithLength, MessageHeads

(* A new connection has its type.                                           *)
LEMMA NewConnectionTyped ==
    ASSUME NEW X, NEW role \in Roles, NEW lenient \in BOOLEAN
    PROVE  NewConnection(role, lenient) \in Connections(X) /\ DefaultCycle \in Cycles
  <1>1. DefaultCycle \in Cycles
    BY DEF DefaultCycle, Cycles, ReadHead, Reader, Readers, ReaderKinds, NoFraming, None
  <1>2. <<>> \in Seq(X)
    BY EmptySeq
  <1> QED BY <1>1, <1>2, NewIsJoint DEF NewConnection, Connections

----------------------------------------------------------------------------
(* The invariant of a connection, part by part.  WriterMatches, ReaderMatches, *)
(* HeldFits, ProposalsMatch, WaitMatches and ExtensionsFit are the invariants  *)
(* of Connection as predicates of the connection; the rest strengthens them.   *)
WriterMatches(c) == (c.cycle.writer # NoFraming) <=> (local_state(c) = "SendBody")

(* The reader is at a head exactly where the peer is not in its message.    *)
ReaderMatches(c) ==
    /\ peer_state(c) = "SendBody" => c.cycle.reader.kind # "Head"
    /\ peer_state(c) \notin {"SendBody", "Error", "SwitchedProtocol"} => c.cycle.reader = ReadHead

(* Bytes that are held lie within the payload that is being read.           *)
HeldFits(c) == c.held > 0 => WithinPayload(c, c.held)

(* A chunk that is started and not finished has bytes to come, and only a   *)
(* response is read to the end of the connection.                           *)
ReaderShape(c) ==
    /\ c.cycle.reader.first => c.cycle.reader.kind = "ChunkData"
    /\ c.cycle.reader.kind = "ChunkData" => c.cycle.reader.n > 0
    /\ c.cycle.reader.kind = "CloseDelimited" => c.role = "client" /\ ~c.st.keep_alive
    /\ c.cycle.writer.kind = "CloseDelimited" => ~c.st.keep_alive

(* The state machine and the cycle remember the same proposals.             *)
ProposalsMatch(c) ==
    c.st.server = "SendResponse" =>
        /\ ("Connect" \in c.st.proposals) <=> (c.cycle.request_kind = "CONNECT")
        /\ ("Upgrade" \in c.st.proposals) <=> (c.cycle.upgrade_proposals # {})

(* A 101 is refused while the client waits, which is why none of them can   *)
(* leave a client waiting.                                                  *)
WaitMatches(c) ==
    c.cycle.waiting_for_continue =>
        /\ c.st.server \in {"SendResponse", "Error"}
        /\ c.cycle.upgrade_proposals # {} => c.cycle.continue_before_upgrade

(* What a call that fails with a peer error keeps.                          *)
Coherent(c) ==
    /\ Lawful(c.st)
    /\ WriterMatches(c)
    /\ ReaderShape(c)
    /\ ProposalsMatch(c)
    /\ WaitMatches(c)

(* Only an error leaves chunk extensions beyond the limit.                  *)
ExtensionsFit(c) == peer_state(c) # "Error" => c.cycle.chunk_extension_bytes <= MaxHead

(* The invariant of a connection between two calls.                         *)
Sound(c) == Coherent(c) /\ ReaderMatches(c) /\ HeldFits(c) /\ ExtensionsFit(c)

(* A new connection satisfies it.                                           *)
LEMMA NewConnectionSound ==
    ASSUME NEW role \in Roles, NEW lenient \in BOOLEAN, NEW c, c = NewConnection(role, lenient)
    PROVE  Sound(c)
  <1>1. c.role = role /\ c.held = 0 /\ c.st = new /\ c.cycle = DefaultCycle
    BY DEF NewConnection
  <1>2. c.st.client = "Idle" /\ c.st.server = "Idle" /\ Lawful(c.st)
    BY <1>1, NewIsJoint DEF new, Lawful
  <1>3. /\ c.cycle.reader = ReadHead /\ c.cycle.writer = NoFraming
        /\ c.cycle.chunk_extension_bytes = 0 /\ ~c.cycle.waiting_for_continue
    BY <1>1 DEF DefaultCycle
  <1>4. local_state(c) = "Idle" /\ peer_state(c) = "Idle"
    BY <1>2 DEF local_state, peer_state, state
  <1>5. Coherent(c)
    BY <1>2, <1>3, <1>4 DEF Coherent, WriterMatches, ReaderShape, ProposalsMatch, WaitMatches,
                           ReadHead, Reader, NoFraming, None
  <1> QED BY <1>1, <1>3, <1>4, <1>5, MaxHeadAssumption DEF Sound, ReaderMatches, HeldFits, ExtensionsFit

----------------------------------------------------------------------------
(* Which events a state accepts.                                            *)
LEMMA BodyAccepts ==
    ASSUME NEW c, NEW role, state(c, role) = "SendBody"
    PROVE  Accepts(c, role, StateEvent("Data")) /\ Accepts(c, role, StateEvent("EndOfMessage"))
  BY DEF Accepts, StateEvent, direct_transition, None

(* A peer between messages may close.                                       *)
LEMMA FinishedAccepts ==
    ASSUME NEW c, NEW role, state(c, role) \in {"Idle", "Done", "MustClose", "Closed"}
    PROVE  Accepts(c, role, StateEvent("ConnectionClosed"))
  BY DEF Accepts, StateEvent, direct_transition, None

----------------------------------------------------------------------------
(* Receiving.  What a poll leaves alone when it only moves the decoder, and *)
(* when it also moves the peer.                                             *)
Fixtures(c, d) ==
    /\ d.role = c.role /\ d.lenient = c.lenient /\ d.held = c.held /\ d.eof = c.eof
    /\ d.cycle.writer = c.cycle.writer

(* A poll that moves the decoder and nothing else.                          *)
Reads(c, d) ==
    /\ Fixtures(c, d)
    /\ d.st = c.st /\ d.peer_version = c.peer_version
    /\ d.cycle.request_kind = c.cycle.request_kind
    /\ d.cycle.upgrade_proposals = c.cycle.upgrade_proposals
    /\ d.cycle.continue_before_upgrade = c.cycle.continue_before_upgrade

(* One Data event, from payload that is in the buffer or held.              *)
TakesPayload(c, p, available) ==
    LET r == c.cycle.reader
        q == p.c.cycle.reader
    IN  /\ p.kind = "Data" /\ p.count \in 1..available
        /\ Reads(c, p.c) /\ p.c.input = c.input /\ ~p.c.cycle.waiting_for_continue
        /\ p.c.cycle.chunk_extension_bytes = c.cycle.chunk_extension_bytes
        /\ p.chunk_start = r.first
        /\ \/ r.kind = "CloseDelimited" /\ q = r /\ ~p.chunk_end /\ p.count = available
           \/ /\ r.kind = "ChunkData" /\ p.count = r.n
              /\ q = Reader("ChunkDataEnd", 0) /\ p.chunk_end
           \/ /\ r.kind \in {"Fixed", "ChunkData"}
              /\ p.count <= r.n /\ (r.kind = "ChunkData" => p.count < r.n)
              /\ q = Reader(r.kind, r.n - p.count) /\ ~p.chunk_end
        /\ r.kind # "CloseDelimited" /\ available <= r.n => p.count = available

(* peer_data while the peer is in its body.                                 *)
LEMMA PeerDataEffect ==
    ASSUME NEW X, NEW c \in Connections(X), peer_state(c) = "SendBody",
           NEW count, NEW chunk_start, NEW chunk_end, NEW p, p = peer_data(c, count, chunk_start, chunk_end)
    PROVE  /\ p.kind = "Data" /\ p.count = count
           /\ p.chunk_start = chunk_start /\ p.chunk_end = chunk_end
           /\ p.c \in Connections(X) /\ Reads(c, p.c) /\ p.c.input = c.input
           /\ ~p.c.cycle.waiting_for_continue /\ p.c.cycle.reader = c.cycle.reader
           /\ p.c.cycle.chunk_extension_bytes = c.cycle.chunk_extension_bytes
  <1> DEFINE d == [c EXCEPT !.cycle.waiting_for_continue = FALSE]
  <1>1. PeerAccepts(c, StateEvent("Data"))
    BY BodyAccepts DEF PeerAccepts, peer_state
  <1>2. advance_peer(c, StateEvent("Data")) = c
    BY <1>1, DataEffect DEF PeerAccepts, advance_peer, Connections
  <1>3. p = [Polled("Data", d) EXCEPT !.count = count, !.chunk_start = chunk_start,
                                      !.chunk_end = chunk_end]
    BY <1>1, <1>2 DEF peer_data, IfPeerAccepts
  <1>4. /\ d \in Connections(X) /\ Reads(c, d) /\ d.input = c.input
        /\ ~d.cycle.waiting_for_continue /\ d.cycle.reader = c.cycle.reader
        /\ d.cycle.chunk_extension_bytes = c.cycle.chunk_extension_bytes
    BY DEF Connections, Cycles, Reads, Fixtures
  <1> HIDE DEF d
  <1> QED BY <1>3, <1>4 DEF Polled

(* advance_payload takes what is there, but no more than the payload.       *)
LEMMA AdvancePayloadEffect ==
    ASSUME NEW X, NEW c \in Connections(X), ReaderShape(c), payload_reader(c),
           NEW available \in Nat \ {0}, NEW p, p = advance_payload(c, available)
    PROVE  p.c \in Connections(X) /\ TakesPayload(c, p, available)
  <1> DEFINE r == c.cycle.reader
             sized == r.kind \in {"Fixed", "ChunkData"}
             count == IF sized /\ r.n < available THEN r.n ELSE available
             atEnd == r.kind = "ChunkData" /\ count = r.n
             next == IF ~sized THEN r
                     ELSE IF atEnd THEN Reader("ChunkDataEnd", 0) ELSE Reader(r.kind, r.n - count)
             d == [c EXCEPT !.cycle.reader = next]
  <1>1. p = peer_data(d, count, r.first, atEnd)
    BY DEF advance_payload
  <1>2. /\ r \in Readers /\ r.n \in Nat /\ r.kind \in {"Fixed", "ChunkData", "CloseDelimited"}
        /\ r.kind # "CloseDelimited" => r.n > 0
    BY DEF Connections, Cycles, Readers, payload_reader, ReaderShape
  <1>3. /\ count \in 1..available /\ (sized => count <= r.n)
        /\ available <= r.n => count = available
        /\ ~sized => count = available
    BY <1>2
  <1>4. next \in Readers
    BY <1>2, <1>3 DEF Reader, Readers, ReaderKinds
  <1> HIDE DEF next, count, atEnd
  <1>5. /\ d \in Connections(X) /\ d.cycle.reader = next /\ Reads(c, d) /\ d.input = c.input
        /\ d.cycle.chunk_extension_bytes = c.cycle.chunk_extension_bytes
    BY <1>4 DEF Connections, Cycles, Reads, Fixtures
  <1>6. peer_state(d) = "SendBody"
    BY <1>5 DEF Reads, Fixtures, peer_state, payload_reader
  <1> HIDE DEF d
  <1>7. /\ p.kind = "Data" /\ p.count = count
        /\ p.chunk_start = r.first /\ p.chunk_end = atEnd
        /\ p.c \in Connections(X) /\ Reads(d, p.c) /\ p.c.input = d.input
        /\ ~p.c.cycle.waiting_for_continue /\ p.c.cycle.reader = d.cycle.reader
        /\ p.c.cycle.chunk_extension_bytes = d.cycle.chunk_extension_bytes
    BY <1>1, <1>5, <1>6, PeerDataEffect
  <1>8. Reads(c, p.c)
    BY <1>5, <1>7 DEF Reads, Fixtures
  <1>9. \/ r.kind = "CloseDelimited" /\ next = r /\ ~atEnd /\ count = available
        \/ r.kind = "ChunkData" /\ count = r.n /\ next = Reader("ChunkDataEnd", 0) /\ atEnd
        \/ /\ r.kind \in {"Fixed", "ChunkData"}
           /\ count <= r.n /\ (r.kind = "ChunkData" => count < r.n)
           /\ next = Reader(r.kind, r.n - count) /\ ~atEnd
    BY <1>2, <1>3 DEF next, atEnd
  <1> QED BY <1>3, <1>5, <1>7, <1>8, <1>9 DEF TakesPayload

(* The states in which a peer is read.                                      *)
Readable == {"Idle", "SendResponse", "SendBody", "Error"}

(* A poll that yields no event and leaves the connection as it is.  It is   *)
(* an error only for a peer that is being read, and not when the rest of a  *)
(* sized body is in the buffer.                                             *)
Idles(c, p) ==
    /\ p.c = c
    /\ p.kind \in {"NeedData", "Paused", "ConnectionClosed", "Err"}
    /\ p.kind = "NeedData" => WithinLimit(c)
    /\ p.kind = "Err" =>
          /\ peer_state(c) \in Readable
          /\ ~(/\ peer_state(c) = "SendBody"
               /\ c.cycle.reader.kind = "Fixed" /\ c.cycle.reader.n <= Len(c.input))

(* The end of the peer's message.                                           *)
Finishes(c, p) ==
    /\ p.kind = "EndOfMessage" /\ c.cycle.reader.kind # "ChunkData"
    /\ Fixtures(c, p.c) /\ p.c.peer_version = c.peer_version
    /\ Len(p.c.input) <= Len(c.input)
    /\ p.c.cycle = [c.cycle EXCEPT !.reader = ReadHead]
    /\ peer_state(c) = "SendBody"
    /\ p.c.st = process_event(c.st, peer(c.role), StateEvent("EndOfMessage"))
    /\ Accepts(c.st, peer(c.role), StateEvent("EndOfMessage"))

(* A poll of a peer inside its message, decoder and buffer as they are.     *)
BodyStep(X, c, p) ==
    /\ p.c \in Connections(X)
    /\ Idles(c, p) \/ Finishes(c, p) \/ TakesPayload(c, p, Len(c.input))

(* A buffer within the limit is within it.                                  *)
LEMMA ShortIsWithin ==
    ASSUME NEW X, NEW c \in Connections(X), Len(c.input) <= MaxHead
    PROVE  WithinLimit(c)
  BY LenProperties, MaxHeadAssumption DEF WithinLimit, Connections

(* An unfinished chunk line is too, with the CR that does not count.        *)
LEMMA LineIsWithin ==
    ASSUME NEW X, NEW c \in Connections(X), c.cycle.reader.kind = "ChunkSize",
           ~(incomplete_line_len(c.input) > MaxHead)
    PROVE  WithinLimit(c)
  <1>1. Len(c.input) \in Nat /\ MaxHead \in Nat
    BY LenProperties, MaxHeadAssumption DEF Connections
  <1>2. CASE c.input # <<>> /\ c.input[Len(c.input)].tok = "cr"
    <2>1. incomplete_line_len(c.input) = Len(c.input) - 1
      BY <1>2 DEF incomplete_line_len
    <2>2. Len(c.input) > MaxHead => Len(c.input) = MaxHead + 1
      BY <1>1, <2>1
    <2> QED BY <1>2, <2>2 DEF WithinLimit
  <1>3. CASE ~(c.input # <<>> /\ c.input[Len(c.input)].tok = "cr")
    <2>1. incomplete_line_len(c.input) = Len(c.input) - 0
      BY <1>3 DEF incomplete_line_len
    <2>2. Len(c.input) <= MaxHead
      BY <1>1, <2>1
    <2> QED BY <2>2, ShortIsWithin
  <1> QED BY <1>2, <1>3

(* need_data_or_eof.                                                        *)
LEMMA WaitingEffect ==
    ASSUME NEW X, NEW c \in Connections(X), peer_state(c) \in Readable, WithinLimit(c),
           ~(c.cycle.reader.kind = "Fixed" /\ c.cycle.reader.n <= Len(c.input)),
           NEW p, p = need_data_or_eof(c)
    PROVE  BodyStep(X, c, p)
  BY DEF need_data_or_eof, Polled, BodyStep, Idles

(* A poll that finds a protocol error.                                      *)
LEMMA ErrEffect ==
    ASSUME NEW X, NEW c \in Connections(X), peer_state(c) \in Readable,
           ~(c.cycle.reader.kind = "Fixed" /\ c.cycle.reader.n <= Len(c.input)),
           NEW p, p = Polled("Err", c)
    PROVE  BodyStep(X, c, p)
  BY DEF Polled, BodyStep, Idles

(* wait_for_section.                                                        *)
LEMMA WaitForSectionEffect ==
    ASSUME NEW X, NEW c \in Connections(X), peer_state(c) \in Readable,
           c.cycle.reader.kind # "Fixed", NEW p, p = wait_for_section(c)
    PROVE  BodyStep(X, c, p)
  <1>1. CASE Len(c.input) <= MaxHead
    <2>1. WithinLimit(c) /\ p = need_data_or_eof(c)
      BY <1>1, ShortIsWithin DEF wait_for_section
    <2> QED BY <2>1, WaitingEffect
  <1>2. CASE ~(Len(c.input) <= MaxHead)
    BY <1>2, ErrEffect DEF wait_for_section
  <1> QED BY <1>1, <1>2

(* finish_peer, after n symbols of a last section were taken.               *)
LEMMA FinishEffect ==
    ASSUME NEW X, NEW c \in Connections(X), Lawful(c.st), peer_state(c) = "SendBody",
           c.cycle.reader.kind # "ChunkData", NEW n \in 0..Len(c.input), NEW d, d = [c EXCEPT !.input = Skip(@, n)],
           NEW p, p = finish_peer(d)
    PROVE  BodyStep(X, c, p)
  <1> DEFINE ev == StateEvent("EndOfMessage")
             role == peer(c.role)
             e == [[d EXCEPT !.st = process_event(@, role, ev)] EXCEPT !.cycle.reader = ReadHead]
  <1>1. /\ d \in Connections(X) /\ d.st = c.st /\ d.cycle = c.cycle /\ Fixtures(c, d)
        /\ d.peer_version = c.peer_version
        /\ Len(d.input) <= Len(c.input)
    <2>1. /\ Skip(c.input, n) \in Seq(X) /\ Len(Skip(c.input, n)) = Len(c.input) - n
          /\ Len(c.input) \in Nat
      BY SkipLeavesRest, LenProperties DEF Connections
    <2>2. Len(Skip(c.input, n)) <= Len(c.input)
      BY <2>1
    <2> QED BY <2>1, <2>2 DEF Connections, Fixtures
  <1>2. Accepts(c.st, role, ev)
    BY BodyAccepts DEF peer_state
  <1>3. process_event(c.st, role, ev) \in ConnectionStates
    <2>1. role \in Roles
      BY DEF peer, Roles
    <2> QED BY <1>2, <2>1, EndEffect DEF Lawful
  <1>4. p = Polled("EndOfMessage", e)
    BY <1>1, <1>2 DEF finish_peer, IfPeerAccepts, PeerAccepts, advance_peer, Fixtures
  <1>5. ReadHead \in Readers
    BY DEF ReadHead, Reader, Readers, ReaderKinds
  <1> HIDE DEF ev, role
  <1>6. /\ e \in Connections(X) /\ Fixtures(c, e) /\ e.input = d.input
        /\ e.peer_version = c.peer_version
        /\ e.st = process_event(c.st, role, ev)
        /\ e.cycle = [c.cycle EXCEPT !.reader = ReadHead]
    BY <1>1, <1>3, <1>5 DEF Connections, Cycles, Fixtures
  <1> HIDE DEF e
  <1> QED BY <1>1, <1>2, <1>4, <1>6 DEF Polled, BodyStep, Finishes, ev, role

(* read_payload.                                                            *)
LEMMA ReadPayloadEffect ==
    ASSUME NEW X, NEW c \in Connections(X), ReaderShape(c), payload_reader(c),
           c.cycle.reader.kind # "CloseDelimited", NEW p, p = read_payload(c)
    PROVE  BodyStep(X, c, p)
  <1>1. /\ c.input \in Seq(X) /\ peer_state(c) = "SendBody" /\ c.cycle.reader.n \in Nat
        /\ c.cycle.reader.n > 0
    BY DEF Connections, Cycles, Readers, payload_reader, ReaderShape
  <1>2. CASE c.input = <<>>
    <2>1. Len(c.input) = 0 /\ Len(c.input) <= MaxHead
      BY <1>1, <1>2, EmptySeq, MaxHeadAssumption
    <2>2. WithinLimit(c)
      BY <2>1, ShortIsWithin
    <2> QED BY <1>1, <1>2, <2>1, <2>2, WaitingEffect DEF read_payload, Readable
  <1>3. CASE c.input # <<>>
    <2>1. Len(c.input) \in Nat \ {0}
      BY <1>1, <1>3, EmptySeq
    <2> QED BY <1>3, <2>1, AdvancePayloadEffect DEF read_payload, BodyStep
  <1> QED BY <1>2, <1>3

(* read_close_delimited.                                                    *)
LEMMA ReadCloseDelimitedEffect ==
    ASSUME NEW X, NEW c \in Connections(X), Lawful(c.st), ReaderShape(c), peer_state(c) = "SendBody",
           c.cycle.reader.kind = "CloseDelimited", NEW p, p = read_close_delimited(c)
    PROVE  BodyStep(X, c, p)
  <1>1. c.input \in Seq(X) /\ c.cycle.reader.first = FALSE
    BY DEF Connections, Cycles, Readers, ReaderShape
  <1>2. CASE c.input # <<>>
    <2>1. Len(c.input) \in Nat \ {0}
      BY <1>1, <1>2, EmptySeq
    <2> DEFINE no == FALSE
    <2>2. p = peer_data(c, Len(c.input), no, no)
      BY <1>2 DEF read_close_delimited
    <2>3. ~no /\ no = c.cycle.reader.first
      BY <1>1, Zenon
    <2> HIDE DEF no
    <2>4. /\ p.kind = "Data" /\ p.count = Len(c.input)
          /\ p.chunk_start = no /\ p.chunk_end = no
          /\ p.c \in Connections(X) /\ Reads(c, p.c) /\ p.c.input = c.input
          /\ ~p.c.cycle.waiting_for_continue /\ p.c.cycle.reader = c.cycle.reader
          /\ p.c.cycle.chunk_extension_bytes = c.cycle.chunk_extension_bytes
      BY <2>2, PeerDataEffect
    <2>5. ~p.chunk_end
      BY <2>3, <2>4, Zenon
    <2> QED BY <2>1, <2>3, <2>4, <2>5 DEF BodyStep, TakesPayload
  <1>3. CASE c.input = <<>> /\ c.eof
    <2>1. 0 \in 0..Len(c.input)
      BY <1>1, LenProperties
    <2>2. Skip(c.input, 0) = c.input
      BY <1>1, SubSeqFull DEF Skip
    <2>3. [c EXCEPT !.input = Skip(@, 0)] = c
      BY <2>2 DEF Connections
    <2> QED BY <1>3, <2>1, <2>3, FinishEffect DEF read_close_delimited
  <1>4. CASE c.input = <<>> /\ ~c.eof
    <2>1. Len(c.input) <= MaxHead
      BY <1>1, <1>4, EmptySeq, MaxHeadAssumption
    <2>2. WithinLimit(c)
      BY <2>1, ShortIsWithin
    <2> QED BY <1>4, <2>2 DEF read_close_delimited, Polled, BodyStep, Idles
  <1> QED BY <1>2, <1>3, <1>4

(* read_trailers.                                                           *)
LEMMA ReadTrailersEffect ==
    ASSUME NEW X, NEW c \in Connections(X), Lawful(c.st), peer_state(c) = "SendBody",
           c.cycle.reader.kind = "ChunkTrailers", NEW due, NEW p, p = read_trailers(c, due)
    PROVE  BodyStep(X, c, p)
  <1> DEFINE q == parse_trailers(section(c))
  <1>1. /\ q.status \in {"Partial", "Err", "Complete"}
        /\ q.status = "Complete" => q.end \in 0..Len(c.input)
    <2>1. /\ section(c) \in Seq(X) /\ Len(section(c)) <= Len(c.input)
          /\ Len(section(c)) \in Nat /\ Len(c.input) \in Nat
      BY PrefixIsInitial, LenProperties, MaxHeadAssumption DEF section, Connections
    <2>2. /\ q.status \in {"Partial", "Err", "Complete"}
          /\ q.status = "Complete" => q.end \in 1..Len(section(c))
      BY <2>1, TrailersEnd
    <2> QED BY <2>1, <2>2
  <1>2. CASE p = wait_for_section(c)
    BY <1>2, WaitForSectionEffect DEF Readable
  <1>3. CASE p = Polled("Err", c)
    BY <1>3, ErrEffect DEF Readable
  <1>4. CASE q.status = "Complete" /\ p = finish_peer([c EXCEPT !.input = Skip(@, q.end)])
    BY <1>1, <1>4, FinishEffect
  <1>5. \/ p = wait_for_section(c) \/ p = Polled("Err", c)
        \/ q.status = "Complete" /\ p = finish_peer([c EXCEPT !.input = Skip(@, q.end)])
    <2> HIDE DEF q
    <2>1. p = IF ~section_due(c, FALSE, due) \/ q.status = "Partial" THEN wait_for_section(c)
              ELSE IF q.status = "Err" THEN Polled("Err", c)
              ELSE finish_peer([c EXCEPT !.input = Skip(@, q.end)])
      BY DEF read_trailers, q
    <2> QED BY <1>1, <2>1
  <1> QED BY <1>2, <1>3, <1>4, <1>5

----------------------------------------------------------------------------
(* The way through a chunked body: what the line end of the last chunk and  *)
(* the next size line do to the decoder.                                    *)
Chunking(c, d) ==
    LET r == c.cycle.reader
        q == d.cycle.reader
    IN  /\ r.kind \in {"ChunkSize", "ChunkDataEnd"}
        /\ Reads(c, d) /\ d.cycle.waiting_for_continue = c.cycle.waiting_for_continue
        /\ Len(d.input) <= Len(c.input)
        /\ \/ q \in {r, Reader("ChunkSize", 0), Reader("ChunkTrailers", 0)}
           \/ \E k \in 1..Len(c.input) :
                 /\ c.input[k].tok = "hex" /\ c.input[k].n > 0
                 /\ \A j \in 1..(k - 1) : c.input[j].tok # "hex"
                 /\ q = [kind |-> "ChunkData", n |-> c.input[k].n, first |-> TRUE]

(* A poll between the chunks of a body: through d to a step of the body.    *)
(* The extensions are within the limit unless it fails.                     *)
ChunkStep(X, c, p) ==
    \E d \in Connections(X) :
        /\ Chunking(c, d)
        /\ BodyStep(X, d, p)
        /\ \/ p.kind = "Err"
           \/ d.cycle.chunk_extension_bytes <= MaxHead
           \/ d.cycle.chunk_extension_bytes = c.cycle.chunk_extension_bytes

(* Doing nothing is a way through.                                          *)
LEMMA ChunkingStays ==
    ASSUME NEW X, NEW c \in Connections(X), c.cycle.reader.kind \in {"ChunkSize", "ChunkDataEnd"},
           NEW p, BodyStep(X, c, p)
    PROVE  ChunkStep(X, c, p)
  <1>1. Chunking(c, c)
    <2>1. Len(c.input) <= Len(c.input)
      BY LenProperties DEF Connections
    <2> QED BY <2>1 DEF Chunking, Reads, Fixtures
  <1> QED BY <1>1 DEF ChunkStep

(* read_chunk_size.                                                         *)
LEMMA ReadChunkSizeEffect ==
    ASSUME NEW X, SymbolsOK(X), NEW c \in Connections(X), Lawful(c.st), ReaderShape(c),
           peer_state(c) = "SendBody", c.cycle.reader.kind = "ChunkSize",
           NEW due, NEW p, p = read_chunk_size(c, due)
    PROVE  ChunkStep(X, c, p)
  <1> DEFINE end == find_crlf(c.input)
             extensions == c.cycle.chunk_extension_bytes + end - 2
             counted == [c EXCEPT !.cycle.chunk_extension_bytes = extensions]
             rest == [counted EXCEPT !.input = Skip(@, end)]
             size == c.input[1].n
             atTrailers == [rest EXCEPT !.cycle.reader = Reader("ChunkTrailers", 0)]
             atData == [rest EXCEPT !.cycle.reader = [kind |-> "ChunkData", n |-> size, first |-> TRUE]]
  <1>1. end \in 0..Len(c.input) /\ Len(c.input) \in Nat /\ c.input \in Seq(X)
    BY LineEnd, LenProperties DEF Connections
  <1>2. \/ p = Polled("Err", c)
        \/ p = need_data_or_eof(c) /\ ~(incomplete_line_len(c.input) > MaxHead)
        \/ /\ valid_chunk_header(c.input, end)
           /\ \/ p = Polled("Err", counted)
              \/ extensions <= MaxHead /\ size = 0 /\ p = read_trailers(atTrailers, due)
              \/ extensions <= MaxHead /\ size # 0 /\ p = read_payload(atData)
    <2> HIDE DEF end, counted, atTrailers, atData, size
    <2>1. p = IF end = 0 THEN IF incomplete_line_len(c.input) > MaxHead THEN Polled("Err", c) ELSE need_data_or_eof(c)
              ELSE IF end - 1 > MaxHead \/ ~valid_chunk_header(c.input, end) THEN Polled("Err", c)
              ELSE IF extensions > MaxHead THEN Polled("Err", counted)
              ELSE IF size = 0 THEN read_trailers(atTrailers, due)
              ELSE read_payload(atData)
      BY DEF read_chunk_size, end, counted, atTrailers, atData, size
    <2>2. extensions \in Int
      BY <1>1 DEF Connections, Cycles, end
    <2> QED BY <1>1, <2>1, <2>2, MaxHeadAssumption
  <1>3. CASE p = Polled("Err", c)
    BY <1>3, ErrEffect, ChunkingStays DEF Readable
  <1>4. CASE p = need_data_or_eof(c) /\ ~(incomplete_line_len(c.input) > MaxHead)
    <2>1. WithinLimit(c)
      BY <1>4, LineIsWithin
    <2> QED BY <1>4, <2>1, WaitingEffect, ChunkingStays DEF Readable
  <1>5. CASE valid_chunk_header(c.input, end)
    <2>1. /\ end > 1 /\ 1 \in 1..Len(c.input) /\ c.input[1].tok = "hex" /\ size \in Nat
          /\ c.input # <<>>
      <3>1. end > 1 /\ c.input[1].tok = "hex" /\ 1 \in 1..Len(c.input)
        BY <1>1, <1>5 DEF valid_chunk_header
      <3>2. c.input[1] \in X
        BY <1>1, <3>1, ElementOfSeq
      <3>3. c.input # <<>>
        BY <3>1, <1>1, EmptySeq
      <3> QED BY <3>1, <3>2, <3>3 DEF SymbolsOK
    <2>2. extensions \in Nat
      BY <1>1, <2>1 DEF Connections, Cycles
    <2>3. /\ Skip(c.input, end) \in Seq(X) /\ Len(Skip(c.input, end)) <= Len(c.input)
      BY <1>1, SkipLeavesRest
    <2> HIDE DEF extensions, end, size
    <2>4. /\ counted \in Connections(X) /\ Reads(c, counted) /\ counted.cycle.reader = c.cycle.reader
          /\ counted.input = c.input
          /\ counted.cycle.waiting_for_continue = c.cycle.waiting_for_continue
      BY <2>2 DEF Connections, Cycles, Reads, Fixtures
    <2>5. CASE p = Polled("Err", counted)
      <3>1. Chunking(c, counted)
        <4> HIDE DEF counted
        <4>1. Len(counted.input) <= Len(c.input)
          BY <1>1, <2>4
        <4> QED BY <2>4, <4>1 DEF Chunking
      <3>2. BodyStep(X, counted, p)
        <4>1. peer_state(counted) \in Readable /\ counted.cycle.reader.kind # "Fixed"
          <5> HIDE DEF counted
          <5> QED BY <2>4 DEF Reads, Fixtures, peer_state, Readable
        <4> HIDE DEF counted
        <4> QED BY <2>4, <2>5, <4>1, ErrEffect
      <3> QED BY <2>4, <2>5, <3>1, <3>2 DEF ChunkStep, Polled
    <2>6. ASSUME NEW r \in Readers PROVE
             LET d == [rest EXCEPT !.cycle.reader = r]
             IN  /\ d \in Connections(X) /\ Reads(c, d) /\ d.cycle.reader = r
                 /\ d.input = Skip(c.input, end)
                 /\ d.cycle.waiting_for_continue = c.cycle.waiting_for_continue
                 /\ d.cycle.chunk_extension_bytes = extensions
      BY <2>2, <2>3 DEF Connections, Cycles, Reads, Fixtures
    <2>7. CASE extensions <= MaxHead /\ size = 0 /\ p = read_trailers(atTrailers, due)
      <3>1. Reader("ChunkTrailers", 0) \in Readers
        BY DEF Reader, Readers, ReaderKinds
      <3>2. /\ atTrailers \in Connections(X) /\ Reads(c, atTrailers)
            /\ atTrailers.cycle.reader = Reader("ChunkTrailers", 0)
            /\ atTrailers.input = Skip(c.input, end)
            /\ atTrailers.cycle.waiting_for_continue = c.cycle.waiting_for_continue
            /\ atTrailers.cycle.chunk_extension_bytes = extensions
        BY <2>6, <3>1
      <3> HIDE DEF atTrailers
      <3>3. Chunking(c, atTrailers)
        BY <2>3, <3>2 DEF Chunking
      <3>4. /\ Lawful(atTrailers.st) /\ peer_state(atTrailers) = "SendBody"
            /\ atTrailers.cycle.reader.kind = "ChunkTrailers"
        BY <3>2 DEF Reads, Fixtures, peer_state, Reader
      <3>5. BodyStep(X, atTrailers, p)
        BY <2>7, <3>2, <3>4, ReadTrailersEffect
      <3> QED BY <2>7, <3>2, <3>3, <3>5 DEF ChunkStep
    <2>8. CASE extensions <= MaxHead /\ size # 0 /\ p = read_payload(atData)
      <3> DEFINE r == [kind |-> "ChunkData", n |-> size, first |-> TRUE]
      <3>1. r \in Readers /\ r.kind = "ChunkData" /\ r.n = size /\ r.first /\ size > 0
        BY <2>1, <2>8 DEF Readers, ReaderKinds
      <3>2. /\ atData \in Connections(X) /\ Reads(c, atData) /\ atData.cycle.reader = r
            /\ atData.input = Skip(c.input, end)
            /\ atData.cycle.waiting_for_continue = c.cycle.waiting_for_continue
            /\ atData.cycle.chunk_extension_bytes = extensions
        BY <2>6, <3>1
      <3> HIDE DEF atData
      <3>3. Chunking(c, atData)
        <4>1. \A j \in 1..(1 - 1) : c.input[j].tok # "hex"
          OBVIOUS
        <4> QED BY <2>1, <2>3, <3>1, <3>2, <4>1 DEF Chunking, size
      <3> HIDE DEF r
      <3>4. /\ payload_reader(atData) /\ atData.cycle.reader.kind # "CloseDelimited"
            /\ ReaderShape(atData)
        BY <3>1, <3>2 DEF Reads, Fixtures, peer_state, payload_reader, ReaderShape
      <3>5. BodyStep(X, atData, p)
        BY <2>8, <3>2, <3>4, ReadPayloadEffect
      <3> QED BY <2>8, <3>2, <3>3, <3>5 DEF ChunkStep
    <2> QED BY <1>2, <1>3, <1>4, <2>5, <2>7, <2>8
  <1> QED BY <1>2, <1>3, <1>4, <1>5

(* read_chunk_end.                                                          *)
LEMMA ReadChunkEndEffect ==
    ASSUME NEW X, SymbolsOK(X), NEW c \in Connections(X), Lawful(c.st), ReaderShape(c),
           peer_state(c) = "SendBody", c.cycle.reader.kind = "ChunkDataEnd",
           NEW due, NEW p, p = read_chunk_end(c, due)
    PROVE  ChunkStep(X, c, p)
  <1> DEFINE b == [c EXCEPT !.input = Skip(@, 1), !.cycle.reader = Reader("ChunkSize", 0)]
  <1>1. c.input \in Seq(X) /\ Len(c.input) \in Nat
    BY LenProperties DEF Connections
  <1>2. CASE p = need_data_or_eof(c) /\ (c.input = <<>> \/ Len(c.input) = 1)
    <2>1. c.input = <<>> => Len(c.input) = 0
      BY <1>1, EmptySeq
    <2>2. \A n \in {0, 1} : n <= MaxHead
      BY MaxHeadAssumption
    <2>3. Len(c.input) \in {0, 1}
      BY <1>2, <2>1
    <2>4. Len(c.input) <= MaxHead
      BY <2>2, <2>3, Zenon
    <2>5. WithinLimit(c)
      BY <2>4, ShortIsWithin
    <2> QED BY <1>2, <2>5, WaitingEffect, ChunkingStays DEF Readable
  <1>3. CASE p = Polled("Err", c)
    BY <1>3, ErrEffect, ChunkingStays DEF Readable
  <1>4. CASE /\ c.input # <<>> /\ c.input[1].tok = "crlf"
             /\ p = read_chunk_size(b, due)
    <2>1. Len(c.input) >= 1 /\ 1 \in 0..Len(c.input)
      BY <1>1, <1>4, FirstElement
    <2>2. /\ Skip(c.input, 1) \in Seq(X) /\ Len(Skip(c.input, 1)) = Len(c.input) - 1
          /\ \A i \in 1..(Len(c.input) - 1) : Skip(c.input, 1)[i] = c.input[i + 1]
      BY <1>1, <2>1, SkipLeavesRest
    <2>3. Reader("ChunkSize", 0) \in Readers /\ Reader("ChunkSize", 0).kind = "ChunkSize"
          /\ Reader("ChunkSize", 0).first = FALSE
      BY DEF Reader, Readers, ReaderKinds
    <2>4. /\ b \in Connections(X) /\ Reads(c, b) /\ b.input = Skip(c.input, 1)
          /\ b.cycle.reader = Reader("ChunkSize", 0)
          /\ b.cycle.waiting_for_continue = c.cycle.waiting_for_continue
          /\ b.cycle.chunk_extension_bytes = c.cycle.chunk_extension_bytes
      BY <2>2, <2>3 DEF Connections, Cycles, Reads, Fixtures
    <2> HIDE DEF b
    <2>5. /\ Lawful(b.st) /\ ReaderShape(b) /\ peer_state(b) = "SendBody"
          /\ b.cycle.reader.kind = "ChunkSize"
      BY <2>3, <2>4 DEF Reads, Fixtures, ReaderShape, peer_state
    <2>6. PICK d \in Connections(X) :
             /\ Chunking(b, d) /\ BodyStep(X, d, p)
             /\ \/ p.kind = "Err" \/ d.cycle.chunk_extension_bytes <= MaxHead
                \/ d.cycle.chunk_extension_bytes = b.cycle.chunk_extension_bytes
      BY <1>4, <2>4, <2>5, ReadChunkSizeEffect DEF ChunkStep
    <2>7. Chunking(c, d)
      <3>1. Reads(c, d) /\ d.cycle.waiting_for_continue = c.cycle.waiting_for_continue
        BY <2>4, <2>6 DEF Chunking, Reads, Fixtures
      <3>2. Len(d.input) <= Len(c.input)
        <4>1. Len(d.input) \in Nat /\ Len(d.input) <= Len(c.input) - 1
          BY <2>2, <2>4, <2>6, LenProperties DEF Chunking, Connections
        <4> QED BY <1>1, <4>1
      <3>3. \/ d.cycle.reader \in {Reader("ChunkSize", 0), Reader("ChunkTrailers", 0)}
            \/ \E k \in 1..Len(b.input) :
                  /\ b.input[k].tok = "hex" /\ b.input[k].n > 0
                  /\ \A j \in 1..(k - 1) : b.input[j].tok # "hex"
                  /\ d.cycle.reader = [kind |-> "ChunkData", n |-> b.input[k].n, first |-> TRUE]
        BY <2>4, <2>6 DEF Chunking
      <3>4. ASSUME NEW k \in 1..Len(b.input),
                   b.input[k].tok = "hex", b.input[k].n > 0,
                   \A j \in 1..(k - 1) : b.input[j].tok # "hex",
                   d.cycle.reader = [kind |-> "ChunkData", n |-> b.input[k].n, first |-> TRUE]
            PROVE Chunking(c, d)
        <4>1. k \in 1..(Len(c.input) - 1) /\ k + 1 \in 1..Len(c.input) /\ k \in Nat
          BY <1>1, <2>1, <2>2, <2>4
        <4>2. c.input[k + 1] = b.input[k]
          BY <2>2, <2>4, <4>1
        <4>3. ASSUME NEW j \in 1..((k + 1) - 1) PROVE c.input[j].tok # "hex"
          <5>1. CASE j = 1
            BY <1>4, <5>1
          <5>2. CASE j # 1
            <6>1. j - 1 \in 1..(k - 1) /\ j - 1 \in 1..(Len(c.input) - 1) /\ (j - 1) + 1 = j
              BY <4>1, <5>2, <1>1
            <6>2. b.input[j - 1] = c.input[j]
              BY <2>2, <2>4, <6>1
            <6> QED BY <3>4, <6>1, <6>2
          <5> QED BY <5>1, <5>2
        <4>4. \E i \in 1..Len(c.input) :
                 /\ c.input[i].tok = "hex" /\ c.input[i].n > 0
                 /\ \A j \in 1..(i - 1) : c.input[j].tok # "hex"
                 /\ d.cycle.reader = [kind |-> "ChunkData", n |-> c.input[i].n, first |-> TRUE]
          BY <3>4, <4>1, <4>2, <4>3
        <4> QED BY <3>1, <3>2, <4>4 DEF Chunking
      <3> QED BY <3>1, <3>2, <3>3, <3>4 DEF Chunking
    <2> QED BY <2>4, <2>6, <2>7 DEF ChunkStep
  <1>5. \/ p = need_data_or_eof(c) /\ (c.input = <<>> \/ Len(c.input) = 1)
        \/ p = Polled("Err", c)
        \/ c.input # <<>> /\ c.input[1].tok = "crlf" /\ p = read_chunk_size(b, due)
    BY DEF read_chunk_end
  <1> QED BY <1>2, <1>3, <1>4, <1>5

----------------------------------------------------------------------------
(* disable_keep_alive, under a condition.                                   *)
SameButState(c, d) ==
    /\ d.role = c.role /\ d.lenient = c.lenient /\ d.input = c.input /\ d.held = c.held
    /\ d.eof = c.eof /\ d.peer_version = c.peer_version /\ d.cycle = c.cycle

(* It touches the state only, and there it only settles.                    *)
LEMMA NoKeepAliveEffect ==
    ASSUME NEW X, NEW c \in Connections(X), Lawful(c.st), NEW condition \in BOOLEAN,
           NEW d, d = NoKeepAliveIf(condition, c)
    PROVE  /\ d \in Connections(X) /\ Lawful(d.st) /\ SameButState(c, d)
           /\ ClientSettles(c.st.client, d.st.client) /\ ServerSettles(c.st.server, d.st.server)
           /\ c.st.client = "Idle" => d.st.client = "Idle"
           /\ c.st.server = "Idle" => d.st.server = "Idle"
           /\ KeepsProposals(c.st, d.st)
           /\ d.st.keep_alive => c.st.keep_alive /\ ~condition
  <1>1. CASE ~condition
    <2>1. d = c
      BY <1>1 DEF NoKeepAliveIf
    <2> QED BY <1>1, <2>1 DEF SameButState, ClientSettles, ServerSettles, KeepsProposals
  <1>2. CASE condition
    <2> DEFINE f == disable_keep_alive(c.st)
    <2>1. d = [c EXCEPT !.st = f]
      BY <1>2 DEF NoKeepAliveIf
    <2>2. /\ Lawful(f) /\ ~f.keep_alive
          /\ ClientSettles(c.st.client, f.client) /\ ServerSettles(c.st.server, f.server)
          /\ c.st.client = "Idle" => f.client = "Idle"
          /\ c.st.server = "Idle" => f.server = "Idle"
          /\ KeepsProposals(c.st, f)
      BY DisableEffect
    <2>3. f \in ConnectionStates
      BY <2>2 DEF Lawful
    <2> HIDE DEF f
    <2>4. d \in Connections(X) /\ SameButState(c, d) /\ d.st = f
      BY <2>1, <2>3 DEF Connections, SameButState
    <2> QED BY <2>2, <2>4
  <1> QED BY <1>1, <1>2

(* It keeps the invariant.                                                  *)
LEMMA NoKeepAliveKeeps ==
    ASSUME NEW X, NEW c \in Connections(X), Coherent(c), NEW condition \in BOOLEAN,
           NEW d, d = NoKeepAliveIf(condition, c)
    PROVE  /\ Coherent(d)
           /\ ReaderMatches(c) => ReaderMatches(d)
           /\ Sound(c) => Sound(d)
  <1>1. /\ d \in Connections(X) /\ Lawful(d.st) /\ SameButState(c, d)
        /\ ClientSettles(c.st.client, d.st.client) /\ ServerSettles(c.st.server, d.st.server)
        /\ KeepsProposals(c.st, d.st)
        /\ d.st.keep_alive => c.st.keep_alive
    BY NoKeepAliveEffect DEF Coherent
  <1>2. Coherent(d)
    BY <1>1 DEF Coherent, WriterMatches, ReaderShape, ProposalsMatch, WaitMatches, SameButState,
                local_state, state, ClientSettles, ServerSettles, KeepsProposals
  <1>3. ReaderMatches(c) => ReaderMatches(d)
    BY <1>1 DEF ReaderMatches, SameButState, peer_state, state, peer, ClientSettles, ServerSettles
  <1>4. HeldFits(c) => HeldFits(d)
    BY <1>1 DEF HeldFits, WithinPayload, payload_reader, SameButState, peer_state, state, peer,
                ClientSettles, ServerSettles
  <1>5. ExtensionsFit(c) => ExtensionsFit(d)
    BY <1>1 DEF ExtensionsFit, SameButState, peer_state, state, peer, ClientSettles, ServerSettles
  <1> QED BY <1>2, <1>3, <1>4, <1>5 DEF Sound

----------------------------------------------------------------------------
(* Heads.  c is the connection whose buffer the head h was taken from.      *)
HeadRefused(X, c, p) ==
    /\ p.kind = "Err" /\ p.c \in Connections(X)
    /\ Fixtures(c, p.c) /\ Coherent(p.c) /\ peer_state(p.c) \in Readable
    /\ p.c.input = c.input /\ p.c.cycle.reader = c.cycle.reader
    /\ p.c.st.keep_alive => c.st.keep_alive

(* What a head rules out, apart from a lost field line.                     *)
EndsReuse(h) ==
    \/ ~is_informational(h.status) /\ ~persistent(h)
    \/ framing(h, h.version, h.kind = "response") = FramingError

(* A head that is accepted: keep-alive survives only one that allows it.    *)
HeadTaken(X, c, h, p) ==
    /\ p.kind \in {"Request", "InformationalResponse", "Response"}
    /\ p.c \in Connections(X)
    /\ Fixtures(c, p.c) /\ Coherent(p.c) /\ ReaderMatches(p.c) /\ ExtensionsFit(p.c)
    /\ p.c.input = c.input
    /\ p.c.st.keep_alive => c.st.keep_alive /\ ~EndsReuse(h)
    /\ p.kind = "InformationalResponse" => p.c.cycle.reader = c.cycle.reader
    /\ p.kind # "InformationalResponse" =>
          ~p.c.cycle.reader.first /\ p.c.cycle.reader.kind \in {"Fixed", "ChunkSize", "CloseDelimited"}

(* What the request proposes, as the state machine learns it.               *)
LEMMA RequestEventProposals ==
    ASSUME NEW method, NEW upgrades
    PROVE  \E p \in SUBSET SwitchKinds :
              /\ request_event(method, upgrades) = Request(p)
              /\ ("Connect" \in p) <=> (RequestKind(method) = "CONNECT")
              /\ ("Upgrade" \in p) <=> (upgrades # {})
  <1> DEFINE p == (IF method = "CONNECT" THEN {"Connect"} ELSE {})
                    \cup (IF upgrades # {} THEN {"Upgrade"} ELSE {})
  <1>1. p \in SUBSET SwitchKinds
    BY DEF SwitchKinds
  <1>2. /\ ("Connect" \in p) <=> (RequestKind(method) = "CONNECT")
        /\ ("Upgrade" \in p) <=> (upgrades # {})
    BY DEF RequestKind
  <1>3. request_event(method, upgrades) = Request(p)
    BY DEF request_event
  <1> QED BY <1>1, <1>2, <1>3

(* The assignments of record_request.                                       *)
RecordedAs(k, kind, waits, before, upgrades) ==
    [k EXCEPT !.cycle.request_kind = kind,
              !.cycle.waiting_for_continue = waits,
              !.cycle.continue_before_upgrade = before,
              !.cycle.upgrade_proposals = upgrades]

(* They touch nothing else.                                                 *)
LEMMA RequestRecorded ==
    ASSUME NEW X, NEW k \in Connections(X), NEW waits \in BOOLEAN, NEW before \in BOOLEAN,
           NEW upgrades \in SUBSET STRING, NEW kind \in {None, "Other", "HEAD", "CONNECT"}, NEW d,
           d = RecordedAs(k, kind, waits, before, upgrades)
    PROVE  /\ d \in Connections(X) /\ d.st = k.st
           /\ d.role = k.role /\ d.lenient = k.lenient /\ d.input = k.input /\ d.held = k.held
           /\ d.eof = k.eof /\ d.peer_version = k.peer_version
           /\ d.cycle.reader = k.cycle.reader /\ d.cycle.writer = k.cycle.writer
           /\ d.cycle.chunk_extension_bytes = k.cycle.chunk_extension_bytes
           /\ d.cycle.request_kind = kind
           /\ d.cycle.upgrade_proposals = upgrades
           /\ d.cycle.waiting_for_continue = waits /\ d.cycle.continue_before_upgrade = before
  BY DEF RecordedAs, Connections, Cycles

(* record_request.                                                          *)
LEMMA RecordRequestEffect ==
    ASSUME NEW X, NEW c \in Connections(X), Lawful(c.st), NEW h \in MessageHeads, NEW f,
           NEW upgrades \in SUBSET STRING, NEW d, d = record_request(c, h, f, upgrades),
           NEW k, k = NoKeepAliveIf(~persistent(h), c)
    PROVE  /\ d \in Connections(X) /\ d.st = k.st
           /\ d.role = c.role /\ d.lenient = c.lenient /\ d.input = c.input /\ d.held = c.held
           /\ d.eof = c.eof /\ d.peer_version = c.peer_version
           /\ d.cycle.reader = c.cycle.reader /\ d.cycle.writer = c.cycle.writer
           /\ d.cycle.chunk_extension_bytes = c.cycle.chunk_extension_bytes
           /\ d.cycle.request_kind = RequestKind(h.method)
           /\ d.cycle.upgrade_proposals = upgrades
           /\ d.cycle.waiting_for_continue /\ upgrades # {} => d.cycle.continue_before_upgrade
           /\ d.cycle.waiting_for_continue <=> expects_continue(h, f)
           /\ d.cycle.continue_before_upgrade <=> (expects_continue(h, f) /\ upgrades # {})
  <1> DEFINE waits == expects_continue(h, f)
             both == waits /\ upgrades # {}
  <1>1. k \in Connections(X) /\ SameButState(c, k)
    <2>1. (~persistent(h)) \in BOOLEAN
      BY DEF persistent
    <2> QED BY <2>1, NoKeepAliveEffect
  <1>2. RequestKind(h.method) \in {None, "Other", "HEAD", "CONNECT"}
    BY DEF RequestKind, None
  <1>3. waits \in BOOLEAN /\ both \in BOOLEAN
    BY DEF expects_continue, MessageHeads
  <1>4. PICK w \in BOOLEAN, b \in BOOLEAN : w = waits /\ b = both
    BY <1>3, Zenon
  <1>5. d = RecordedAs(k, RequestKind(h.method), w, b, upgrades)
    BY <1>4, Zenon DEF record_request, RecordedAs
  <1>6. (w /\ upgrades # {} => b) /\ (w <=> expects_continue(h, f)) /\ (b <=> (expects_continue(h, f) /\ upgrades # {}))
    BY <1>4, Zenon
  <1> HIDE DEF waits, both
  <1>7. /\ d \in Connections(X) /\ d.st = k.st
        /\ d.role = k.role /\ d.lenient = k.lenient /\ d.input = k.input /\ d.held = k.held
        /\ d.eof = k.eof /\ d.peer_version = k.peer_version
        /\ d.cycle.reader = k.cycle.reader /\ d.cycle.writer = k.cycle.writer
        /\ d.cycle.chunk_extension_bytes = k.cycle.chunk_extension_bytes
        /\ d.cycle.request_kind = RequestKind(h.method)
        /\ d.cycle.upgrade_proposals = upgrades
        /\ d.cycle.waiting_for_continue = w /\ d.cycle.continue_before_upgrade = b
    BY <1>1, <1>2, <1>5, RequestRecorded
  <1>8. /\ d.cycle.waiting_for_continue /\ upgrades # {} => d.cycle.continue_before_upgrade
        /\ d.cycle.waiting_for_continue <=> expects_continue(h, f)
        /\ d.cycle.continue_before_upgrade <=> (expects_continue(h, f) /\ upgrades # {})
    BY <1>6, <1>7, Zenon
  <1> QED BY <1>1, <1>7, <1>8 DEF SameButState

(* The version and the reader that an accepted final head leaves.           *)
HeadRead(k, version, r) == [k EXCEPT !.peer_version = version, !.cycle.reader = r]

(* They touch nothing else.                                                 *)
LEMMA HeadReadEffect ==
    ASSUME NEW X, NEW k \in Connections(X), NEW version \in {10, 11}, NEW r \in Readers, NEW d,
           d = HeadRead(k, version, r)
    PROVE  /\ d \in Connections(X) /\ d.st = k.st /\ Fixtures(k, d) /\ d.input = k.input
           /\ d.cycle.reader = r
           /\ d.cycle.chunk_extension_bytes = k.cycle.chunk_extension_bytes
           /\ d.cycle.request_kind = k.cycle.request_kind
           /\ d.cycle.upgrade_proposals = k.cycle.upgrade_proposals
           /\ d.cycle.waiting_for_continue = k.cycle.waiting_for_continue
           /\ d.cycle.continue_before_upgrade = k.cycle.continue_before_upgrade
  BY DEF HeadRead, Connections, Cycles, Fixtures

(* The peer's or the local actor's event, as the connection after it.       *)
Advanced(c, f) == [c EXCEPT !.st = f]

(* It touches the state only.                                               *)
LEMMA AdvancedEffect ==
    ASSUME NEW X, NEW c \in Connections(X), NEW f \in ConnectionStates, NEW d, d = Advanced(c, f)
    PROVE  d \in Connections(X) /\ d.st = f /\ SameButState(c, d)
  BY DEF Advanced, Connections, SameButState

(* accept_request.                                                          *)
LEMMA AcceptRequestEffect ==
    ASSUME NEW X, NEW c \in Connections(X), Coherent(c), ExtensionsFit(c), c.role = "server",
           c.st.client = "Idle", NEW h \in MessageHeads, h.kind = "request",
           NEW p, p = accept_request(c, h)
    PROVE  HeadRefused(X, c, p) \/ HeadTaken(X, c, h, p)
  <1> DEFINE f == framing(h, h.version, FALSE)
             ups == Upgrades(h)
             ev == request_event(h.method, ups)
             s == process_event(c.st, "client", ev)
             a == Advanced(c, s)
             k == NoKeepAliveIf(~persistent(h), a)
             g == record_request(a, h, f, ups)
             r == Reader(IF f = Chunked THEN "ChunkSize" ELSE f.kind, f.n)
             e == HeadRead(g, h.version, r)
  <1>1. CASE p = Polled("Err", c)
    <2>1. Fixtures(c, c) /\ peer_state(c) \in Readable
      BY DEF Fixtures, peer_state, peer, state, Readable
    <2> QED BY <1>1, <2>1 DEF HeadRefused, Polled
  <1>2. CASE /\ f # FramingError /\ Accepts(c.st, "client", ev)
             /\ p = Polled("Request", e)
    <2>1. PICK q \in SUBSET SwitchKinds :
             /\ ev = Request(q)
             /\ ("Connect" \in q) <=> (RequestKind(h.method) = "CONNECT")
             /\ ("Upgrade" \in q) <=> (ups # {})
      BY RequestEventProposals
    <2>2. /\ Lawful(s) /\ c.st.client = "Idle" /\ c.st.server = "Idle"
          /\ s.client = "SendBody" /\ s.server = "SendResponse"
          /\ s.proposals = q /\ s.keep_alive = c.st.keep_alive
      <3> HIDE DEF ev
      <3> QED BY <1>2, <2>1, RequestEffect DEF Coherent
    <2>3. ups \in SUBSET STRING
      BY DEF Upgrades, MessageHeads
    <2> HIDE DEF s, ups, f, a, g, e, r
    <2>4. a \in Connections(X) /\ a.st = s /\ SameButState(c, a)
      BY <2>2, AdvancedEffect DEF a, Lawful
    <2>5. (~persistent(h)) \in BOOLEAN
      BY DEF persistent
    <2>6. /\ Lawful(k.st)
          /\ ClientSettles(a.st.client, k.st.client) /\ ServerSettles(a.st.server, k.st.server)
          /\ KeepsProposals(a.st, k.st)
          /\ k.st.keep_alive => a.st.keep_alive /\ persistent(h)
      BY <2>2, <2>4, <2>5, NoKeepAliveEffect
    <2>7. /\ g \in Connections(X) /\ g.st = k.st
          /\ g.role = a.role /\ g.lenient = a.lenient /\ g.input = a.input /\ g.held = a.held
          /\ g.eof = a.eof /\ g.peer_version = a.peer_version
          /\ g.cycle.reader = a.cycle.reader /\ g.cycle.writer = a.cycle.writer
          /\ g.cycle.chunk_extension_bytes = a.cycle.chunk_extension_bytes
          /\ g.cycle.request_kind = RequestKind(h.method)
          /\ g.cycle.upgrade_proposals = ups
          /\ g.cycle.waiting_for_continue /\ ups # {} => g.cycle.continue_before_upgrade
      <3> HIDE DEF k
      <3> QED BY <2>2, <2>3, <2>4, RecordRequestEffect DEF g, k
    <2> HIDE DEF k
    <2>8. /\ r \in Readers /\ ~r.first /\ r.kind \in {"Fixed", "ChunkSize"}
      <3>1. IsFraming(f, FALSE)
        BY <1>2, FramingValue DEF f
      <3>2. /\ r \in Readers /\ ~r.first
            /\ r.kind \in {"Fixed", "ChunkSize", "CloseDelimited"}
            /\ r.kind = "CloseDelimited" => f = CloseDelimited /\ FALSE
        BY <3>1, FramingShape DEF r
      <3> QED BY <3>2
    <2>9. /\ e \in Connections(X) /\ e.st = g.st /\ Fixtures(g, e) /\ e.input = g.input
          /\ e.cycle.reader = r
          /\ e.cycle.chunk_extension_bytes = g.cycle.chunk_extension_bytes
          /\ e.cycle.request_kind = g.cycle.request_kind
          /\ e.cycle.upgrade_proposals = g.cycle.upgrade_proposals
          /\ e.cycle.waiting_for_continue = g.cycle.waiting_for_continue
          /\ e.cycle.continue_before_upgrade = g.cycle.continue_before_upgrade
      <3>1. h.version \in {10, 11}
        BY DEF MessageHeads
      <3> QED BY <2>7, <2>8, <3>1, HeadReadEffect DEF e
    <2>10. Fixtures(c, e) /\ e.input = c.input
      BY <2>4, <2>7, <2>9 DEF Fixtures, SameButState
    <2>11. /\ Lawful(e.st) /\ e.st.client = "SendBody" /\ e.st.server = "SendResponse"
           /\ e.st.proposals = q
           /\ e.st.keep_alive => c.st.keep_alive /\ persistent(h)
      BY <2>2, <2>4, <2>6, <2>7, <2>9 DEF ClientSettles, ServerSettles, KeepsProposals
    <2>12. c.cycle.writer = NoFraming /\ e.cycle.writer = NoFraming /\ e.role = "server"
      BY <2>2, <2>10 DEF Coherent, WriterMatches, local_state, state, Fixtures
    <2>13. Coherent(e)
      <3>1. WriterMatches(e)
        BY <2>11, <2>12 DEF WriterMatches, local_state, state
      <3>2. ReaderShape(e)
        BY <2>8, <2>9, <2>12 DEF ReaderShape, NoFraming, None
      <3>3. ProposalsMatch(e)
        BY <2>1, <2>7, <2>9, <2>11 DEF ProposalsMatch
      <3>4. WaitMatches(e)
        BY <2>7, <2>9, <2>11 DEF WaitMatches
      <3> QED BY <2>11, <3>1, <3>2, <3>3, <3>4 DEF Coherent
    <2>14. ReaderMatches(e)
      BY <2>8, <2>9, <2>11, <2>12 DEF ReaderMatches, peer_state, peer, state
    <2>15. ExtensionsFit(e)
      BY <2>4, <2>7, <2>9 DEF ExtensionsFit, SameButState, peer_state, peer, state
    <2>16. e.st.keep_alive => c.st.keep_alive /\ ~EndsReuse(h)
      <3>1. (h.kind = "response") = FALSE
        OBVIOUS
      <3>2. framing(h, h.version, h.kind = "response") = f
        BY <3>1, Zenon DEF f
      <3> QED BY <1>2, <2>11, <3>2 DEF EndsReuse
    <2> QED BY <1>2, <2>8, <2>9, <2>10, <2>13, <2>14, <2>15, <2>16 DEF HeadTaken, Polled
  <1>3. \/ p = Polled("Err", c)
        \/ f # FramingError /\ Accepts(c.st, "client", ev) /\ p = Polled("Request", e)
    <2>1. peer(c.role) = "client"
      BY DEF peer
    <2> QED BY <2>1 DEF accept_request, IfPeerAccepts, PeerAccepts, advance_peer, HeadRead, Advanced
  <1> QED BY <1>1, <1>2, <1>3

(* What the record_* methods leave alone.                                   *)
SameMessages(c, d) ==
    /\ d.st = c.st /\ Fixtures(c, d) /\ d.input = c.input
    /\ d.cycle.reader = c.cycle.reader
    /\ d.cycle.chunk_extension_bytes = c.cycle.chunk_extension_bytes
    /\ d.cycle.request_kind = c.cycle.request_kind

(* record_informational ends a wait or does not touch it.                   *)
LEMMA RecordInformationalEffect ==
    ASSUME NEW X, NEW c \in Connections(X), NEW status, NEW d, d = record_informational(c, status)
    PROVE  /\ d \in Connections(X) /\ SameMessages(c, d) /\ d.peer_version = c.peer_version
           /\ d.cycle.upgrade_proposals = c.cycle.upgrade_proposals
           /\ d.cycle.waiting_for_continue =>
                 /\ c.cycle.waiting_for_continue
                 /\ c.cycle.continue_before_upgrade => d.cycle.continue_before_upgrade
  <1>1. CASE status = 100
    <2>1. d \in Connections(X) /\ SameMessages(c, d) /\ d.peer_version = c.peer_version
          /\ d.cycle.upgrade_proposals = c.cycle.upgrade_proposals
      BY <1>1 DEF record_informational, Connections, Cycles, SameMessages, Fixtures
    <2>2. ~d.cycle.waiting_for_continue
      BY <1>1 DEF record_informational, Connections, Cycles
    <2> QED BY <2>1, <2>2
  <1>2. CASE status # 100
    BY <1>2 DEF record_informational, SameMessages, Fixtures
  <1> QED BY <1>1, <1>2

(* record_response ends every wait and forgets the upgrades.                *)
LEMMA RecordResponseEffect ==
    ASSUME NEW X, NEW c \in Connections(X), NEW d, d = record_response(c)
    PROVE  /\ d \in Connections(X) /\ SameMessages(c, d) /\ d.peer_version = c.peer_version
           /\ ~d.cycle.waiting_for_continue /\ d.cycle.upgrade_proposals = {}
  BY DEF record_response, Connections, Cycles, SameMessages, Fixtures

(* The version of a head that was accepted.                                 *)
Versioned(k, version) == [k EXCEPT !.peer_version = version]

(* It touches nothing else.                                                 *)
LEMMA VersionedEffect ==
    ASSUME NEW X, NEW k \in Connections(X), NEW version \in {10, 11}, NEW d, d = Versioned(k, version)
    PROVE  /\ d \in Connections(X) /\ SameMessages(k, d)
           /\ d.cycle = k.cycle
  BY DEF Versioned, Connections, SameMessages, Fixtures

(* accept_informational.                                                    *)
LEMMA AcceptInformationalEffect ==
    ASSUME NEW X, NEW c \in Connections(X), Coherent(c), ReaderMatches(c), ExtensionsFit(c),
           c.role = "client", c.st.server \in Readable, c.cycle.reader = ReadHead,
           NEW h \in MessageHeads, h.kind = "response", is_informational(h.status),
           NEW p, p = accept_informational(c, h)
    PROVE  HeadRefused(X, c, p) \/ HeadTaken(X, c, h, p)
  <1> DEFINE ev == informational_event(h)
             faulty == framing(h, h.version, TRUE) = FramingError
             s == process_event(c.st, "server", ev)
             a == Advanced(c, s)
             k == NoKeepAliveIf(faulty, a)
             g == record_informational(k, h.status)
             e == Versioned(g, h.version)
  <1>0. peer(c.role) = "server"
    BY DEF peer
  <1>1. CASE p = Polled("Err", c)
    <2>1. Fixtures(c, c) /\ peer_state(c) \in Readable
      BY <1>0 DEF Fixtures, peer_state, state
    <2> QED BY <1>1, <2>1 DEF HeadRefused, Polled
  <1>2. CASE /\ HasInformationalEvent(c, h) /\ Accepts(c.st, "server", ev)
             /\ p = Polled("InformationalResponse", e)
    <2>1. /\ Lawful(s) /\ c.st.server = "SendResponse"
          /\ s.keep_alive = c.st.keep_alive /\ ClientSettles(c.st.client, s.client)
          /\ \/ h.status = 101 /\ s.server = "SwitchedProtocol"
             \/ h.status # 101 /\ s = c.st
      <3>1. "server" \in Roles /\ "Upgrade" \in SwitchKinds /\ Lawful(c.st)
        BY DEF Roles, SwitchKinds, Coherent
      <3>2. CASE h.status = 101
        <4>1. ev = ProtocolSwitch("Upgrade")
          BY <3>2 DEF informational_event
        <4> HIDE DEF ev
        <4> QED BY <1>2, <3>1, <3>2, <4>1, SwitchEffect
      <3>3. CASE h.status # 101
        <4>1. ev = StateEvent("InformationalResponse")
          BY <3>3 DEF informational_event
        <4> HIDE DEF ev
        <4>2. s = c.st /\ c.st.server = "SendResponse"
          BY <1>2, <3>1, <4>1, InformationalEffect
        <4> QED BY <3>1, <3>3, <4>2 DEF ClientSettles
      <3> QED BY <3>2, <3>3
    <2> HIDE DEF s, a, g, e
    <2>2. a \in Connections(X) /\ a.st = s /\ SameButState(c, a)
      BY <2>1, AdvancedEffect DEF a, Lawful
    <2>3. faulty \in BOOLEAN
      OBVIOUS
    <2> HIDE DEF faulty
    <2>4. /\ k \in Connections(X) /\ Lawful(k.st) /\ SameButState(a, k)
          /\ ClientSettles(a.st.client, k.st.client) /\ ServerSettles(a.st.server, k.st.server)
          /\ KeepsProposals(a.st, k.st)
          /\ k.st.keep_alive => a.st.keep_alive /\ ~faulty
      BY <2>1, <2>2, <2>3, NoKeepAliveEffect
    <2> HIDE DEF k
    <2>5. /\ g \in Connections(X) /\ SameMessages(k, g)
          /\ g.cycle.upgrade_proposals = k.cycle.upgrade_proposals
          /\ g.cycle.waiting_for_continue =>
                /\ k.cycle.waiting_for_continue
                /\ k.cycle.continue_before_upgrade => g.cycle.continue_before_upgrade
      BY <2>4, RecordInformationalEffect DEF g
    <2>6. e \in Connections(X) /\ SameMessages(g, e) /\ e.cycle = g.cycle
      <3>1. h.version \in {10, 11}
        BY DEF MessageHeads
      <3> QED BY <2>5, <3>1, VersionedEffect DEF e
    <2>7. /\ Fixtures(c, e) /\ e.input = c.input /\ e.cycle.reader = c.cycle.reader
          /\ e.cycle.chunk_extension_bytes = c.cycle.chunk_extension_bytes
          /\ e.cycle.request_kind = c.cycle.request_kind
          /\ e.cycle.upgrade_proposals = c.cycle.upgrade_proposals
          /\ e.cycle.waiting_for_continue =>
                /\ c.cycle.waiting_for_continue
                /\ c.cycle.continue_before_upgrade => e.cycle.continue_before_upgrade
      BY <2>2, <2>4, <2>5, <2>6 DEF SameMessages, Fixtures, SameButState
    <2>8. /\ Lawful(e.st)
          /\ ClientSettles(s.client, e.st.client)
          /\ e.st.keep_alive => c.st.keep_alive /\ ~faulty
          /\ \/ h.status = 101 /\ e.st.server = "SwitchedProtocol"
             \/ /\ h.status # 101 /\ e.st.server = "SendResponse"
                /\ e.st.proposals = c.st.proposals /\ s.client = c.st.client
      BY <2>1, <2>2, <2>4, <2>5, <2>6 DEF SameMessages, ServerSettles, KeepsProposals
    <2>9. Coherent(e)
      <3>1. WriterMatches(e)
        BY <2>1, <2>7, <2>8 DEF Coherent, WriterMatches, Fixtures, local_state, state, ClientSettles
      <3>2. ReaderShape(e)
        BY <2>7, <2>8 DEF Coherent, ReaderShape, Fixtures
      <3>3. ProposalsMatch(e)
        BY <2>1, <2>7, <2>8 DEF Coherent, ProposalsMatch
      <3>4. WaitMatches(e)
        <4>1. h.status = 101 => ~c.cycle.continue_before_upgrade /\ c.cycle.upgrade_proposals # {}
          BY <1>2 DEF HasInformationalEvent, valid_upgrade_response
        <4> QED BY <2>1, <2>7, <2>8, <4>1 DEF Coherent, WaitMatches
      <3> QED BY <2>8, <3>1, <3>2, <3>3, <3>4 DEF Coherent
    <2>10. ReaderMatches(e) /\ ExtensionsFit(e)
      <3>1. peer_state(e) = e.st.server /\ peer_state(c) = c.st.server
        BY <1>0, <2>7 DEF peer_state, state, Fixtures
      <3> QED BY <2>1, <2>7, <2>8, <3>1 DEF ReaderMatches, ExtensionsFit
    <2>11. e.st.keep_alive => c.st.keep_alive /\ ~EndsReuse(h)
      <3>1. (h.kind = "response") = TRUE
        OBVIOUS
      <3>2. framing(h, h.version, h.kind = "response") = framing(h, h.version, TRUE)
        BY <3>1, Zenon
      <3> QED BY <2>8, <3>2 DEF EndsReuse, faulty
    <2> QED BY <1>2, <2>6, <2>7, <2>9, <2>10, <2>11 DEF HeadTaken, Polled
  <1>3. \/ p = Polled("Err", c)
        \/ /\ HasInformationalEvent(c, h) /\ Accepts(c.st, "server", ev)
           /\ p = Polled("InformationalResponse", e)
    BY <1>0 DEF accept_informational, IfPeerAccepts, PeerAccepts, advance_peer, Advanced, Versioned
  <1> QED BY <1>1, <1>2, <1>3

(* The reader that a poll leaves.                                           *)
WithReader(k, r) == [k EXCEPT !.cycle.reader = r]

(* It touches nothing else.                                                 *)
LEMMA WithReaderEffect ==
    ASSUME NEW X, NEW k \in Connections(X), NEW r \in Readers, NEW d, d = WithReader(k, r)
    PROVE  /\ d \in Connections(X) /\ d.st = k.st /\ Fixtures(k, d) /\ d.input = k.input
           /\ d.cycle.reader = r /\ d.peer_version = k.peer_version
           /\ d.cycle.chunk_extension_bytes = k.cycle.chunk_extension_bytes
           /\ d.cycle.request_kind = k.cycle.request_kind
           /\ d.cycle.upgrade_proposals = k.cycle.upgrade_proposals
           /\ d.cycle.waiting_for_continue = k.cycle.waiting_for_continue
           /\ d.cycle.continue_before_upgrade = k.cycle.continue_before_upgrade
  BY DEF WithReader, Connections, Cycles, Fixtures

(* The event of a final response: a tunnel, or a message with its body.     *)
LEMMA FinalResponseEvent ==
    ASSUME NEW c, Lawful(c.st), NEW status, NEW s,
           Accepts(c.st, "server", final_response_event(c, status)),
           s = process_event(c.st, "server", final_response_event(c, status))
    PROVE  /\ Lawful(s) /\ ClientSettles(c.st.client, s.client)
           /\ s.keep_alive => c.st.keep_alive
           /\ c.st.server \in {"Idle", "SendResponse"}
           /\ \/ opens_tunnel(c, status) /\ s.server = "SwitchedProtocol"
              \/ /\ ~opens_tunnel(c, status) /\ s.server = "SendBody" /\ s.proposals = {}
                 /\ s.keep_alive => c.st.server = "SendResponse"
  <1>1. "server" \in Roles /\ "Connect" \in SwitchKinds
    BY DEF Roles, SwitchKinds
  <1>2. CASE opens_tunnel(c, status)
    <2>1. final_response_event(c, status) = ProtocolSwitch("Connect")
      BY <1>2 DEF final_response_event
    <2> QED BY <1>1, <1>2, <2>1, SwitchEffect
  <1>3. CASE ~opens_tunnel(c, status)
    <2>1. final_response_event(c, status) = StateEvent("Response")
      BY <1>3 DEF final_response_event
    <2> QED BY <1>3, <2>1, ResponseEffect
  <1> QED BY <1>2, <1>3

(* accept_final.                                                            *)
LEMMA AcceptFinalEffect ==
    ASSUME NEW X, NEW c \in Connections(X), Coherent(c), ExtensionsFit(c),
           c.role = "client", c.st.server \in Readable, c.cycle.reader = ReadHead,
           NEW h \in MessageHeads, h.kind = "response", ~is_informational(h.status),
           NEW p, p = accept_final(c, h)
    PROVE  HeadRefused(X, c, p) \/ HeadTaken(X, c, h, p)
  <1> DEFINE ev == final_response_event(c, h.status)
             declared == framing(h, h.version, TRUE)
             bodyless == response_has_no_body(c, h.status)
             f == IF bodyless THEN Fixed(0) ELSE declared
             s == process_event(c.st, "server", ev)
             a == Advanced(c, s)
             k == NoKeepAliveIf(~persistent(h), a)
             g == record_response(k)
             recorded == Versioned(g, h.version)
             closes == FramingCloses(bodyless, declared)
             m == NoKeepAliveIf(closes, recorded)
             r == Reader(IF f = Chunked THEN "ChunkSize" ELSE f.kind, f.n)
             e == WithReader(m, r)
  <1>0. peer(c.role) = "server"
    BY DEF peer
  <1>1. CASE p = Polled("Err", c)
    <2>1. Fixtures(c, c) /\ peer_state(c) \in Readable
      BY <1>0 DEF Fixtures, peer_state, state
    <2> QED BY <1>1, <2>1 DEF HeadRefused, Polled
  <1>2. ASSUME Accepts(c.st, "server", ev)
        PROVE  /\ recorded \in Connections(X) /\ Lawful(recorded.st)
               /\ Fixtures(c, recorded) /\ recorded.input = c.input
               /\ recorded.cycle.reader = c.cycle.reader
               /\ recorded.cycle.chunk_extension_bytes = c.cycle.chunk_extension_bytes
               /\ ~recorded.cycle.waiting_for_continue
               /\ recorded.st.keep_alive => c.st.keep_alive /\ persistent(h)
               /\ \/ opens_tunnel(c, h.status) /\ recorded.st.server = "SwitchedProtocol"
                  \/ ~opens_tunnel(c, h.status) /\ recorded.st.server = "SendBody"
               /\ Coherent(recorded)
    <2>1. /\ Lawful(s) /\ ClientSettles(c.st.client, s.client)
          /\ s.keep_alive => c.st.keep_alive
          /\ \/ opens_tunnel(c, h.status) /\ s.server = "SwitchedProtocol"
             \/ ~opens_tunnel(c, h.status) /\ s.server = "SendBody"
      <3> HIDE DEF ev
      <3> QED BY <1>2, FinalResponseEvent DEF Coherent, ev
    <2> HIDE DEF s, a, g, recorded
    <2>2. a \in Connections(X) /\ a.st = s /\ SameButState(c, a)
      BY <2>1, AdvancedEffect DEF a, Lawful
    <2>3. (~persistent(h)) \in BOOLEAN
      BY DEF persistent
    <2>4. /\ k \in Connections(X) /\ Lawful(k.st) /\ SameButState(a, k)
          /\ ClientSettles(a.st.client, k.st.client) /\ ServerSettles(a.st.server, k.st.server)
          /\ k.st.keep_alive => a.st.keep_alive /\ persistent(h)
      BY <2>1, <2>2, <2>3, NoKeepAliveEffect
    <2> HIDE DEF k
    <2>5. g \in Connections(X) /\ SameMessages(k, g) /\ ~g.cycle.waiting_for_continue
      BY <2>4, RecordResponseEffect DEF g
    <2>6. /\ recorded \in Connections(X) /\ SameMessages(g, recorded)
          /\ recorded.cycle = g.cycle
      <3>1. h.version \in {10, 11}
        BY DEF MessageHeads
      <3> QED BY <2>5, <3>1, VersionedEffect DEF recorded
    <2>7. /\ Fixtures(c, recorded) /\ recorded.input = c.input
          /\ recorded.cycle.reader = c.cycle.reader
          /\ recorded.cycle.chunk_extension_bytes = c.cycle.chunk_extension_bytes
          /\ ~recorded.cycle.waiting_for_continue
      BY <2>2, <2>4, <2>5, <2>6 DEF SameMessages, Fixtures, SameButState
    <2>8. /\ Lawful(recorded.st) /\ ClientSettles(s.client, recorded.st.client)
          /\ recorded.st.keep_alive => c.st.keep_alive /\ persistent(h)
          /\ recorded.st.server = s.server
      BY <2>1, <2>2, <2>4, <2>5, <2>6 DEF SameMessages, ServerSettles
    <2>9. Coherent(recorded)
      <3>1. WriterMatches(recorded)
        BY <2>1, <2>7, <2>8 DEF Coherent, WriterMatches, Fixtures, local_state, state, ClientSettles
      <3>2. ReaderShape(recorded)
        BY <2>7, <2>8 DEF Coherent, ReaderShape, Fixtures
      <3>3. ProposalsMatch(recorded) /\ WaitMatches(recorded)
        BY <2>1, <2>7, <2>8 DEF ProposalsMatch, WaitMatches
      <3> QED BY <2>8, <3>1, <3>2, <3>3 DEF Coherent
    <2> QED BY <2>1, <2>6, <2>7, <2>8, <2>9
  <1>3. CASE Accepts(c.st, "server", ev) /\ f = FramingError /\ p = Polled("Err", recorded)
    <2>1. ~opens_tunnel(c, h.status)
      BY <1>3 DEF response_has_no_body, Fixed, FramingError
    <2> HIDE DEF recorded
    <2>2. peer_state(recorded) \in Readable
      BY <1>0, <1>2, <1>3, <2>1 DEF Fixtures, peer_state, state, Readable
    <2> QED BY <1>2, <1>3, <2>2 DEF HeadRefused, Polled
  <1>4. CASE Accepts(c.st, "server", ev) /\ f # FramingError /\ p = Polled("Response", e)
    <2> HIDE DEF recorded
    <2>1. closes \in BOOLEAN
      BY DEF FramingCloses
    <2>2. /\ m \in Connections(X) /\ Lawful(m.st) /\ SameButState(recorded, m)
          /\ ServerSettles(recorded.st.server, m.st.server)
          /\ m.st.keep_alive => recorded.st.keep_alive /\ ~closes
          /\ Coherent(m)
      <3> HIDE DEF closes
      <3> QED BY <1>2, <1>4, <2>1, NoKeepAliveEffect, NoKeepAliveKeeps
    <2>3. IsFraming(f, TRUE)
      <3>1. 0 \in Nat /\ IsFraming(Fixed(0), TRUE)
        BY DEF IsFraming
      <3>2. declared # FramingError => IsFraming(declared, TRUE)
        BY FramingValue
      <3> HIDE DEF declared, bodyless
      <3> QED BY <1>4, <3>1, <3>2
    <2>4. /\ r \in Readers /\ ~r.first /\ r.kind \in {"Fixed", "ChunkSize", "CloseDelimited"}
          /\ r.kind = "CloseDelimited" => f = CloseDelimited
      <3> HIDE DEF f
      <3> QED BY <2>3, FramingShape
    <2> HIDE DEF m, r, e
    <2>5. /\ e \in Connections(X) /\ e.st = m.st /\ Fixtures(m, e) /\ e.input = m.input
          /\ e.cycle.reader = r
          /\ e.cycle.chunk_extension_bytes = m.cycle.chunk_extension_bytes
          /\ e.cycle.request_kind = m.cycle.request_kind
          /\ e.cycle.upgrade_proposals = m.cycle.upgrade_proposals
          /\ e.cycle.waiting_for_continue = m.cycle.waiting_for_continue
      BY <2>2, <2>4, WithReaderEffect DEF e
    <2>6. /\ Fixtures(c, e) /\ e.input = c.input
          /\ e.cycle.chunk_extension_bytes = c.cycle.chunk_extension_bytes
          /\ ~e.cycle.waiting_for_continue
      BY <1>2, <1>4, <2>2, <2>5 DEF Fixtures, SameButState
    <2>7. /\ e.st.server \in {"SwitchedProtocol", "SendBody"}
          /\ e.st.keep_alive => c.st.keep_alive /\ persistent(h) /\ ~closes
      BY <1>2, <1>4, <2>2, <2>5 DEF ServerSettles
    <2>8. Coherent(e)
      <3>1. WriterMatches(e)
        BY <2>2, <2>5 DEF Coherent, WriterMatches, Fixtures, local_state
      <3>2. f = CloseDelimited => closes
        BY DEF FramingCloses, Fixed, CloseDelimited
      <3>3. e.role = "client"
        BY <2>6 DEF Fixtures
      <3>4. ReaderShape(e)
        <4>1. e.cycle.reader.kind = "CloseDelimited" => ~e.st.keep_alive
          <5> HIDE DEF closes, f
          <5> QED BY <2>4, <2>5, <2>7, <3>2
        <4>2. e.cycle.writer.kind = "CloseDelimited" => ~e.st.keep_alive
          BY <2>2, <2>5 DEF Coherent, ReaderShape, Fixtures
        <4> QED BY <2>4, <2>5, <3>3, <4>1, <4>2 DEF ReaderShape
      <3>5. ProposalsMatch(e) /\ WaitMatches(e)
        BY <2>6, <2>7 DEF ProposalsMatch, WaitMatches
      <3> QED BY <2>2, <2>5, <3>1, <3>4, <3>5 DEF Coherent
    <2>9. ReaderMatches(e) /\ ExtensionsFit(e)
      <3>1. peer_state(e) = e.st.server /\ peer_state(c) = c.st.server
        BY <1>0, <2>6 DEF peer_state, state, Fixtures
      <3>2. c.st.server # "Error"
        BY <1>4 DEF Accepts, final_response_event, ProtocolSwitch, StateEvent, direct_transition,
                    state, None
      <3> QED BY <2>4, <2>5, <2>6, <2>7, <3>1, <3>2 DEF ReaderMatches, ExtensionsFit
    <2>10. e.st.keep_alive => c.st.keep_alive /\ ~EndsReuse(h)
      <3>1. (h.kind = "response") = TRUE
        OBVIOUS
      <3>2. framing(h, h.version, h.kind = "response") = declared
        BY <3>1, Zenon
      <3>3. declared = FramingError => closes
        <4> HIDE DEF declared
        <4> QED BY <1>4 DEF FramingCloses
      <3> HIDE DEF declared, closes
      <3> QED BY <2>7, <3>2, <3>3 DEF EndsReuse
    <2> QED BY <1>4, <2>4, <2>5, <2>6, <2>8, <2>9, <2>10 DEF HeadTaken, Polled
  <1>5. \/ p = Polled("Err", c)
        \/ Accepts(c.st, "server", ev) /\ f = FramingError /\ p = Polled("Err", recorded)
        \/ Accepts(c.st, "server", ev) /\ f # FramingError /\ p = Polled("Response", e)
    <2>1. p = IF Accepts(c.st, "server", ev)
              THEN IF f = FramingError THEN Polled("Err", recorded) ELSE Polled("Response", e)
              ELSE Polled("Err", c)
      BY <1>0, Zenon DEF accept_final, IfPeerAccepts, PeerAccepts, advance_peer, Advanced, Versioned,
                         WithReader
    <2> HIDE DEF ev, f, recorded, e
    <2> QED BY <2>1
  <1> QED BY <1>1, <1>3, <1>4, <1>5

----------------------------------------------------------------------------
(* The buffer without the n symbols of a section that was read, and without *)
(* keep-alive if a field line of it was lost.                               *)
Consumed(c, n) == [c EXCEPT !.input = Skip(@, n)]

(* Taking a section off the buffer touches nothing else.                    *)
LEMMA ConsumedEffect ==
    ASSUME NEW X, NEW c \in Connections(X), NEW n \in 0..Len(c.input), NEW d, d = Consumed(c, n)
    PROVE  /\ d \in Connections(X) /\ d.st = c.st /\ d.cycle = c.cycle /\ Fixtures(c, d)
           /\ d.peer_version = c.peer_version /\ d.input = Skip(c.input, n)
           /\ Len(d.input) = Len(c.input) - n
  <1>1. Skip(c.input, n) \in Seq(X) /\ Len(Skip(c.input, n)) = Len(c.input) - n
    BY SkipLeavesRest DEF Connections
  <1> QED BY <1>1 DEF Consumed, Connections, Fixtures

(* The start of read_head that both roles share.                            *)
LEMMA RestEffect ==
    ASSUME NEW X, NEW c \in Connections(X), Coherent(c), ReaderMatches(c), ExtensionsFit(c),
           peer_state(c) \in {"Idle", "SendResponse"},
           NEW n \in 1..Len(c.input), NEW dropped \in BOOLEAN,
           NEW d, d = NoKeepAliveIf(dropped, Consumed(c, n))
    PROVE  /\ d \in Connections(X) /\ Coherent(d) /\ ReaderMatches(d) /\ ExtensionsFit(d)
           /\ Fixtures(c, d) /\ d.cycle = c.cycle /\ Len(d.input) < Len(c.input)
           /\ peer_state(d) = peer_state(c)
           /\ d.st.keep_alive => c.st.keep_alive /\ ~dropped
  <1> DEFINE b == Consumed(c, n)
  <1>1. /\ b \in Connections(X) /\ b.st = c.st /\ b.cycle = c.cycle /\ Fixtures(c, b)
        /\ Len(b.input) < Len(c.input)
    <2>1. n \in 0..Len(c.input) /\ Len(c.input) \in Nat
      BY LenProperties DEF Connections
    <2>2. /\ b \in Connections(X) /\ b.st = c.st /\ b.cycle = c.cycle /\ Fixtures(c, b)
          /\ Len(b.input) = Len(c.input) - n
      BY <2>1, ConsumedEffect
    <2> QED BY <2>1, <2>2
  <1> HIDE DEF b
  <1>2. Coherent(b) /\ ReaderMatches(b) /\ ExtensionsFit(b) /\ peer_state(b) = peer_state(c)
    BY <1>1 DEF Coherent, WriterMatches, ReaderShape, ProposalsMatch, WaitMatches, ReaderMatches,
                ExtensionsFit, Fixtures, local_state, peer_state
  <1>3. /\ d \in Connections(X) /\ SameButState(b, d)
        /\ ClientSettles(b.st.client, d.st.client) /\ ServerSettles(b.st.server, d.st.server)
        /\ b.st.client = "Idle" => d.st.client = "Idle"
        /\ b.st.server = "Idle" => d.st.server = "Idle"
        /\ d.st.keep_alive => b.st.keep_alive /\ ~dropped
    BY <1>1, <1>2, NoKeepAliveEffect DEF b, Coherent
  <1>4. Coherent(d) /\ ReaderMatches(d)
    BY <1>1, <1>2, NoKeepAliveKeeps DEF b
  <1>5. peer_state(d) = peer_state(b)
    BY <1>2, <1>3 DEF peer_state, state, peer, SameButState, ClientSettles, ServerSettles
  <1>6. ExtensionsFit(d)
    BY <1>2, <1>3, <1>5 DEF ExtensionsFit, SameButState
  <1> QED BY <1>1, <1>2, <1>3, <1>4, <1>5, <1>6 DEF SameButState, Fixtures

(* accept_response.                                                         *)
LEMMA AcceptResponseEffect ==
    ASSUME NEW X, NEW c \in Connections(X), Coherent(c), ReaderMatches(c), ExtensionsFit(c),
           c.role = "client", c.st.server \in Readable, c.cycle.reader = ReadHead,
           NEW h \in MessageHeads, h.kind = "response", NEW p, p = accept_response(c, h)
    PROVE  HeadRefused(X, c, p) \/ HeadTaken(X, c, h, p)
  <1>1. CASE p = Polled("Err", c)
    <2>1. Fixtures(c, c) /\ peer_state(c) \in Readable
      BY DEF Fixtures, peer_state, state, peer
    <2> QED BY <1>1, <2>1 DEF HeadRefused, Polled
  <1>2. CASE is_informational(h.status) /\ p = accept_informational(c, h)
    BY <1>2, AcceptInformationalEffect
  <1>3. CASE ~is_informational(h.status) /\ p = accept_final(c, h)
    BY <1>3, AcceptFinalEffect
  <1> QED BY <1>1, <1>2, <1>3 DEF accept_response

(* A poll that finds the peer between messages: it waits or fails as it is, *)
(* or reads the first head h of the buffer.                                 *)
FirstHead(s, k) ==
    k \in 1..Len(s) /\ s[k].tok = "head" /\ \A j \in 1..(k - 1) : s[j].tok # "head"

(* A poll between messages.                                                 *)
HeadStep(X, c, p) ==
    \/ BodyStep(X, c, p)
    \/ \E k \in 1..Len(c.input), d \in Connections(X) :
          /\ FirstHead(c.input, k)
          /\ Fixtures(c, d) /\ d.cycle = c.cycle /\ Len(d.input) < Len(c.input)
          /\ d.st.keep_alive => c.st.keep_alive /\ c.input[k].h.syntax # "dropped"
          /\ HeadRefused(X, d, p) \/ HeadTaken(X, d, c.input[k].h, p)

(* read_head.                                                               *)
LEMMA ReadHeadEffect ==
    ASSUME NEW X, SymbolsOK(X), NEW c \in Connections(X), Coherent(c), ReaderMatches(c),
           ExtensionsFit(c), peer_state(c) \in {"Idle", "SendResponse"}, NEW due,
           NEW p, p = read_head(c, due)
    PROVE  HeadStep(X, c, p)
  <1> DEFINE kind == IF c.role = "server" THEN "request" ELSE "response"
             q == parse_head(section(c), kind, c.lenient)
             h == c.input[q.end].h
             dropped == h.syntax = "dropped"
             d == NoKeepAliveIf(dropped, Consumed(c, q.end))
  <1>1. c.cycle.reader = ReadHead /\ c.cycle.reader.kind # "Fixed"
    BY DEF ReaderMatches, ReadHead, Reader
  <1>2. /\ section(c) \in Seq(X) /\ Len(section(c)) <= Len(c.input)
        /\ Len(section(c)) \in Nat /\ Len(c.input) \in Nat /\ c.input \in Seq(X)
        /\ \A i \in 1..Len(section(c)) : section(c)[i] = c.input[i]
    BY PrefixIsInitial, LenProperties, MaxHeadAssumption DEF section, Connections
  <1>3. /\ q.status \in {"Partial", "Err", "Complete"}
        /\ q.status = "Complete" =>
              /\ q.end \in 1..Len(section(c))
              /\ section(c)[q.end].tok = "head" /\ section(c)[q.end].h.kind = kind
              /\ \A j \in 1..(q.end - 1) : section(c)[j].tok # "head"
    BY <1>2, HeadEnd
  <1> HIDE DEF q
  <1>4. CASE p = wait_for_section(c)
    BY <1>1, <1>4, WaitForSectionEffect DEF Readable, HeadStep
  <1>5. CASE p = Polled("Err", c)
    BY <1>1, <1>5, ErrEffect DEF Readable, HeadStep
  <1>6. CASE /\ q.status = "Complete"
             /\ p = IF c.role = "server" THEN accept_request(d, h) ELSE accept_response(d, h)
    <2>1. /\ FirstHead(c.input, q.end) /\ q.end \in 1..Len(c.input) /\ h.kind = kind
      <3>1. q.end \in 1..Len(section(c)) /\ q.end \in 1..Len(c.input)
        BY <1>2, <1>3, <1>6
      <3>2. c.input[q.end].tok = "head" /\ c.input[q.end].h.kind = kind
        BY <1>2, <1>3, <1>6, <3>1
      <3>3. ASSUME NEW j \in 1..(q.end - 1) PROVE c.input[j].tok # "head"
        <4>1. j \in 1..Len(section(c))
          BY <1>2, <3>1
        <4> QED BY <1>2, <1>3, <1>6, <4>1
      <3> QED BY <3>1, <3>2, <3>3 DEF FirstHead
    <2>2. h \in MessageHeads
      <3>1. c.input[q.end] \in X
        BY <1>2, <2>1, ElementOfSeq
      <3> QED BY <2>1, <3>1 DEF SymbolsOK, FirstHead
    <2>3. dropped \in BOOLEAN
      OBVIOUS
    <2>4. /\ d \in Connections(X) /\ Coherent(d) /\ ReaderMatches(d) /\ ExtensionsFit(d)
          /\ Fixtures(c, d) /\ d.cycle = c.cycle /\ Len(d.input) < Len(c.input)
          /\ peer_state(d) = peer_state(c)
          /\ d.st.keep_alive => c.st.keep_alive /\ ~dropped
      <3> HIDE DEF dropped
      <3> QED BY <2>1, <2>3, RestEffect
    <2> HIDE DEF d
    <2>5. d.role = c.role /\ d.cycle.reader = ReadHead
      BY <1>1, <2>4 DEF Fixtures
    <2>6. HeadRefused(X, d, p) \/ HeadTaken(X, d, h, p)
      <3>1. CASE c.role = "server"
        <4>1. h.kind = "request" /\ p = accept_request(d, h) /\ d.role = "server"
          BY <1>6, <2>1, <2>5, <3>1
        <4>2. d.st.client = "Idle"
          BY <2>4, <4>1 DEF Coherent, Lawful, Joint, peer_state, state, peer
        <4> HIDE DEF h
        <4> QED BY <2>2, <2>4, <4>1, <4>2, AcceptRequestEffect
      <3>2. CASE c.role = "client"
        <4>1. h.kind = "response" /\ p = accept_response(d, h) /\ d.role = "client"
          BY <1>6, <2>1, <2>5, <3>2
        <4>2. d.st.server \in Readable
          BY <2>4, <4>1 DEF peer_state, state, peer, Readable
        <4> HIDE DEF h
        <4> QED BY <2>2, <2>4, <2>5, <4>1, <4>2, AcceptResponseEffect
      <3> QED BY <3>1, <3>2 DEF Connections, Roles
    <2> QED BY <2>1, <2>4, <2>6 DEF HeadStep
  <1>7. \/ p = wait_for_section(c) \/ p = Polled("Err", c)
        \/ /\ q.status = "Complete"
           /\ p = IF c.role = "server" THEN accept_request(d, h) ELSE accept_response(d, h)
    <2>1. p = IF ~section_due(c, TRUE, due) \/ q.status = "Partial" THEN wait_for_section(c)
              ELSE IF q.status = "Err" THEN Polled("Err", c)
              ELSE IF c.role = "server" THEN accept_request(d, h)
              ELSE accept_response(d, h)
      BY DEF read_head, q, Consumed
    <2> HIDE DEF d, h
    <2> QED BY <1>3, <2>1
  <1> QED BY <1>4, <1>5, <1>6, <1>7

----------------------------------------------------------------------------
(* read_message for a peer in its body.                                     *)
LEMMA ReadBodyEffect ==
    ASSUME NEW X, SymbolsOK(X), NEW c \in Connections(X), Lawful(c.st), ReaderShape(c),
           peer_state(c) = "SendBody", c.cycle.reader.kind # "Head", NEW due,
           NEW p, p = read_message(c, due)
    PROVE  BodyStep(X, c, p) \/ ChunkStep(X, c, p)
  <1> DEFINE r == c.cycle.reader
  <1>1. r.kind \in ReaderKinds /\ r.n \in Nat /\ c.input \in Seq(X)
    BY DEF Connections, Cycles, Readers
  <1>2. CASE r.kind = "Fixed" /\ r.n = 0
    <2>1. 0 \in 0..Len(c.input)
      BY <1>1, LenProperties
    <2>2. Skip(c.input, 0) = c.input
      BY <1>1, SubSeqFull DEF Skip
    <2>3. [c EXCEPT !.input = Skip(@, 0)] = c
      BY <2>2 DEF Connections
    <2>4. p = finish_peer(c)
      BY <1>2 DEF read_message
    <2> QED BY <1>2, <2>1, <2>3, <2>4, FinishEffect
  <1>3. CASE (r.kind = "Fixed" /\ r.n # 0) \/ r.kind = "ChunkData"
    <2>1. p = read_payload(c)
      BY <1>3 DEF read_message
    <2>2. payload_reader(c)
      BY <1>1, <1>3 DEF payload_reader
    <2> QED BY <1>3, <2>1, <2>2, ReadPayloadEffect
  <1>4. CASE r.kind = "CloseDelimited"
    <2>1. p = read_close_delimited(c)
      BY <1>4 DEF read_message
    <2> QED BY <1>4, <2>1, ReadCloseDelimitedEffect
  <1>5. CASE r.kind = "ChunkSize"
    <2>1. p = read_chunk_size(c, due)
      BY <1>5 DEF read_message
    <2> QED BY <1>5, <2>1, ReadChunkSizeEffect
  <1>6. CASE r.kind = "ChunkDataEnd"
    <2>1. p = read_chunk_end(c, due)
      BY <1>6 DEF read_message
    <2> QED BY <1>6, <2>1, ReadChunkEndEffect
  <1>7. CASE r.kind = "ChunkTrailers"
    <2>1. p = read_trailers(c, due)
      BY <1>7 DEF read_message
    <2> QED BY <1>7, <2>1, ReadTrailersEffect
  <1> QED BY <1>1, <1>2, <1>3, <1>4, <1>5, <1>6, <1>7 DEF ReaderKinds

(* The end of the connection.                                               *)
Closes(c, p) ==
    /\ p.kind = "ConnectionClosed"
    /\ Fixtures(c, p.c) /\ p.c.peer_version = c.peer_version /\ p.c.cycle = c.cycle
    /\ Len(p.c.input) <= Len(c.input)
    /\ p.c.st = process_event(c.st, peer(c.role), StateEvent("ConnectionClosed"))
    /\ Accepts(c.st, peer(c.role), StateEvent("ConnectionClosed"))

(* peer_closed, with what a closing peer left unread discarded or not.      *)
Emptied(c) == [c EXCEPT !.input = <<>>]

(* It closes the peer, and no input is lost but what it emptied.            *)
LEMMA PeerClosedEffect ==
    ASSUME NEW X, NEW c \in Connections(X), Lawful(c.st),
           peer_state(c) \in {"Idle", "Done", "MustClose", "Closed"},
           NEW d \in {c, Emptied(c)}, NEW p, p = peer_closed(d)
    PROVE  p.c \in Connections(X) /\ Closes(c, p) /\ p.c.input = d.input
  <1> DEFINE ev == StateEvent("ConnectionClosed")
             s == process_event(c.st, peer(c.role), ev)
             e == Advanced(d, s)
  <1>1. /\ d \in Connections(X) /\ d.st = c.st /\ d.cycle = c.cycle /\ Fixtures(c, d)
        /\ d.peer_version = c.peer_version /\ Len(d.input) <= Len(c.input)
    <2>1. CASE d = c
      <3>1. Len(c.input) \in Nat
        BY LenProperties DEF Connections
      <3> QED BY <2>1, <3>1 DEF Fixtures
    <2>2. CASE d = Emptied(c)
      <3>1. Len(c.input) \in Nat /\ <<>> \in Seq(X) /\ Len(<<>>) = 0
        BY LenProperties, EmptySeq DEF Connections
      <3>2. /\ d \in Connections(X) /\ d.st = c.st /\ d.cycle = c.cycle /\ Fixtures(c, d)
            /\ d.peer_version = c.peer_version /\ d.input = <<>>
        BY <2>2, <3>1 DEF Emptied, Connections, Fixtures
      <3>3. Len(d.input) <= Len(c.input)
        BY <3>1, <3>2
      <3> QED BY <3>2, <3>3
    <2> QED BY <2>1, <2>2
  <1>2. Accepts(c.st, peer(c.role), ev)
    BY FinishedAccepts DEF peer_state
  <1>3. s \in ConnectionStates
    <2>1. peer(c.role) \in Roles
      BY DEF peer, Roles
    <2> QED BY <1>2, <2>1, ClosedEffect DEF Lawful
  <1>4. p = Polled("ConnectionClosed", e)
    BY <1>1, <1>2, Zenon DEF peer_closed, IfPeerAccepts, PeerAccepts, advance_peer, Advanced, Fixtures
  <1> HIDE DEF s, e
  <1>5. e \in Connections(X) /\ e.st = s /\ SameButState(d, e)
    BY <1>1, <1>3, AdvancedEffect DEF e
  <1> QED BY <1>1, <1>2, <1>4, <1>5 DEF Closes, Polled, SameButState, Fixtures, s

(* Everything a poll may do, before next_event adds its last step.          *)
PollStep(X, c, p) ==
    /\ \/ BodyStep(X, c, p) /\ (peer_state(c) = "SendBody" \/ Idles(c, p))
       \/ ChunkStep(X, c, p) /\ peer_state(c) = "SendBody"
       \/ HeadStep(X, c, p) /\ peer_state(c) \in {"Idle", "SendResponse"}
       \/ Closes(c, p) /\ p.c \in Connections(X)
    /\ peer_state(c) \in {"Done", "MustClose", "MightSwitchProtocol", "SwitchedProtocol"} =>
          p.c.input = c.input /\ p.kind \in {"NeedData", "Paused", "ConnectionClosed"}

(* next_event_inner.                                                        *)
LEMMA NextEventInnerEffect ==
    ASSUME NEW X, SymbolsOK(X), NEW c \in Connections(X), Sound(c), NEW due,
           NEW p, p = next_event_inner(c, due)
    PROVE  PollStep(X, c, p)
  <1> DEFINE s == peer_state(c)
  <1>1. /\ s \in States /\ Lawful(c.st) /\ ReaderShape(c) /\ Coherent(c)
        /\ c.input \in Seq(X) /\ Len(c.input) \in Nat
    BY LenProperties DEF peer_state, state, Connections, ConnectionStates, Sound, Coherent
  <1>2. Len(<<>>) = 0 /\ 0 <= MaxHead
    BY EmptySeq, MaxHeadAssumption
  <1>3. CASE p = Polled("ConnectionClosed", c) \/ p = Polled("Paused", c)
    BY <1>3 DEF PollStep, BodyStep, Idles, Polled
  <1>4. CASE s \in {"Done", "MustClose"} /\ p = read_finished(c)
    <2>1. CASE p = Polled("NeedData", c) /\ c.input = <<>>
      <3>1. WithinLimit(c)
        BY <1>2, <2>1, ShortIsWithin
      <3> QED BY <2>1, <3>1 DEF PollStep, BodyStep, Idles, Polled
    <2>2. CASE p = peer_closed(c)
      <3>1. p.c \in Connections(X) /\ Closes(c, p) /\ p.c.input = c.input
        BY <1>1, <1>4, <2>2, PeerClosedEffect
      <3> QED BY <3>1 DEF PollStep, Closes
    <2> QED BY <1>3, <1>4, <2>1, <2>2 DEF read_finished
  <1>5. CASE s = "Error" /\ p = Polled("Err", c)
    BY <1>5 DEF PollStep, BodyStep, Idles, Polled, Readable
  <1>6. CASE s = "Idle" /\ p = peer_closed(Emptied(c))
    <2>1. p.c \in Connections(X) /\ Closes(c, p)
      BY <1>1, <1>6, PeerClosedEffect
    <2> QED BY <1>6, <2>1 DEF PollStep
  <1>7. CASE s \in {"Idle", "SendResponse"} /\ p = read_message(c, due)
    <2>1. c.cycle.reader.kind = "Head"
      BY <1>7 DEF Sound, ReaderMatches, ReadHead, Reader
    <2>2. p = read_head(c, due)
      BY <1>7, <2>1 DEF read_message
    <2>3. HeadStep(X, c, p)
      BY <1>1, <1>7, <2>2, ReadHeadEffect DEF Sound
    <2> QED BY <1>7, <2>3 DEF PollStep
  <1>8. CASE s = "SendBody" /\ p = read_message(c, due)
    <2>1. BodyStep(X, c, p) \/ ChunkStep(X, c, p)
      BY <1>1, <1>8, ReadBodyEffect DEF Sound, ReaderMatches
    <2> QED BY <1>8, <2>1 DEF PollStep
  <1>9. \/ p = Polled("ConnectionClosed", c) \/ p = Polled("Paused", c)
        \/ s \in {"Done", "MustClose"} /\ p = read_finished(c)
        \/ s = "Error" /\ p = Polled("Err", c)
        \/ s = "Idle" /\ p = peer_closed(Emptied(c))
        \/ s \in {"Idle", "SendResponse", "SendBody"} /\ p = read_message(c, due)
    <2> HIDE DEF s
    <2>1. p = CASE s = "Closed" -> Polled("ConnectionClosed", c)
          [] s = "Idle" /\ c.eof /\ Len(c.input) <= MaxHead /\ only_empty_lines(c.input) ->
                peer_closed(Emptied(c))
          [] s \in {"MightSwitchProtocol", "SwitchedProtocol"} -> Polled("Paused", c)
          [] s \in {"Done", "MustClose"} -> read_finished(c)
          [] s = "Error" -> Polled("Err", c)
          [] OTHER -> read_message(c, due)
      BY DEF next_event_inner, s, Emptied
    <2> QED BY <1>1, <2>1 DEF States
  <1> QED BY <1>3, <1>4, <1>5, <1>6, <1>7, <1>8, <1>9

----------------------------------------------------------------------------
(* What a poll must leave behind, for each thing that a connection promises.*)

(* What a reader may have seen of a body.                                   *)
Bodies == [due : Nat, got : Nat, open : BOOLEAN]

(* BodyAddsUp, of a connection and the body its reader has seen.            *)
BodyFits(c, b) ==
    LET r == c.cycle.reader
    IN  /\ r.kind = "Fixed" /\ peer_state(c) = "SendBody" => b.got + r.n = b.due
        /\ r.kind = "ChunkData" /\ ~r.first => b.open /\ b.got + r.n = b.due
        /\ r.kind = "ChunkData" /\ r.first => ~b.open
        /\ r.kind = "ChunkDataEnd" => b.got = b.due
        /\ b.open => r.kind = "ChunkData"

(* The body after a poll, as Deliver of Connection records it.              *)
Delivered(c, b, p) ==
    CASE p.kind \in {"Request", "Response"} -> [NoBody EXCEPT !.due = p.c.cycle.reader.n]
      [] p.kind = "Data" /\ p.chunk_start ->
            [due |-> ChunkLength(c), got |-> p.count, open |-> ~p.chunk_end]
      [] p.kind = "Data" /\ ~p.chunk_start /\ c.cycle.reader.kind # "CloseDelimited" ->
            [b EXCEPT !.got = @ + p.count, !.open = @ /\ ~p.chunk_end]
      [] OTHER -> b

(* AnnouncementKept, strengthened.  A server that announced persistence has *)
(* been asked and has answered, and what is missing of the request is a     *)
(* sized body that is all here: nothing is left that could fail.            *)
WordKept(c, a) ==
    /\ a = "close" => ~c.st.keep_alive
    /\ a = "persist" =>
          /\ c.role = "server" /\ c.st.keep_alive
          /\ c.st.server \in {"SendBody", "Done", "MustClose", "Closed"}
          /\ c.st.client \in {"SendBody", "Done", "MustClose", "Closed"}
          /\ c.st.client = "SendBody" =>
                c.cycle.reader.kind = "Fixed" /\ c.cycle.reader.n <= c.held + Len(c.input)

(* The events that tell a part of a message.                                *)
Events == {"Request", "InformationalResponse", "Response", "Data", "EndOfMessage"}

(* What next_event leaves of a sound connection.                            *)
PollResult(X, c, p) ==
    /\ p.c \in Connections(X) /\ Sound(p.c)
    /\ p.c.role = c.role /\ p.c.lenient = c.lenient /\ p.c.held = c.held
    /\ Len(p.c.input) <= Len(c.input)
    /\ p.c.st.keep_alive => c.st.keep_alive
    /\ p.kind # "LocalError"
    /\ p.kind = "NeedData" => WithinLimit(p.c)
    /\ p.kind \in Events => \/ Len(p.c.input) < Len(c.input)
                            \/ /\ p.kind = "EndOfMessage"
                               /\ peer_state(c) = "SendBody" /\ peer_state(p.c) # "SendBody"
    /\ peer_state(c) \in {"Done", "MustClose", "MightSwitchProtocol", "SwitchedProtocol"} =>
          p.c.input = c.input
    /\ p.kind \in {"Request", "InformationalResponse", "Response"} =>
          \E k \in 1..Len(c.input) : /\ FirstHead(c.input, k)
                                     /\ p.c.st.keep_alive => ~IsFinal(c.input[k].h)
    /\ \A b \in Bodies : BodyFits(c, b) => /\ Delivered(c, b, p) \in Bodies
                                           /\ BodyFits(p.c, Delivered(c, b, p))
    /\ \A a : WordKept(c, a) => WordKept(p.c, a)

(* The size line and the line end before a chunk keep the decoder sound.    *)
LEMMA ChunkingKeeps ==
    ASSUME NEW X, NEW c \in Connections(X), Coherent(c), NEW d \in Connections(X), Chunking(c, d)
    PROVE  Coherent(d) /\ peer_state(d) = peer_state(c)
  <1>1. ReaderShape(d)
    <2>1. /\ d.cycle.reader.first => d.cycle.reader.kind = "ChunkData"
          /\ d.cycle.reader.kind = "ChunkData" => d.cycle.reader.n > 0
          /\ d.cycle.reader.kind # "CloseDelimited"
      <3> DEFINE q == d.cycle.reader
      <3>1. CASE q = c.cycle.reader
        BY <3>1 DEF Chunking, Coherent, ReaderShape
      <3>2. ASSUME NEW kind \in {"ChunkSize", "ChunkTrailers"}, q = Reader(kind, 0)
            PROVE  ~q.first /\ q.kind \notin {"ChunkData", "CloseDelimited"}
        BY <3>2 DEF Reader
      <3>3. ASSUME NEW n, n > 0, q = [kind |-> "ChunkData", n |-> n, first |-> TRUE]
            PROVE  q.kind = "ChunkData" /\ q.n > 0
        BY <3>3
      <3>4. \/ q = c.cycle.reader \/ q = Reader("ChunkSize", 0) \/ q = Reader("ChunkTrailers", 0)
            \/ \E k \in 1..Len(c.input) :
                  c.input[k].n > 0 /\ q = [kind |-> "ChunkData", n |-> c.input[k].n, first |-> TRUE]
        BY DEF Chunking
      <3> HIDE DEF q
      <3> QED BY <3>1, <3>2, <3>3, <3>4 DEF q
    <2> QED BY <2>1 DEF Chunking, Reads, Fixtures, Coherent, ReaderShape
  <1> QED BY <1>1 DEF Chunking, Reads, Fixtures, Coherent, WriterMatches, ProposalsMatch, WaitMatches,
                      local_state, peer_state

(* A failed poll: the peer is poisoned.                                     *)
LEMMA PoisonEffect ==
    ASSUME NEW X, NEW c \in Connections(X), Coherent(c), peer_state(c) \in Readable, c.held = 0,
           NEW d, d = Advanced(c, process_error(c.st, peer(c.role)))
    PROVE  d \in Connections(X) /\ Sound(d) /\ SameButState(c, d) /\ ~d.st.keep_alive
  <1> DEFINE f == process_error(c.st, peer(c.role))
  <1>1. peer(c.role) \in Roles /\ peer(peer(c.role)) = c.role /\ c.role \in Roles
    BY DEF peer, Roles, Connections
  <1>2. /\ Lawful(f) /\ ~f.keep_alive /\ state(f, peer(c.role)) = "Error"
        /\ Settles(c.role, c.st, f) /\ KeepsProposals(c.st, f)
    BY <1>1, ErrorEffect DEF Coherent, peer_state, Readable
  <1> HIDE DEF f
  <1>3. d \in Connections(X) /\ d.st = f /\ SameButState(c, d)
    BY <1>2, AdvancedEffect DEF f, Lawful
  <1>4. WriterMatches(d)
    BY <1>1, <1>2, <1>3 DEF Coherent, WriterMatches, local_state, state, SameButState, Settles,
                            ClientSettles, ServerSettles, Roles
  <1>5. ReaderShape(d)
    BY <1>2, <1>3 DEF Coherent, ReaderShape, SameButState
  <1>6. d.st.server \in {c.st.server, "Error", "MustClose"} /\ (d.st.server = "SendResponse" => c.st.server = "SendResponse")
        /\ (c.st.server \in {"SendResponse", "Error"} => d.st.server \in {"SendResponse", "Error"})
    BY <1>1, <1>2, <1>3 DEF Settles, ServerSettles, state, peer, Roles
  <1>7. ProposalsMatch(d) /\ WaitMatches(d)
    BY <1>2, <1>3, <1>6 DEF Coherent, ProposalsMatch, WaitMatches, SameButState, KeepsProposals
  <1>8. peer_state(d) = "Error"
    BY <1>2, <1>3 DEF peer_state, SameButState
  <1> QED BY <1>2, <1>3, <1>4, <1>5, <1>7, <1>8
          DEF Sound, Coherent, ReaderMatches, HeldFits, ExtensionsFit, SameButState

(* A Data event keeps everything but the bytes it takes.                    *)
LEMMA PayloadKeeps ==
    ASSUME NEW X, NEW c \in Connections(X), Coherent(c), peer_state(c) = "SendBody",
           c.cycle.chunk_extension_bytes <= MaxHead,
           NEW available \in Nat, NEW p, p.c \in Connections(X), TakesPayload(c, p, available)
    PROVE  Coherent(p.c) /\ ReaderMatches(p.c) /\ ExtensionsFit(p.c) /\ peer_state(p.c) = "SendBody"
  <1>1. /\ c.cycle.reader \in Readers /\ c.cycle.reader.n \in Nat /\ p.count \in Nat
        /\ available \in Nat /\ p.count \in 1..available
    BY DEF Connections, Cycles, Readers, TakesPayload
  <1>2. Reads(c, p.c) /\ ~p.c.cycle.waiting_for_continue
        /\ p.c.cycle.chunk_extension_bytes = c.cycle.chunk_extension_bytes
    BY DEF TakesPayload
  <1>3. \/ p.c.cycle.reader = c.cycle.reader /\ c.cycle.reader.kind = "CloseDelimited"
        \/ p.c.cycle.reader = Reader("ChunkDataEnd", 0)
        \/ p.c.cycle.reader = Reader("Fixed", c.cycle.reader.n - p.count)
        \/ /\ p.c.cycle.reader = Reader("ChunkData", c.cycle.reader.n - p.count)
           /\ p.count < c.cycle.reader.n
    BY DEF TakesPayload
  <1>4. /\ p.c.cycle.reader.first => p.c.cycle.reader.kind = "ChunkData"
        /\ p.c.cycle.reader.kind = "ChunkData" => p.c.cycle.reader.n > 0
        /\ p.c.cycle.reader.kind = "CloseDelimited" => c.cycle.reader.kind = "CloseDelimited"
        /\ p.c.cycle.reader.kind # "Head"
    BY <1>1, <1>3 DEF Reader, Coherent, ReaderShape
  <1>5. ReaderShape(p.c)
    BY <1>2, <1>4 DEF Reads, Fixtures, Coherent, ReaderShape
  <1>6. Coherent(p.c) /\ peer_state(p.c) = "SendBody"
    BY <1>2, <1>5 DEF Reads, Fixtures, Coherent, WriterMatches, ProposalsMatch, WaitMatches,
                      local_state, peer_state
  <1> QED BY <1>2, <1>4, <1>6 DEF ReaderMatches, ExtensionsFit

(* The end of the peer's message keeps the rest, and leaves its body.       *)
LEMMA FinishKeeps ==
    ASSUME NEW X, NEW c \in Connections(X), Coherent(c), c.held = 0,
           c.cycle.chunk_extension_bytes <= MaxHead,
           NEW p, p.c \in Connections(X), Finishes(c, p)
    PROVE  /\ Sound(p.c) /\ peer_state(p.c) # "SendBody"
           /\ p.c.st.keep_alive = c.st.keep_alive
           /\ \A a : WordKept(c, a) => WordKept(p.c, a)
  <1> DEFINE role == peer(c.role)
  <1>1. role \in Roles /\ peer(role) = c.role /\ c.role \in Roles
    BY DEF peer, Roles, Connections
  <1>2. /\ Lawful(p.c.st) /\ state(c.st, role) = "SendBody"
        /\ state(p.c.st, role) \in {"Done", "MightSwitchProtocol", "SwitchedProtocol", "MustClose"}
        /\ Settles(c.role, c.st, p.c.st)
        /\ p.c.st.keep_alive = c.st.keep_alive /\ KeepsProposals(c.st, p.c.st)
    BY <1>1, EndEffect DEF Finishes, Coherent
  <1>3. Fixtures(c, p.c) /\ p.c.role = c.role
    BY DEF Finishes, Fixtures
  <1>4. /\ p.c.cycle.reader = ReadHead
        /\ p.c.cycle.chunk_extension_bytes = c.cycle.chunk_extension_bytes
        /\ p.c.cycle.request_kind = c.cycle.request_kind
        /\ p.c.cycle.upgrade_proposals = c.cycle.upgrade_proposals
        /\ p.c.cycle.waiting_for_continue = c.cycle.waiting_for_continue
        /\ p.c.cycle.continue_before_upgrade = c.cycle.continue_before_upgrade
    BY DEF Finishes, Connections, Cycles
  <1>5. WriterMatches(p.c)
    BY <1>1, <1>2, <1>3 DEF Coherent, WriterMatches, local_state, state, Fixtures, Settles,
                            ClientSettles, ServerSettles, Roles
  <1>6. ReaderShape(p.c)
    BY <1>2, <1>3, <1>4 DEF Coherent, ReaderShape, Fixtures, ReadHead, Reader
  <1>7. /\ p.c.st.server = "SendResponse" => c.st.server = "SendResponse"
        /\ c.st.server \in {"SendResponse", "Error"} => p.c.st.server = c.st.server
    BY <1>1, <1>2 DEF Settles, ServerSettles, state, peer, Roles
  <1>8. ProposalsMatch(p.c) /\ WaitMatches(p.c)
    BY <1>2, <1>4, <1>7 DEF Coherent, ProposalsMatch, WaitMatches, KeepsProposals
  <1>9. peer_state(p.c) \in {"Done", "MightSwitchProtocol", "SwitchedProtocol", "MustClose"}
    BY <1>2, <1>3 DEF peer_state
  <1>10. Sound(p.c)
    BY <1>2, <1>3, <1>4, <1>5, <1>6, <1>8, <1>9
       DEF Sound, Coherent, ReaderMatches, HeldFits, ExtensionsFit, Fixtures
  <1>11. ASSUME NEW a, WordKept(c, a) PROVE WordKept(p.c, a)
    BY <1>1, <1>2, <1>3, <1>11 DEF WordKept, Settles, ServerSettles, state, peer, Roles,
                                   Lawful, Joint
  <1> QED BY <1>2, <1>9, <1>10, <1>11

(* The end of the connection for the peer.                                  *)
LEMMA CloseKeeps ==
    ASSUME NEW X, NEW c \in Connections(X), Sound(c), c.held = 0,
           NEW p, p.c \in Connections(X), Closes(c, p)
    PROVE  /\ Sound(p.c) /\ peer_state(c) # "SendBody"
           /\ p.c.st.keep_alive = c.st.keep_alive
           /\ \A b : BodyFits(c, b) => BodyFits(p.c, b)
           /\ \A a : WordKept(c, a) => WordKept(p.c, a)
  <1> DEFINE role == peer(c.role)
  <1>1. role \in Roles /\ peer(role) = c.role /\ c.role \in Roles
    BY DEF peer, Roles, Connections
  <1>2. /\ Lawful(p.c.st) /\ state(c.st, role) \in {"Idle", "Done", "MustClose", "Closed"}
        /\ state(p.c.st, role) = "Closed"
        /\ Settles(c.role, c.st, p.c.st)
        /\ p.c.st.keep_alive = c.st.keep_alive /\ KeepsProposals(c.st, p.c.st)
    BY <1>1, ClosedEffect DEF Closes, Sound, Coherent
  <1>3. Fixtures(c, p.c) /\ p.c.role = c.role /\ p.c.cycle = c.cycle
    BY DEF Closes, Fixtures
  <1>4. c.cycle.reader = ReadHead
    BY <1>2 DEF Sound, ReaderMatches, peer_state
  <1>5. WriterMatches(p.c)
    BY <1>1, <1>2, <1>3 DEF Sound, Coherent, WriterMatches, local_state, state, Settles,
                            ClientSettles, ServerSettles, Roles
  <1>6. ReaderShape(p.c)
    BY <1>2, <1>3 DEF Sound, Coherent, ReaderShape
  <1>7. /\ p.c.st.server = "SendResponse" => c.st.server = "SendResponse"
        /\ c.st.server \in {"SendResponse", "Error"} => p.c.st.server = c.st.server
    BY <1>1, <1>2 DEF Settles, ServerSettles, state, peer, Roles
  <1>8. ProposalsMatch(p.c) /\ WaitMatches(p.c)
    BY <1>2, <1>3, <1>7 DEF Sound, Coherent, ProposalsMatch, WaitMatches, KeepsProposals
  <1>9. peer_state(p.c) = "Closed" /\ peer_state(c) \notin {"SendBody", "Error"}
    BY <1>2, <1>3 DEF peer_state
  <1>10. Sound(p.c)
    BY <1>2, <1>3, <1>4, <1>5, <1>6, <1>8, <1>9
       DEF Sound, Coherent, ReaderMatches, HeldFits, ExtensionsFit, Fixtures
  <1>11. ASSUME NEW a, WordKept(c, a) PROVE WordKept(p.c, a)
    BY <1>1, <1>2, <1>3, <1>11 DEF WordKept, Settles, ServerSettles, state, peer, Roles
  <1>12. ASSUME NEW b, BodyFits(c, b) PROVE BodyFits(p.c, b)
    BY <1>3, <1>4, <1>12 DEF BodyFits, ReadHead, Reader
  <1> QED BY <1>2, <1>9, <1>10, <1>11, <1>12

----------------------------------------------------------------------------
(* Every outcome of a poll is a record with these fields.                   *)
IsPolled(p) ==
    p \in [kind : {p.kind}, c : {p.c}, count : {p.count}, chunk_start : {p.chunk_start},
           chunk_end : {p.chunk_end}]

(* An outcome made by Polled, or chosen by IfPeerAccepts, is one.           *)
LEMMA PolledShape ==
    /\ \A kind, c : IsPolled(Polled(kind, c))
    /\ \A c, ev, o : IsPolled(o) => IsPolled(IfPeerAccepts(c, ev, o))
  BY DEF IsPolled, Polled, IfPeerAccepts

(* peer_data and the functions that end in it.                              *)
LEMMA PayloadShape ==
    ASSUME NEW c
    PROVE  /\ \A count, first, end : IsPolled(peer_data(c, count, first, end))
           /\ \A available : IsPolled(advance_payload(c, available))
           /\ IsPolled(read_payload(c)) /\ IsPolled(need_data_or_eof(c)) /\ IsPolled(finish_peer(c))
           /\ IsPolled(peer_closed(c)) /\ IsPolled(wait_for_section(c))
           /\ IsPolled(read_close_delimited(c)) /\ IsPolled(read_finished(c))
  <1>1. \A d, count, first, end : IsPolled(peer_data(d, count, first, end))
    <2> SUFFICES ASSUME NEW d, NEW count, NEW first, NEW end
                 PROVE  IsPolled(peer_data(d, count, first, end))
      OBVIOUS
    <2> DEFINE e == [advance_peer(d, StateEvent("Data")) EXCEPT !.cycle.waiting_for_continue = FALSE]
               o == [Polled("Data", e) EXCEPT !.count = count, !.chunk_start = first, !.chunk_end = end]
    <2>1. peer_data(d, count, first, end) = IfPeerAccepts(d, StateEvent("Data"), o)
      BY DEF peer_data
    <2> HIDE DEF e
    <2>2. IsPolled(o)
      BY DEF IsPolled, Polled
    <2> HIDE DEF o
    <2> QED BY <2>1, <2>2, PolledShape
  <1>2. \A available : IsPolled(advance_payload(c, available))
    <2> SUFFICES ASSUME NEW available PROVE IsPolled(advance_payload(c, available))
      OBVIOUS
    <2>1. \E d, count, first, end : advance_payload(c, available) = peer_data(d, count, first, end)
      BY Zenon DEF advance_payload
    <2> QED BY <1>1, <2>1
  <1>3. IsPolled(need_data_or_eof(c)) /\ IsPolled(finish_peer(c)) /\ IsPolled(peer_closed(c))
    BY PolledShape, Zenon DEF need_data_or_eof, finish_peer, peer_closed
  <1>4. IsPolled(read_payload(c)) /\ IsPolled(wait_for_section(c))
    BY <1>2, <1>3, PolledShape DEF read_payload, wait_for_section
  <1>5. IsPolled(read_close_delimited(c))
    BY <1>1, <1>3, PolledShape DEF read_close_delimited
  <1>6. IsPolled(read_finished(c))
    BY <1>3, PolledShape DEF read_finished
  <1> QED BY <1>1, <1>2, <1>3, <1>4, <1>5, <1>6

(* The functions that read a head.                                          *)
LEMMA HeadShape ==
    ASSUME NEW c, NEW due
    PROVE  IsPolled(read_head(c, due))
  <1>1. \A d, h : IsPolled(accept_request(d, h))
    BY PolledShape DEF accept_request
  <1>2. \A d, h : IsPolled(accept_informational(d, h))
    BY PolledShape DEF accept_informational
  <1>3. \A d, h : IsPolled(accept_final(d, h))
    BY PolledShape DEF accept_final
  <1>4. \A d, h : IsPolled(accept_response(d, h))
    BY <1>2, <1>3, PolledShape DEF accept_response
  <1> QED BY <1>1, <1>4, PolledShape, PayloadShape DEF read_head

(* The functions that read a chunked body.                                  *)
LEMMA ChunkShape ==
    ASSUME NEW c, NEW due
    PROVE  IsPolled(read_trailers(c, due)) /\ IsPolled(read_chunk_size(c, due))
           /\ IsPolled(read_chunk_end(c, due))
  <1>1. \A d : IsPolled(read_trailers(d, due))
    BY PolledShape, PayloadShape DEF read_trailers
  <1>2. \A d : IsPolled(read_chunk_size(d, due))
    BY <1>1, PolledShape, PayloadShape DEF read_chunk_size
  <1>3. IsPolled(read_chunk_end(c, due))
    BY <1>2, PolledShape, PayloadShape DEF read_chunk_end
  <1> QED BY <1>1, <1>2, <1>3

(* next_event_inner.                                                        *)
LEMMA InnerShape ==
    ASSUME NEW X, NEW c \in Connections(X), NEW due
    PROVE  IsPolled(next_event_inner(c, due))
  <1>1. c.cycle.reader.kind \in ReaderKinds
    BY DEF Connections, Cycles, Readers
  <1>2. IsPolled(read_message(c, due))
    <2>1. read_message(c, due) \in
             {read_head(c, due), finish_peer(c), read_payload(c), read_close_delimited(c),
              read_chunk_size(c, due), read_chunk_end(c, due), read_trailers(c, due)}
      BY <1>1 DEF read_message, ReaderKinds
    <2>2. /\ IsPolled(read_head(c, due)) /\ IsPolled(finish_peer(c)) /\ IsPolled(read_payload(c))
          /\ IsPolled(read_close_delimited(c)) /\ IsPolled(read_chunk_size(c, due))
          /\ IsPolled(read_chunk_end(c, due)) /\ IsPolled(read_trailers(c, due))
      BY PayloadShape, HeadShape, ChunkShape
    <2> QED BY <2>1, <2>2
  <1>3. \A k : IsPolled(Polled(k, c))
    BY PolledShape
  <1>4. IsPolled(peer_closed([c EXCEPT !.input = <<>>])) /\ IsPolled(read_finished(c))
    BY PayloadShape
  <1>5. \/ \E k \in {"ConnectionClosed", "Paused", "Err"} : next_event_inner(c, due) = Polled(k, c)
        \/ next_event_inner(c, due) \in
             {peer_closed([c EXCEPT !.input = <<>>]), read_finished(c), read_message(c, due)}
    BY DEF next_event_inner
  <1> QED BY <1>2, <1>3, <1>4, <1>5

(* The last step of next_event: p is the outcome before it, q the one after.*)
Concludes(c, p, q) ==
    /\ q.kind = p.kind /\ q.count = p.count
    /\ q.chunk_start = p.chunk_start /\ q.chunk_end = p.chunk_end
    /\ p.kind = "Err" => q.c = Advanced(p.c, process_error(p.c.st, peer(c.role)))
    /\ p.kind = "Data" => q.c = Consumed(p.c, p.count)
    /\ p.kind \notin {"Err", "Data"} => q = p

(* next_event is next_event_inner and its conclusion.                       *)
LEMMA NextEventConcludes ==
    ASSUME NEW X, NEW c \in Connections(X), NEW due, NEW p, p = next_event_inner(c, due),
           NEW q, q = next_event(c, due)
    PROVE  Concludes(c, p, q)
  <1>1. IsPolled(p)
    BY InnerShape
  <1>2. q = CASE p.kind = "Err" -> [p EXCEPT !.c = Advanced(@, process_error(@.st, peer(c.role)))]
              [] p.kind = "Data" -> [p EXCEPT !.c = Consumed(@, p.count)]
              [] OTHER -> p
    BY DEF next_event, Advanced, Consumed
  <1>3. ASSUME NEW x PROVE LET r == [p EXCEPT !.c = x] IN
              /\ r.c = x /\ r.kind = p.kind /\ r.count = p.count
              /\ r.chunk_start = p.chunk_start /\ r.chunk_end = p.chunk_end
    BY <1>1 DEF IsPolled
  <1> QED BY <1>2, <1>3 DEF Concludes

----------------------------------------------------------------------------
(* The outcomes of next_event, one by one.                                  *)

(* Nothing to report.                                                       *)
LEMMA IdlePoll ==
    ASSUME NEW X, NEW c \in Connections(X), Sound(c),
           NEW p, Idles(c, p), p.kind # "Err", NEW q, Concludes(c, p, q)
    PROVE  PollResult(X, c, q)
  <1>1. q = p /\ q.c = c /\ q.kind \in {"NeedData", "Paused", "ConnectionClosed"}
    BY DEF Idles, Concludes
  <1>2. q.kind = "NeedData" => WithinLimit(c)
    BY <1>1 DEF Idles
  <1>3. Len(c.input) <= Len(c.input)
    BY LenProperties DEF Connections
  <1>4. \A b : Delivered(c, b, q) = b
    BY <1>1 DEF Delivered
  <1> QED BY <1>1, <1>2, <1>3, <1>4 DEF PollResult, Events

(* A failure: of a body, on the way to one, or of a head that was taken off *)
(* the buffer.                                                              *)
LEMMA FailedPoll ==
    ASSUME NEW X, NEW c \in Connections(X), c.held = 0, NEW p, p.kind = "Err",
           p.c \in Connections(X), Fixtures(c, p.c), Coherent(p.c), peer_state(p.c) \in Readable,
           Len(p.c.input) <= Len(c.input), p.c.cycle.reader = c.cycle.reader \/ Chunking(c, p.c),
           peer_state(c) \in Readable,
           ~(/\ peer_state(c) = "SendBody"
             /\ c.cycle.reader.kind = "Fixed" /\ c.cycle.reader.n <= Len(c.input)),
           NEW q, Concludes(c, p, q)
    PROVE  PollResult(X, c, q)
  <1>1. p.c.held = 0 /\ p.c.role = c.role
    BY DEF Fixtures
  <1>2. /\ q.kind = "Err" /\ q.c \in Connections(X) /\ Sound(q.c) /\ SameButState(p.c, q.c)
        /\ ~q.c.st.keep_alive
    BY <1>1, PoisonEffect DEF Concludes
  <1>3. \A b : Delivered(c, b, q) = b
    BY <1>2 DEF Delivered
  <1>4. ASSUME NEW b \in Bodies, BodyFits(c, b) PROVE BodyFits(q.c, b)
    <2>1. peer_state(q.c) # "SendBody"
      <3>1. peer(c.role) \in Roles
        BY DEF peer, Roles
      <3>2. state(process_error(p.c.st, peer(c.role)), peer(c.role)) = "Error"
        BY <1>1, <3>1, ErrorEffect DEF Coherent, peer_state, Readable
      <3>3. q.c.st = process_error(p.c.st, peer(c.role))
        <4>1. process_error(p.c.st, peer(c.role)) \in ConnectionStates
          BY <1>1, <3>1, ErrorEffect DEF Coherent, peer_state, Readable, Lawful
        <4> QED BY <4>1, AdvancedEffect DEF Concludes
      <3> QED BY <1>1, <1>2, <3>2, <3>3 DEF peer_state, SameButState
    <2>2. q.c.cycle.reader = p.c.cycle.reader
      BY <1>2 DEF SameButState
    <2>3. CASE p.c.cycle.reader = c.cycle.reader
      BY <1>4, <2>1, <2>2, <2>3 DEF BodyFits
    <2>4. CASE Chunking(c, p.c)
      <3>1. c.cycle.reader.kind \in {"ChunkSize", "ChunkDataEnd"} /\ ~b.open
        BY <1>4, <2>4 DEF Chunking, BodyFits
      <3>2. CASE p.c.cycle.reader = Reader("ChunkSize", 0) \/ p.c.cycle.reader = Reader("ChunkTrailers", 0)
        BY <2>2, <3>1, <3>2 DEF BodyFits, Reader
      <3>3. ASSUME NEW n, p.c.cycle.reader = [kind |-> "ChunkData", n |-> n, first |-> TRUE]
            PROVE  BodyFits(q.c, b)
        <4>1. q.c.cycle.reader.kind = "ChunkData" /\ q.c.cycle.reader.first
          BY <2>2, <3>3
        <4> QED BY <3>1, <4>1 DEF BodyFits
      <3> QED BY <2>3, <2>4, <3>2, <3>3 DEF Chunking
    <2> QED BY <2>3, <2>4
  <1>5. ASSUME NEW a, WordKept(c, a) PROVE WordKept(q.c, a)
    <2>1. c.role \in Roles
      BY DEF Connections
    <2>2. a # "persist"
      BY <1>5, <2>1 DEF WordKept, peer_state, state, peer, Readable
    <2> QED BY <1>2, <2>2 DEF WordKept
  <1>6. /\ q.c.role = c.role /\ q.c.lenient = c.lenient /\ q.c.held = c.held
        /\ Len(q.c.input) <= Len(c.input)
    BY <1>2 DEF SameButState, Fixtures
  <1> QED BY <1>2, <1>3, <1>4, <1>5, <1>6 DEF PollResult, Events, Readable

(* The size line by which the reader's chunk is known, however far the      *)
(* decoder went in this poll.                                               *)
LEMMA ChunkLengthIsRead ==
    ASSUME NEW X, NEW c \in Connections(X), NEW d, d = c \/ Chunking(c, d),
           d.cycle.reader.kind = "ChunkData"
    PROVE  ChunkLength(c) = d.cycle.reader.n
  <1>1. CASE d = c
    BY <1>1 DEF ChunkLength
  <1>2. CASE Chunking(c, d)
    <2>1. c.cycle.reader.kind # "ChunkData"
      BY <1>2 DEF Chunking
    <2>2. PICK k \in 1..Len(c.input) :
             /\ c.input[k].tok = "hex" /\ \A j \in 1..(k - 1) : c.input[j].tok # "hex"
             /\ d.cycle.reader = [kind |-> "ChunkData", n |-> c.input[k].n, first |-> TRUE]
      BY <1>2, <2>1 DEF Chunking, Reader
    <2> DEFINE sizes == {i \in DOMAIN c.input : c.input[i].tok = "hex"}
               least(i) == i \in sizes /\ \A j \in sizes : i <= j
               at == CHOOSE i \in sizes : \A j \in sizes : i <= j
    <2>3. DOMAIN c.input = 1..Len(c.input) /\ Len(c.input) \in Nat
      BY LenProperties DEF Connections
    <2>4. k \in sizes
      BY <2>2, <2>3
    <2>5. ASSUME NEW j \in sizes PROVE k <= j
      <3>1. j \in 1..Len(c.input) /\ c.input[j].tok = "hex"
        BY <2>3
      <3>2. j \notin 1..(k - 1)
        BY <2>2, <3>1
      <3> QED BY <2>3, <3>1, <3>2
    <2>6. at \in sizes /\ \A j \in sizes : at <= j
      BY <2>4, <2>5, Zenon
    <2>7. at = k
      <3>1. at <= k /\ k <= at /\ at \in Nat /\ k \in Nat
        BY <2>3, <2>4, <2>5, <2>6
      <3> HIDE DEF at
      <3> QED BY <3>1
    <2>8. ChunkLength(c) = c.input[at].n
      BY <2>1 DEF ChunkLength
    <2> HIDE DEF at
    <2> QED BY <2>2, <2>7, <2>8
  <1> QED BY <1>1, <1>2

(* The end of the message.                                                  *)
LEMMA FinishPoll ==
    ASSUME NEW X, NEW c \in Connections(X), Coherent(c), c.held = 0, peer_state(c) = "SendBody",
           NEW d \in Connections(X), d = c \/ Chunking(c, d), d.cycle.chunk_extension_bytes <= MaxHead,
           NEW p, p.c \in Connections(X), Finishes(d, p), NEW q, Concludes(c, p, q)
    PROVE  PollResult(X, c, q)
  <1>1. /\ Coherent(d) /\ peer_state(d) = "SendBody" /\ Fixtures(c, d) /\ d.st = c.st
        /\ Len(d.input) <= Len(c.input) /\ Len(c.input) \in Nat /\ Len(d.input) \in Nat
    <2>1. Len(c.input) \in Nat /\ Len(d.input) \in Nat
      BY LenProperties DEF Connections
    <2>2. CASE d = c
      BY <2>1, <2>2 DEF Fixtures
    <2>3. CASE Chunking(c, d)
      BY <2>1, <2>3, ChunkingKeeps DEF Chunking, Reads
    <2> QED BY <2>2, <2>3
  <1>2. q = p /\ q.kind = "EndOfMessage"
    BY DEF Finishes, Concludes
  <1>3. /\ Sound(p.c) /\ peer_state(p.c) # "SendBody"
        /\ p.c.st.keep_alive = d.st.keep_alive
        /\ \A a : WordKept(d, a) => WordKept(p.c, a)
    BY <1>1, FinishKeeps DEF Fixtures
  <1>4. ASSUME NEW a, WordKept(c, a) PROVE WordKept(p.c, a)
    <2>1. WordKept(d, a)
      <3>1. CASE d = c
        BY <1>4, <3>1
      <3>2. CASE Chunking(c, d)
        <4>1. a # "persist"
          BY <1>4, <3>2 DEF WordKept, Chunking, peer_state, state, peer
        <4> QED BY <1>1, <1>4, <4>1 DEF WordKept
      <3> QED BY <3>1, <3>2
    <2> QED BY <1>3, <2>1
  <1>5. ASSUME NEW b \in Bodies, BodyFits(c, b) PROVE Delivered(c, b, q) = b /\ BodyFits(p.c, b)
    <2>1. Delivered(c, b, q) = b
      BY <1>2 DEF Delivered
    <2>2. c.cycle.reader.kind # "ChunkData"
      BY DEF Finishes, Chunking
    <2>3. ~b.open
      BY <1>5, <2>2 DEF BodyFits
    <2>4. p.c.cycle.reader = ReadHead
      BY DEF Finishes, Connections, Cycles
    <2> QED BY <2>1, <2>3, <2>4 DEF BodyFits, ReadHead, Reader
  <1>6. Len(p.c.input) <= Len(c.input)
    <2>1. Len(p.c.input) \in Nat /\ Len(p.c.input) <= Len(d.input)
      BY LenProperties DEF Finishes, Connections
    <2> QED BY <1>1, <2>1
  <1> QED BY <1>1, <1>2, <1>3, <1>4, <1>5, <1>6 DEF PollResult, Finishes, Fixtures

(* The end of the connection.                                               *)
LEMMA ClosePoll ==
    ASSUME NEW X, NEW c \in Connections(X), Sound(c), c.held = 0,
           NEW p, p.c \in Connections(X), Closes(c, p),
           peer_state(c) \in {"Done", "MustClose", "MightSwitchProtocol", "SwitchedProtocol"} =>
              p.c.input = c.input,
           NEW q, Concludes(c, p, q)
    PROVE  PollResult(X, c, q)
  <1>1. q = p /\ q.kind = "ConnectionClosed"
    BY DEF Closes, Concludes
  <1>2. /\ Sound(p.c) /\ p.c.st.keep_alive = c.st.keep_alive
        /\ \A b : BodyFits(c, b) => BodyFits(p.c, b)
        /\ \A a : WordKept(c, a) => WordKept(p.c, a)
    BY CloseKeeps
  <1>3. \A b : Delivered(c, b, q) = b
    BY <1>1 DEF Delivered
  <1> QED BY <1>1, <1>2, <1>3 DEF PollResult, Closes, Fixtures, Events

(* A head.                                                                  *)
LEMMA HeadPoll ==
    ASSUME NEW X, NEW c \in Connections(X), Sound(c), c.held = 0,
           peer_state(c) \in {"Idle", "SendResponse"},
           NEW k \in 1..Len(c.input), FirstHead(c.input, k), NEW d \in Connections(X),
           Fixtures(c, d), d.cycle = c.cycle, Len(d.input) < Len(c.input),
           d.st.keep_alive => c.st.keep_alive /\ c.input[k].h.syntax # "dropped",
           NEW p, HeadTaken(X, d, c.input[k].h, p), NEW q, Concludes(c, p, q)
    PROVE  PollResult(X, c, q)
  <1>1. q = p /\ q.kind \in {"Request", "InformationalResponse", "Response"}
    BY DEF HeadTaken, Concludes
  <1>2. /\ Fixtures(c, p.c) /\ p.c \in Connections(X) /\ p.c.held = 0
        /\ Len(p.c.input) < Len(c.input) /\ Len(p.c.input) <= Len(c.input)
    <2>1. Fixtures(c, p.c) /\ p.c \in Connections(X) /\ p.c.input = d.input
      BY DEF HeadTaken, Fixtures
    <2>2. Len(c.input) \in Nat /\ Len(d.input) \in Nat
      BY LenProperties DEF Connections
    <2> QED BY <2>1, <2>2 DEF Fixtures
  <1>3. Sound(p.c)
    BY <1>2 DEF HeadTaken, Sound, HeldFits
  <1>4. /\ p.c.st.keep_alive => c.st.keep_alive
        /\ p.c.st.keep_alive => ~IsFinal(c.input[k].h)
    BY DEF HeadTaken, IsFinal, EndsReuse
  <1>5. c.cycle.reader = ReadHead
    BY DEF Sound, ReaderMatches
  <1>6. ASSUME NEW b \in Bodies, BodyFits(c, b)
        PROVE  Delivered(c, b, q) \in Bodies /\ BodyFits(p.c, Delivered(c, b, q))
    <2>1. CASE q.kind = "InformationalResponse"
      <3>1. Delivered(c, b, q) = b
        BY <2>1 DEF Delivered
      <3>2. p.c.cycle.reader = ReadHead
        BY <1>1, <1>5, <2>1 DEF HeadTaken
      <3> QED BY <1>5, <1>6, <3>1, <3>2 DEF BodyFits, ReadHead, Reader
    <2>2. CASE q.kind # "InformationalResponse"
      <3> DEFINE n == p.c.cycle.reader.n
                 e == [NoBody EXCEPT !.due = n]
      <3>1. n \in Nat
        BY <1>2 DEF Connections, Cycles, Readers
      <3>2. Delivered(c, b, q) = e
        BY <1>1, <2>2 DEF Delivered
      <3>3. p.c.cycle.reader.kind \in {"Fixed", "ChunkSize", "CloseDelimited"}
        BY <1>1, <2>2 DEF HeadTaken
      <3>4. e \in Bodies /\ e.due = n /\ e.got = 0 /\ ~e.open
        BY <3>1 DEF NoBody, Bodies
      <3> HIDE DEF e
      <3>5. e.got + p.c.cycle.reader.n = e.due
        BY <3>1, <3>4
      <3> QED BY <3>2, <3>3, <3>4, <3>5 DEF BodyFits
    <2> QED BY <2>1, <2>2
  <1>7. ASSUME NEW a, WordKept(c, a) PROVE WordKept(p.c, a)
    <2>1. a # "persist"
      BY <1>7 DEF WordKept, peer_state, state, peer
    <2> QED BY <1>4, <1>7, <2>1 DEF WordKept
  <1> QED BY <1>1, <1>2, <1>3, <1>4, <1>6, <1>7 DEF PollResult, Fixtures

----------------------------------------------------------------------------
(* A piece of a body, or of a chunk, that goes on.                          *)
GotMore(b, n, open) == [b EXCEPT !.got = @ + n, !.open = open]

(* It adds up.                                                              *)
LEMMA GotMoreEffect ==
    ASSUME NEW b \in Bodies, NEW n \in Nat, NEW open \in BOOLEAN, NEW f, f = GotMore(b, n, open)
    PROVE  f \in Bodies /\ f.due = b.due /\ f.got = b.got + n /\ f.open = open
  <1> DEFINE g == [b EXCEPT !.got = b.got + n]
  <1>1. g \in Bodies /\ g.due = b.due /\ g.got = b.got + n
    BY DEF Bodies
  <1>2. f = [g EXCEPT !.open = open]
    BY DEF GotMore
  <1> HIDE DEF g
  <1>3. f \in Bodies /\ f.due = g.due /\ f.got = g.got /\ f.open = open
    BY <1>1, <1>2 DEF Bodies
  <1> QED BY <1>1, <1>3

(* Body data.  What one event does to the body that its reader has seen,    *)
(* when the decoder goes from the one position to the other.                *)
LEMMA DeliveredAddsUp ==
    ASSUME NEW X, NEW c \in Connections(X), Coherent(c), peer_state(c) = "SendBody",
           NEW d \in Connections(X), d = c \/ Chunking(c, d), Coherent(d),
           NEW available \in Nat, NEW p, TakesPayload(d, p, available),
           NEW q, q.kind = "Data", q.count = p.count,
           q.chunk_start = p.chunk_start, q.chunk_end = p.chunk_end,
           NEW e, e.cycle.reader = p.c.cycle.reader,
           NEW b \in Bodies, BodyFits(c, b)
    PROVE  Delivered(c, b, q) \in Bodies /\ BodyFits(e, Delivered(c, b, q))
  <1> DEFINE r == d.cycle.reader
             s == e.cycle.reader
             n == p.count
  <1>1. /\ r \in Readers /\ r.n \in Nat /\ n \in Nat /\ n >= 1
        /\ b.due \in Nat /\ b.got \in Nat /\ b.open \in BOOLEAN
    BY DEF Connections, Cycles, Readers, TakesPayload, Bodies
  <1>2. \/ r.kind = "CloseDelimited" /\ s = r /\ ~p.chunk_end
        \/ r.kind = "ChunkData" /\ n = r.n /\ s = Reader("ChunkDataEnd", 0) /\ p.chunk_end
        \/ r.kind = "ChunkData" /\ n < r.n /\ s = Reader("ChunkData", r.n - n) /\ ~p.chunk_end
        \/ r.kind = "Fixed" /\ n <= r.n /\ s = Reader("Fixed", r.n - n) /\ ~p.chunk_end
    BY DEF TakesPayload
  <1>3. q.chunk_start = r.first
    BY DEF TakesPayload
  <1>4. r.first => r.kind = "ChunkData"
    BY DEF Coherent, ReaderShape
  <1>5. CASE r.first
    <2>1. ChunkLength(c) = r.n
      BY <1>4, <1>5, ChunkLengthIsRead
    <2> DEFINE over == p.chunk_end
               f == [due |-> r.n, got |-> n, open |-> ~over]
    <2>2. Delivered(c, b, q) = f
      BY <1>3, <1>5, <2>1, Zenon DEF Delivered
    <2>3. f \in Bodies /\ f.due = r.n /\ f.got = n
      BY <1>1 DEF Bodies
    <2>4. f.open <=> ~over
      BY Zenon
    <2> HIDE DEF f
    <2>5. \/ n = r.n /\ s = Reader("ChunkDataEnd", 0) /\ ~f.open
          \/ n < r.n /\ s = Reader("ChunkData", r.n - n) /\ f.open
      BY <1>2, <1>4, <1>5, <2>4
    <2>6. CASE n = r.n /\ s = Reader("ChunkDataEnd", 0) /\ ~f.open
      BY <2>2, <2>3, <2>6 DEF BodyFits, Reader
    <2>7. CASE n < r.n /\ s = Reader("ChunkData", r.n - n) /\ f.open
      <3>1. s.kind = "ChunkData" /\ ~s.first /\ s.n = r.n - n
        BY <2>7 DEF Reader
      <3>2. f.got + s.n = f.due
        BY <1>1, <2>3, <3>1
      <3> QED BY <2>2, <2>3, <2>7, <3>1, <3>2 DEF BodyFits
    <2> QED BY <2>5, <2>6, <2>7
  <1>6. CASE ~r.first
    <2>1. r = c.cycle.reader
      <3>1. CASE Chunking(c, d)
        <4>1. r \in {c.cycle.reader, Reader("ChunkSize", 0), Reader("ChunkTrailers", 0)}
              \/ \E m : r = [kind |-> "ChunkData", n |-> m, first |-> TRUE]
          BY <3>1 DEF Chunking
        <4>2. r.kind \in {"CloseDelimited", "ChunkData", "Fixed"}
          BY <1>2
        <4>3. r # Reader("ChunkSize", 0) /\ r # Reader("ChunkTrailers", 0)
          BY <4>2 DEF Reader
        <4>4. ASSUME NEW m, r = [kind |-> "ChunkData", n |-> m, first |-> TRUE] PROVE FALSE
          <5>1. r.first
            BY <4>4
          <5> QED BY <1>6, <5>1
        <4> QED BY <4>1, <4>3, <4>4
      <3> QED BY <3>1
    <2>2. CASE r.kind = "CloseDelimited"
      <3>1. Delivered(c, b, q) = b
        BY <1>3, <1>6, <2>1, <2>2 DEF Delivered
      <3>2. s = r /\ ~b.open
        BY <1>2, <2>1, <2>2 DEF BodyFits
      <3> QED BY <2>2, <3>1, <3>2 DEF BodyFits
    <2>3. CASE r.kind # "CloseDelimited"
      <3>1. PICK open \in BOOLEAN : open = (b.open /\ ~q.chunk_end)
        BY Zenon
      <3> DEFINE f == GotMore(b, n, open)
      <3>2. Delivered(c, b, q) = f
        <4>1. ~q.chunk_start /\ c.cycle.reader.kind # "CloseDelimited"
          BY <1>3, <1>6, <2>1, <2>3
        <4>2. Delivered(c, b, q) = [b EXCEPT !.got = @ + q.count, !.open = @ /\ ~q.chunk_end]
          BY <4>1 DEF Delivered
        <4> QED BY <3>1, <4>2, Zenon DEF GotMore
      <3>3. open <=> (b.open /\ ~p.chunk_end)
        BY <3>1, Zenon
      <3>4. f \in Bodies /\ f.due = b.due /\ f.got = b.got + n /\ f.open = open
        <4>1. n \in Nat
          BY <1>1
        <4> HIDE DEF n, f
        <4>2. f = GotMore(b, n, open)
          BY DEF f
        <4> QED BY <4>1, <4>2, GotMoreEffect
      <3> HIDE DEF f
      <3>5. b.got + r.n = b.due
        BY <1>2, <1>6, <2>1, <2>3 DEF BodyFits
      <3>6. CASE r.kind = "Fixed"
        <4>1. s.kind = "Fixed" /\ s.n = r.n - n
          BY <1>2, <3>6 DEF Reader
        <4>2. ~b.open
          BY <2>1, <3>6 DEF BodyFits
        <4>3. ~f.open
          BY <3>3, <3>4, <4>2
        <4>4. f.got + s.n = f.due
          BY <1>1, <3>4, <3>5, <4>1
        <4> QED BY <3>2, <3>4, <4>1, <4>3, <4>4 DEF BodyFits
      <3>7. CASE r.kind = "ChunkData" /\ n = r.n /\ s = Reader("ChunkDataEnd", 0) /\ p.chunk_end
        <4>1. ~f.open /\ f.got = f.due /\ s.kind = "ChunkDataEnd"
          BY <1>1, <3>3, <3>4, <3>5, <3>7 DEF Reader
        <4> QED BY <3>2, <3>4, <4>1 DEF BodyFits
      <3>8. CASE r.kind = "ChunkData" /\ n < r.n /\ s = Reader("ChunkData", r.n - n) /\ ~p.chunk_end
        <4>1. s.kind = "ChunkData" /\ ~s.first /\ s.n = r.n - n
          BY <3>8 DEF Reader
        <4>2. b.open
          BY <1>6, <2>1, <3>8 DEF BodyFits
        <4>3. f.open
          BY <3>3, <3>4, <3>8, <4>2
        <4>4. f.got + s.n = f.due
          BY <1>1, <3>4, <3>5, <4>1
        <4> QED BY <3>2, <3>4, <4>1, <4>3, <4>4 DEF BodyFits
      <3> QED BY <1>2, <2>3, <3>6, <3>7, <3>8
    <2> QED BY <2>2, <2>3
  <1> QED BY <1>5, <1>6

(* Data from the buffer.                                                    *)
LEMMA DataPoll ==
    ASSUME NEW X, NEW c \in Connections(X), Coherent(c), c.held = 0, peer_state(c) = "SendBody",
           NEW d \in Connections(X), d = c \/ Chunking(c, d), d.cycle.chunk_extension_bytes <= MaxHead,
           NEW p, p.c \in Connections(X), TakesPayload(d, p, Len(d.input)), NEW q, Concludes(c, p, q)
    PROVE  PollResult(X, c, q)
  <1>1. /\ Coherent(d) /\ peer_state(d) = "SendBody" /\ Fixtures(c, d) /\ d.st = c.st
        /\ Len(d.input) <= Len(c.input) /\ Len(c.input) \in Nat /\ Len(d.input) \in Nat
    <2>1. Len(c.input) \in Nat /\ Len(d.input) \in Nat
      BY LenProperties DEF Connections
    <2>2. CASE d = c
      BY <2>1, <2>2 DEF Fixtures
    <2>3. CASE Chunking(c, d)
      BY <2>1, <2>3, ChunkingKeeps DEF Chunking, Reads
    <2> QED BY <2>2, <2>3
  <1>2. /\ p.kind = "Data" /\ p.count \in 1..Len(d.input) /\ Reads(d, p.c) /\ p.c.input = d.input
    BY DEF TakesPayload
  <1>3. /\ Coherent(p.c) /\ ReaderMatches(p.c) /\ ExtensionsFit(p.c) /\ peer_state(p.c) = "SendBody"
    BY <1>1, PayloadKeeps
  <1>4. /\ q.kind = "Data" /\ q.count = p.count /\ q.chunk_start = p.chunk_start
        /\ q.chunk_end = p.chunk_end /\ q.c = Consumed(p.c, p.count)
    BY <1>2 DEF Concludes
  <1>5. /\ q.c \in Connections(X) /\ q.c.st = p.c.st /\ q.c.cycle = p.c.cycle /\ Fixtures(p.c, q.c)
        /\ Len(q.c.input) = Len(d.input) - p.count
    <2>1. p.count \in 0..Len(p.c.input)
      BY <1>1, <1>2
    <2> QED BY <1>2, <1>4, <2>1, ConsumedEffect
  <1>6. Fixtures(c, q.c) /\ q.c.st = c.st /\ q.c.held = 0
    BY <1>1, <1>2, <1>5 DEF Reads, Fixtures
  <1>7. Sound(q.c)
    BY <1>3, <1>5, <1>6 DEF Sound, Coherent, WriterMatches, ReaderShape, ProposalsMatch, WaitMatches,
                            ReaderMatches, ExtensionsFit, HeldFits, Fixtures, local_state, peer_state
  <1>8. Len(q.c.input) < Len(c.input) /\ Len(q.c.input) <= Len(c.input)
    BY <1>1, <1>2, <1>5
  <1>9. ASSUME NEW b \in Bodies, BodyFits(c, b)
        PROVE  Delivered(c, b, q) \in Bodies /\ BodyFits(q.c, Delivered(c, b, q))
    <2>1. q.c.cycle.reader = p.c.cycle.reader
      BY <1>5
    <2> QED BY <1>1, <1>4, <1>9, <2>1, DeliveredAddsUp
  <1>10. ASSUME NEW a, WordKept(c, a) PROVE WordKept(q.c, a)
    <2>1. CASE a # "persist"
      BY <1>6, <1>10, <2>1 DEF WordKept
    <2>2. CASE a = "persist"
      <3>1. c.cycle.reader.kind = "Fixed" /\ c.cycle.reader.n <= c.held + Len(c.input)
        BY <1>10, <2>2 DEF WordKept, peer_state, state, peer
      <3>2. d = c
        BY <3>1 DEF Chunking
      <3>3. q.c.cycle.reader = Reader("Fixed", c.cycle.reader.n - p.count)
        BY <1>5, <3>1, <3>2 DEF TakesPayload
      <3>4. q.c.cycle.reader.kind = "Fixed" /\ q.c.cycle.reader.n = c.cycle.reader.n - p.count
        BY <3>3 DEF Reader
      <3>5. c.cycle.reader.n \in Nat
        BY DEF Connections, Cycles, Readers
      <3>6. q.c.cycle.reader.n <= q.c.held + Len(q.c.input)
        BY <1>1, <1>2, <1>5, <1>6, <3>1, <3>2, <3>4, <3>5
      <3> QED BY <1>6, <1>10, <2>2, <3>4, <3>6 DEF WordKept, Fixtures
    <2> QED BY <2>1, <2>2
  <1> QED BY <1>4, <1>5, <1>6, <1>7, <1>8, <1>9, <1>10 DEF PollResult, Fixtures

(* More bytes wanted, once the decoder has moved to the next chunk or to    *)
(* the trailers.                                                            *)
LEMMA ChunkIdlePoll ==
    ASSUME NEW X, NEW c \in Connections(X), Coherent(c), c.held = 0, peer_state(c) = "SendBody",
           NEW d \in Connections(X), Chunking(c, d), d.cycle.chunk_extension_bytes <= MaxHead,
           NEW p, Idles(d, p), p.kind # "Err", NEW q, Concludes(c, p, q)
    PROVE  PollResult(X, c, q)
  <1>1. Coherent(d) /\ peer_state(d) = "SendBody" /\ Fixtures(c, d) /\ d.st = c.st
        /\ Len(d.input) <= Len(c.input)
    BY ChunkingKeeps DEF Chunking, Reads
  <1>2. q = p /\ q.c = d /\ q.kind \in {"NeedData", "Paused", "ConnectionClosed"}
        /\ (q.kind = "NeedData" => WithinLimit(d))
    BY DEF Idles, Concludes
  <1>3. \/ d.cycle.reader = c.cycle.reader \/ d.cycle.reader = Reader("ChunkSize", 0)
        \/ d.cycle.reader = Reader("ChunkTrailers", 0)
        \/ \E n : d.cycle.reader = [kind |-> "ChunkData", n |-> n, first |-> TRUE]
    BY DEF Chunking
  <1>4. c.cycle.reader.kind \in {"ChunkSize", "ChunkDataEnd"}
    BY DEF Chunking
  <1>5. Sound(d)
    <2>1. d.cycle.reader.kind # "Head"
      <3>1. ASSUME NEW n, d.cycle.reader = [kind |-> "ChunkData", n |-> n, first |-> TRUE]
            PROVE  d.cycle.reader.kind = "ChunkData"
        BY <3>1
      <3>2. ASSUME NEW kind, d.cycle.reader = Reader(kind, 0) PROVE d.cycle.reader.kind = kind
        BY <3>2 DEF Reader
      <3> QED BY <1>3, <1>4, <3>1, <3>2
    <2> QED BY <1>1, <2>1 DEF Sound, ReaderMatches, HeldFits, ExtensionsFit, Fixtures
  <1>6. \A b : Delivered(c, b, q) = b
    BY <1>2 DEF Delivered
  <1>7. ASSUME NEW b \in Bodies, BodyFits(c, b) PROVE BodyFits(d, b)
    <2>1. ~b.open
      BY <1>4, <1>7 DEF BodyFits
    <2>2. CASE d.cycle.reader = c.cycle.reader
      BY <1>4, <1>7, <2>2 DEF BodyFits
    <2>3. CASE d.cycle.reader = Reader("ChunkSize", 0) \/ d.cycle.reader = Reader("ChunkTrailers", 0)
      BY <2>1, <2>3 DEF BodyFits, Reader
    <2>4. ASSUME NEW n, d.cycle.reader = [kind |-> "ChunkData", n |-> n, first |-> TRUE]
          PROVE  BodyFits(d, b)
      <3>1. d.cycle.reader.kind = "ChunkData" /\ d.cycle.reader.first
        BY <2>4
      <3> QED BY <2>1, <3>1 DEF BodyFits
    <2> QED BY <1>3, <2>2, <2>3, <2>4
  <1>8. ASSUME NEW a, WordKept(c, a) PROVE WordKept(d, a)
    <2>1. a # "persist"
      BY <1>4, <1>8 DEF WordKept, peer_state, state, peer
    <2> QED BY <1>1, <1>8, <2>1 DEF WordKept
  <1> QED BY <1>1, <1>2, <1>5, <1>6, <1>7, <1>8 DEF PollResult, Events, Fixtures

(* next_event, called with no body bytes held.                              *)
LEMMA NextEventEffect ==
    ASSUME NEW X, SymbolsOK(X), NEW c \in Connections(X), Sound(c), c.held = 0, NEW due,
           NEW q, q = next_event(c, due)
    PROVE  PollResult(X, c, q)
  <1> DEFINE p == next_event_inner(c, due)
  <1>1. PollStep(X, c, p)
    BY NextEventInnerEffect
  <1>2. Concludes(c, p, q)
    BY NextEventConcludes
  <1> HIDE DEF p
  <1>3. Coherent(c) /\ (peer_state(c) = "SendBody" => c.cycle.chunk_extension_bytes <= MaxHead)
    BY DEF Sound, ExtensionsFit
  <1>4. ASSUME NEW d \in Connections(X), d = c \/ (Chunking(c, d) /\ peer_state(c) = "SendBody"),
               BodyStep(X, d, p), peer_state(c) = "SendBody" \/ Idles(d, p),
               p.kind = "Err" \/ (peer_state(c) = "SendBody" => d.cycle.chunk_extension_bytes <= MaxHead)
        PROVE  PollResult(X, c, q)
    <2>1. p.c \in Connections(X)
      BY <1>4 DEF BodyStep
    <2>2. Coherent(d) /\ peer_state(d) = peer_state(c)
      BY <1>3, <1>4, ChunkingKeeps
    <2>3. CASE Finishes(d, p)
      <3>1. peer_state(c) = "SendBody" /\ p.kind # "Err"
        BY <2>2, <2>3 DEF Finishes
      <3> QED BY <1>2, <1>3, <1>4, <2>1, <2>3, <3>1, FinishPoll
    <2>4. CASE TakesPayload(d, p, Len(d.input))
      <3>1. p.kind # "Err"
        BY <2>4 DEF TakesPayload
      <3>2. peer_state(c) = "SendBody"
        BY <1>4, <2>4 DEF TakesPayload, Idles
      <3> QED BY <1>2, <1>3, <1>4, <2>1, <2>4, <3>1, <3>2, DataPoll
    <2>5. CASE Idles(d, p) /\ p.kind = "Err"
      <3>1. p.c = d /\ peer_state(d) \in Readable
        BY <2>5 DEF Idles
      <3>2. Fixtures(c, d) /\ Len(d.input) <= Len(c.input)
        <4>1. Len(c.input) <= Len(c.input)
          BY LenProperties DEF Connections
        <4> QED BY <1>4, <4>1 DEF Fixtures, Chunking, Reads
      <3>3. ~(/\ peer_state(c) = "SendBody"
              /\ c.cycle.reader.kind = "Fixed" /\ c.cycle.reader.n <= Len(c.input))
        BY <1>4, <2>5 DEF Idles, Chunking
      <3>4. p.c.cycle.reader = c.cycle.reader \/ Chunking(c, p.c)
        BY <1>4, <3>1
      <3> QED BY <1>2, <2>2, <2>5, <3>1, <3>2, <3>3, <3>4, FailedPoll
    <2>6. CASE Idles(d, p) /\ p.kind # "Err" /\ d = c
      BY <1>2, <2>6, IdlePoll
    <2>7. CASE Idles(d, p) /\ p.kind # "Err" /\ d # c
      BY <1>2, <1>3, <1>4, <2>7, ChunkIdlePoll
    <2> QED BY <1>4, <2>3, <2>4, <2>5, <2>6, <2>7 DEF BodyStep
  <1>5. CASE BodyStep(X, c, p) /\ (peer_state(c) = "SendBody" \/ Idles(c, p))
    BY <1>3, <1>4, <1>5
  <1>6. CASE ChunkStep(X, c, p) /\ peer_state(c) = "SendBody"
    <2>1. PICK d \in Connections(X) :
             /\ Chunking(c, d) /\ BodyStep(X, d, p)
             /\ \/ p.kind = "Err" \/ d.cycle.chunk_extension_bytes <= MaxHead
                \/ d.cycle.chunk_extension_bytes = c.cycle.chunk_extension_bytes
      BY <1>6 DEF ChunkStep
    <2> QED BY <1>3, <1>4, <1>6, <2>1
  <1>7. CASE Closes(c, p) /\ p.c \in Connections(X)
    BY <1>1, <1>2, <1>7, ClosePoll DEF PollStep
  <1>8. CASE HeadStep(X, c, p) /\ peer_state(c) \in {"Idle", "SendResponse"}
    <2>1. c.cycle.reader = ReadHead
      BY <1>8 DEF Sound, ReaderMatches
    <2>2. CASE BodyStep(X, c, p)
      <3>1. ~TakesPayload(c, p, Len(c.input)) /\ ~Finishes(c, p)
        BY <1>8, <2>1 DEF TakesPayload, Finishes, ReadHead, Reader
      <3> QED BY <1>3, <1>4, <2>2, <3>1 DEF BodyStep
    <2>3. ASSUME NEW k \in 1..Len(c.input), NEW d \in Connections(X),
                 FirstHead(c.input, k),
                 Fixtures(c, d), d.cycle = c.cycle, Len(d.input) < Len(c.input),
                 d.st.keep_alive => c.st.keep_alive /\ c.input[k].h.syntax # "dropped",
                 HeadRefused(X, d, p) \/ HeadTaken(X, d, c.input[k].h, p)
          PROVE  PollResult(X, c, q)
      <3>1. CASE HeadTaken(X, d, c.input[k].h, p)
        BY <1>2, <1>8, <2>3, <3>1, HeadPoll
      <3>2. CASE HeadRefused(X, d, p)
        <4>1. /\ p.kind = "Err" /\ p.c \in Connections(X) /\ Coherent(p.c)
              /\ peer_state(p.c) \in Readable /\ p.c.input = d.input
              /\ p.c.cycle.reader = c.cycle.reader /\ Fixtures(c, p.c)
          BY <2>3, <3>2 DEF HeadRefused, Fixtures
        <4>2. Len(p.c.input) <= Len(c.input)
          <5>1. Len(c.input) \in Nat /\ Len(d.input) \in Nat
            BY LenProperties DEF Connections
          <5> QED BY <2>3, <4>1, <5>1
        <4>3. peer_state(c) \in Readable /\ peer_state(c) # "SendBody"
          BY <1>8 DEF Readable
        <4> QED BY <1>2, <4>1, <4>2, <4>3, FailedPoll
      <3> QED BY <2>3, <3>1, <3>2
    <2> QED BY <1>8, <2>2, <2>3 DEF HeadStep
  <1> QED BY <1>1, <1>5, <1>6, <1>7, <1>8 DEF PollStep

----------------------------------------------------------------------------
(* The other calls that receive.  What any call but a poll or a new cycle   *)
(* keeps.                                                                   *)
Preserves(X, c, d) ==
    /\ d \in Connections(X) /\ Sound(d)
    /\ d.role = c.role /\ d.lenient = c.lenient
    /\ d.st.keep_alive => c.st.keep_alive
    /\ \A b \in Bodies : BodyFits(c, b) => BodyFits(d, b)

(* receive_data with bytes.                                                 *)
LEMMA ReceiveBytesEffect ==
    ASSUME NEW X, NEW c \in Connections(X), Sound(c), NEW t \in Seq(X),
           NEW d, d = receive_bytes(c, t)
    PROVE  /\ Preserves(X, c, d) /\ d.held = c.held
           /\ Len(d.input) = Len(c.input) + Len(t)
           /\ c.input = SubSeq(d.input, 1, Len(c.input))
           /\ \A a : WordKept(c, a) => WordKept(d, a)
  <1> DEFINE s == c.input \o t
  <1>1. /\ c.input \in Seq(X) /\ Len(c.input) \in Nat /\ Len(t) \in Nat
        /\ DOMAIN c.input = 1..Len(c.input)
    BY LenProperties DEF Connections
  <1>2. /\ s \in Seq(X) /\ Len(s) = Len(c.input) + Len(t)
        /\ \A i \in 1..Len(c.input) : s[i] = c.input[i]
    BY <1>1, ConcatProperties
  <1> HIDE DEF s
  <1>3. d = [c EXCEPT !.input = s]
    BY DEF receive_bytes, s
  <1>4. /\ d \in Connections(X) /\ d.st = c.st /\ d.cycle = c.cycle /\ d.role = c.role
        /\ d.lenient = c.lenient /\ d.held = c.held /\ d.input = s
    BY <1>2, <1>3 DEF Connections
  <1>5. Sound(d) /\ \A b : BodyFits(c, b) => BodyFits(d, b)
    BY <1>4 DEF Sound, Coherent, WriterMatches, ReaderShape, ProposalsMatch, WaitMatches,
                ReaderMatches, ExtensionsFit, HeldFits, WithinPayload, payload_reader,
                local_state, peer_state, BodyFits
  <1>6. ASSUME NEW a, WordKept(c, a) PROVE WordKept(d, a)
    <2>1. c.cycle.reader.n \in Nat /\ c.held \in Nat
      BY DEF Connections, Cycles, Readers
    <2>2. c.cycle.reader.n <= c.held + Len(c.input) => c.cycle.reader.n <= c.held + (Len(c.input) + Len(t))
      BY <1>1, <2>1
    <2> QED BY <1>2, <1>4, <1>6, <2>2 DEF WordKept
  <1>7. c.input = SubSeq(s, 1, Len(c.input))
    <2>1. Len(c.input) \in 0..Len(s)
      BY <1>1, <1>2
    <2>2. /\ SubSeq(s, 1, Len(c.input)) \in Seq(X) /\ Len(SubSeq(s, 1, Len(c.input))) = Len(c.input)
          /\ \A i \in 1..Len(c.input) : SubSeq(s, 1, Len(c.input))[i] = s[i]
      BY <1>2, <2>1, SubSeqProperties
    <2> QED BY <1>1, <1>2, <2>2, SeqEqual
  <1> QED BY <1>2, <1>4, <1>5, <1>6, <1>7 DEF Preserves

(* One symbol is a piece.                                                   *)
LEMMA ReceiveSymbolEffect ==
    ASSUME NEW X, NEW c \in Connections(X), Sound(c), NEW x \in X, NEW d, d = receive_bytes(c, <<x>>)
    PROVE  /\ Preserves(X, c, d) /\ d.held = c.held
           /\ Len(d.input) = Len(c.input) + 1
           /\ c.input = SubSeq(d.input, 1, Len(c.input))
           /\ \A a : WordKept(c, a) => WordKept(d, a)
  <1> DEFINE t == <<x>>
  <1>1. t \in Seq(X) /\ Len(t) = 1 /\ d = receive_bytes(c, t)
    OBVIOUS
  <1> HIDE DEF t
  <1>2. /\ Preserves(X, c, d) /\ d.held = c.held
        /\ Len(d.input) = Len(c.input) + Len(t)
        /\ c.input = SubSeq(d.input, 1, Len(c.input))
        /\ \A a : WordKept(c, a) => WordKept(d, a)
    BY <1>1, ReceiveBytesEffect
  <1> QED BY <1>1, <1>2

(* The end of the transport.                                                *)
LEMMA RecordEofEffect ==
    ASSUME NEW X, NEW c \in Connections(X), Sound(c), NEW d, d = record_eof(c)
    PROVE  /\ Preserves(X, c, d) /\ d.held = c.held /\ d.input = c.input
           /\ \A a : WordKept(c, a) => WordKept(d, a)
  <1> DEFINE e == [c EXCEPT !.eof = TRUE]
             client == c.role = "client"
  <1>1. /\ e \in Connections(X) /\ e.st = c.st /\ e.cycle = c.cycle /\ e.role = c.role
        /\ e.lenient = c.lenient /\ e.held = c.held /\ e.input = c.input
    BY DEF Connections
  <1>2. d = NoKeepAliveIf(client, e) /\ client \in BOOLEAN
    BY DEF record_eof
  <1> HIDE DEF e
  <1>3. Sound(e)
    BY <1>1 DEF Sound, Coherent, WriterMatches, ReaderShape, ProposalsMatch, WaitMatches,
                ReaderMatches, ExtensionsFit, HeldFits, WithinPayload, payload_reader,
                local_state, peer_state
  <1>4. /\ d \in Connections(X) /\ SameButState(e, d) /\ Sound(d)
        /\ d.st.keep_alive => e.st.keep_alive
        /\ ClientSettles(e.st.client, d.st.client) /\ ServerSettles(e.st.server, d.st.server)
    <2> HIDE DEF client
    <2> QED BY <1>1, <1>2, <1>3, NoKeepAliveEffect, NoKeepAliveKeeps DEF Sound, Coherent
  <1>5. ASSUME NEW b, BodyFits(c, b) PROVE BodyFits(d, b)
    BY <1>1, <1>4, <1>5 DEF BodyFits, SameButState, peer_state, state, peer, ClientSettles,
                            ServerSettles
  <1>6. ASSUME NEW a, WordKept(c, a) PROVE WordKept(d, a)
    <2>1. CASE client
      BY <1>1, <1>4, <1>6, <2>1 DEF WordKept
    <2>2. CASE ~client
      <3>1. d = e
        BY <1>2, <2>2 DEF NoKeepAliveIf
      <3> QED BY <1>1, <1>6, <3>1 DEF WordKept
    <2> QED BY <2>1, <2>2
  <1> QED BY <1>1, <1>4, <1>5, <1>6 DEF Preserves, SameButState

(* hold_body_data that answers true.                                        *)
LEMMA HoldEffect ==
    ASSUME NEW X, NEW c \in Connections(X), Sound(c), NEW count \in Nat, hold_body_data(c, count),
           NEW d, d = [c EXCEPT !.held = @ + count]
    PROVE  /\ Preserves(X, c, d) /\ d.held = c.held + count /\ d.input = c.input
           /\ \A a : WordKept(c, a) => WordKept(d, a)
  <1>1. c.held \in Nat /\ c.cycle.reader.n \in Nat /\ Len(c.input) \in Nat
    BY LenProperties DEF Connections, Cycles, Readers
  <1>2. /\ d \in Connections(X) /\ d.st = c.st /\ d.cycle = c.cycle /\ d.role = c.role
        /\ d.lenient = c.lenient /\ d.held = c.held + count /\ d.input = c.input
    BY <1>1 DEF Connections
  <1>3. Sound(d) /\ \A b : BodyFits(c, b) => BodyFits(d, b)
    BY <1>2 DEF Sound, Coherent, WriterMatches, ReaderShape, ProposalsMatch, WaitMatches,
                ReaderMatches, ExtensionsFit, HeldFits, WithinPayload, payload_reader,
                local_state, peer_state, BodyFits, hold_body_data
  <1>4. ASSUME NEW a, WordKept(c, a) PROVE WordKept(d, a)
    <2>1. c.cycle.reader.n <= c.held + Len(c.input) =>
             c.cycle.reader.n <= (c.held + count) + Len(c.input)
      BY <1>1
    <2> QED BY <1>2, <1>4, <2>1 DEF WordKept
  <1> QED BY <1>2, <1>3, <1>4 DEF Preserves

(* Handing over held bytes.                                                 *)
InPlaceResult(X, c, count, q) ==
    /\ q.c \in Connections(X) /\ Sound(q.c)
    /\ q.c.role = c.role /\ q.c.lenient = c.lenient /\ q.c.input = c.input
    /\ q.c.st.keep_alive => c.st.keep_alive
    /\ \/ q.kind = "LocalError" /\ q.c = c /\ count \notin 1..c.held
       \/ /\ q.kind = "Data" /\ count \in 1..c.held /\ q.c.held = c.held - count
          /\ peer_state(c) = "SendBody"
    /\ \A b \in Bodies : BodyFits(c, b) => /\ Delivered(c, b, q) \in Bodies
                                           /\ BodyFits(q.c, Delivered(c, b, q))
    /\ \A a : WordKept(c, a) => WordKept(q.c, a)

(* The bytes that next_event_in_place was given are held no more.           *)
Released(c, count) == [c EXCEPT !.held = @ - count]

(* next_event_in_place never fails inside a payload: whatever was held is   *)
(* accepted as data, all of it.                                             *)
LEMMA InPlaceTakes ==
    ASSUME NEW X, NEW c \in Connections(X), Sound(c), NEW count \in 1..c.held,
           NEW p, p = advance_payload(c, count), NEW q, q = next_event_in_place(c, count)
    PROVE  /\ payload_reader(c)
           /\ c.cycle.reader.kind # "CloseDelimited" => c.held <= c.cycle.reader.n
           /\ p.c \in Connections(X) /\ TakesPayload(c, p, count) /\ p.count = count
           /\ q.c = Released(p.c, count) /\ q.kind = "Data" /\ q.count = p.count
           /\ q.chunk_start = p.chunk_start /\ q.chunk_end = p.chunk_end
  <1>1. c.held \in Nat /\ c.cycle.reader.n \in Nat
    BY DEF Connections, Cycles, Readers
  <1>2. payload_reader(c) /\ (c.cycle.reader.kind # "CloseDelimited" => c.held <= c.cycle.reader.n)
    BY <1>1 DEF Sound, HeldFits, WithinPayload
  <1>3. count \in Nat \ {0} /\ ReaderShape(c)
    BY <1>1 DEF Sound, Coherent
  <1>4. p.c \in Connections(X) /\ TakesPayload(c, p, count)
    BY <1>2, <1>3, AdvancePayloadEffect
  <1>5. IsPolled(p)
    BY PayloadShape
  <1>6. p.kind = "Data" /\ p.count = count
    BY <1>1, <1>2, <1>4 DEF TakesPayload
  <1>7. q = [p EXCEPT !.c = Released(p.c, count)]
    BY <1>1, <1>6 DEF next_event_in_place, Released
  <1>8. ASSUME NEW x PROVE LET r == [p EXCEPT !.c = x] IN
              /\ r.c = x /\ r.kind = p.kind /\ r.count = p.count
              /\ r.chunk_start = p.chunk_start /\ r.chunk_end = p.chunk_end
    BY <1>5 DEF IsPolled
  <1> QED BY <1>2, <1>4, <1>6, <1>7, <1>8

(* The invariant after it.                                                  *)
LEMMA InPlaceEffect ==
    ASSUME NEW X, NEW c \in Connections(X), Sound(c), NEW count \in Nat,
           NEW q, q = next_event_in_place(c, count)
    PROVE  InPlaceResult(X, c, count, q)
  <1> DEFINE p == advance_payload(c, count)
  <1>1. c.held \in Nat /\ c.cycle.reader.n \in Nat /\ Len(c.input) \in Nat
    BY LenProperties DEF Connections, Cycles, Readers
  <1>2. CASE count = 0 \/ count > c.held
    <2>1. q = Polled("LocalError", c)
      BY <1>2 DEF next_event_in_place
    <2>2. q.kind = "LocalError" /\ q.c = c
      BY <2>1 DEF Polled
    <2>3. \A b : Delivered(c, b, q) = b
      BY <2>2 DEF Delivered
    <2>4. count \notin 1..c.held
      BY <1>1, <1>2
    <2> QED BY <2>2, <2>3, <2>4 DEF InPlaceResult
  <1>3. CASE count # 0 /\ count <= c.held
    <2>0. count \in 1..c.held
      BY <1>1, <1>3
    <2>1. payload_reader(c) /\ (c.cycle.reader.kind # "CloseDelimited" => c.held <= c.cycle.reader.n)
      BY <2>0, InPlaceTakes
    <2>2. Coherent(c) /\ peer_state(c) = "SendBody"
      BY <2>1 DEF Sound, payload_reader
    <2>3. p.c \in Connections(X) /\ TakesPayload(c, p, count)
      BY <2>0, InPlaceTakes
    <2>9. /\ q.c = Released(p.c, count) /\ q.kind = "Data" /\ q.count = p.count
          /\ q.chunk_start = p.chunk_start /\ q.chunk_end = p.chunk_end /\ p.count = count
      BY <2>0, InPlaceTakes
    <2> HIDE DEF p
    <2>6. p.kind = "Data" /\ Reads(c, p.c) /\ p.c.input = c.input
      BY <2>3 DEF TakesPayload
    <2>10. /\ q.c \in Connections(X) /\ q.c.st = p.c.st /\ q.c.cycle = p.c.cycle
           /\ q.c.role = p.c.role /\ q.c.lenient = p.c.lenient /\ q.c.input = p.c.input
           /\ q.c.held = c.held - count
      <3>1. p.c.held = c.held /\ c.held - count \in Nat
        BY <1>1, <1>3, <2>6 DEF Reads, Fixtures
      <3> QED BY <2>3, <2>9, <3>1 DEF Released, Connections
    <2>11. c.cycle.chunk_extension_bytes <= MaxHead
      BY <2>2 DEF Sound, ExtensionsFit
    <2>12. Coherent(p.c) /\ ReaderMatches(p.c) /\ ExtensionsFit(p.c) /\ peer_state(p.c) = "SendBody"
      BY <2>2, <2>3, <2>11, PayloadKeeps
    <2>13. q.c.role = c.role /\ q.c.st = c.st /\ q.c.lenient = c.lenient
      BY <2>6, <2>10 DEF Reads, Fixtures
    <2>14. HeldFits(q.c)
      <3> SUFFICES ASSUME c.held - count > 0 PROVE WithinPayload(q.c, c.held - count)
        BY <2>10 DEF HeldFits
      <3> DEFINE r == c.cycle.reader
                 s == q.c.cycle.reader
      <3>1. \/ r.kind = "CloseDelimited" /\ s = r
            \/ /\ r.kind \in {"Fixed", "ChunkData"} /\ s = Reader(r.kind, r.n - count)
               /\ c.held <= r.n
            \/ r.kind = "ChunkData" /\ count = r.n /\ c.held <= r.n
        BY <2>1, <2>3, <2>9, <2>10 DEF TakesPayload
      <3>2. \/ s.kind = "CloseDelimited"
            \/ s.kind \in {"Fixed", "ChunkData"} /\ s.n = r.n - count /\ c.held <= r.n
        BY <1>1, <3>1 DEF Reader
      <3>3. peer_state(q.c) = "SendBody"
        BY <2>2, <2>13 DEF peer_state
      <3> QED BY <1>1, <1>3, <3>2, <3>3 DEF WithinPayload, payload_reader
    <2>15. Sound(q.c)
      BY <2>10, <2>12, <2>14 DEF Sound, Coherent, WriterMatches, ReaderShape, ProposalsMatch,
                  WaitMatches, ReaderMatches, ExtensionsFit, local_state, peer_state
    <2>16. ASSUME NEW b \in Bodies, BodyFits(c, b)
           PROVE  Delivered(c, b, q) \in Bodies /\ BodyFits(q.c, Delivered(c, b, q))
      <3>1. q.c.cycle.reader = p.c.cycle.reader
        BY <2>10
      <3> QED BY <2>2, <2>3, <2>9, <2>16, <3>1, DeliveredAddsUp
    <2>17. ASSUME NEW a, WordKept(c, a) PROVE WordKept(q.c, a)
      <3>1. CASE a # "persist"
        BY <2>13, <2>17, <3>1 DEF WordKept
      <3>2. CASE a = "persist"
        <4>1. c.cycle.reader.kind = "Fixed" /\ c.cycle.reader.n <= c.held + Len(c.input)
          BY <2>2, <2>17, <3>2 DEF WordKept, peer_state, state, peer
        <4>2. q.c.cycle.reader = Reader("Fixed", c.cycle.reader.n - count)
          BY <2>3, <2>9, <2>10, <4>1 DEF TakesPayload
        <4>3. q.c.cycle.reader.kind = "Fixed" /\ q.c.cycle.reader.n = c.cycle.reader.n - count
          BY <4>2 DEF Reader
        <4>4. q.c.cycle.reader.n <= q.c.held + Len(q.c.input)
          BY <1>1, <1>3, <2>6, <2>10, <4>1, <4>3
        <4> QED BY <2>13, <2>17, <3>2, <4>3, <4>4 DEF WordKept
      <3> QED BY <3>1, <3>2
    <2>18. count \in 1..c.held /\ q.c.held = c.held - count
      BY <1>1, <1>3, <2>10
    <2> QED BY <2>2, <2>6, <2>9, <2>10, <2>13, <2>15, <2>16, <2>17, <2>18 DEF InPlaceResult
  <1> QED BY <1>1, <1>2, <1>3

----------------------------------------------------------------------------
(* A call that sends: what has been received, and how far it was read, is   *)
(* none of its business, and a peer in its message stays in it.             *)
OnlyLocal(c, d) ==
    /\ d.role = c.role /\ d.lenient = c.lenient /\ d.input = c.input /\ d.held = c.held
    /\ d.eof = c.eof /\ d.peer_version = c.peer_version
    /\ d.cycle.reader = c.cycle.reader
    /\ d.cycle.chunk_extension_bytes = c.cycle.chunk_extension_bytes

(* The peer stays, or settles from where it was between messages.           *)
PeerKept(s, t) ==
    t = s \/ (s \in {"Idle", "Done", "MightSwitchProtocol"} /\ t \notin {"SendBody", "Error"})

(* What a call that succeeds leaves.                                        *)
Moves(X, c, d) ==
    /\ d \in Connections(X) /\ Coherent(d) /\ OnlyLocal(c, d)
    /\ PeerKept(peer_state(c), peer_state(d))
    /\ d.st.keep_alive => c.st.keep_alive

(* Such a call keeps the invariant of the receiving half, and the body that *)
(* its reader has seen.                                                     *)
LEMMA MovesPreserve ==
    ASSUME NEW X, NEW c \in Connections(X), Sound(c), NEW d, Moves(X, c, d)
    PROVE  Preserves(X, c, d) /\ d.held = c.held /\ d.input = c.input
  <1>1. /\ d \in Connections(X) /\ Coherent(d) /\ OnlyLocal(c, d)
        /\ PeerKept(peer_state(c), peer_state(d)) /\ (d.st.keep_alive => c.st.keep_alive)
    BY DEF Moves
  <1>2. ReaderMatches(c) /\ HeldFits(c) /\ ExtensionsFit(c)
    BY DEF Sound
  <1> DEFINE s == peer_state(c)
             t == peer_state(d)
  <1>3. t = s \/ (s \notin {"SendBody", "Error", "SwitchedProtocol"} /\ t \notin {"SendBody", "Error"})
    BY <1>1 DEF PeerKept
  <1>4. ReaderMatches(d)
    BY <1>1, <1>2, <1>3 DEF ReaderMatches, OnlyLocal
  <1>5. HeldFits(d)
    BY <1>1, <1>2, <1>3 DEF HeldFits, WithinPayload, payload_reader, OnlyLocal
  <1>6. ExtensionsFit(d)
    BY <1>1, <1>2, <1>3 DEF ExtensionsFit, OnlyLocal
  <1>7. ASSUME NEW b \in Bodies, BodyFits(c, b) PROVE BodyFits(d, b)
    BY <1>1, <1>3, <1>7 DEF BodyFits, OnlyLocal
  <1> QED BY <1>1, <1>4, <1>5, <1>6, <1>7 DEF Preserves, Sound, OnlyLocal

(* Calls in a row, as send_complete makes them.                             *)
LEMMA MovesCompose ==
    ASSUME NEW X, NEW c, NEW d, NEW e, Moves(X, c, d), Moves(X, d, e)
    PROVE  Moves(X, c, e)
  BY DEF Moves, OnlyLocal, PeerKept

(* A call that changes nothing is one of them.                              *)
LEMMA MovesNowhere ==
    ASSUME NEW X, NEW c \in Connections(X), Coherent(c)
    PROVE  Moves(X, c, c)
  BY DEF Moves, OnlyLocal, PeerKept

(* The rollback of send_complete gives back the connection it started from. *)
LEMMA RestoredIsSaved ==
    ASSUME NEW X, NEW c \in Connections(X), NEW d \in Connections(X), OnlyLocal(c, d)
    PROVE  Restored(c, d) = c
  BY DEF Restored, OnlyLocal, Connections

----------------------------------------------------------------------------
(* The writer that a call leaves, with the wait that it ends or not.        *)
WithWriter(k, w) == [k EXCEPT !.cycle.writer = w]

(* The framings that a writer may have.                                     *)
Writers == [kind : {None, "Fixed", "Chunked", "CloseDelimited"}, n : Nat]

(* It touches nothing else.                                                 *)
LEMMA WithWriterEffect ==
    ASSUME NEW X, NEW k \in Connections(X), NEW w \in Writers, NEW d, d = WithWriter(k, w)
    PROVE  /\ d \in Connections(X) /\ d.st = k.st /\ OnlyLocal(k, d) /\ d.cycle.writer = w
           /\ d.cycle.request_kind = k.cycle.request_kind
           /\ d.cycle.upgrade_proposals = k.cycle.upgrade_proposals
           /\ d.cycle.waiting_for_continue = k.cycle.waiting_for_continue
           /\ d.cycle.continue_before_upgrade = k.cycle.continue_before_upgrade
  BY DEF WithWriter, Writers, Connections, Cycles, OnlyLocal

(* The writer that a head leaves, which also ends the wait.                 *)
Wrote(k, w) == [k EXCEPT !.cycle.writer = w, !.cycle.waiting_for_continue = FALSE]

(* It touches nothing else.                                                 *)
LEMMA WroteEffect ==
    ASSUME NEW X, NEW k \in Connections(X), NEW w \in Writers, NEW d, d = Wrote(k, w)
    PROVE  /\ d \in Connections(X) /\ d.st = k.st /\ OnlyLocal(k, d) /\ d.cycle.writer = w
           /\ d.cycle.request_kind = k.cycle.request_kind
           /\ d.cycle.upgrade_proposals = k.cycle.upgrade_proposals
           /\ d.cycle.continue_before_upgrade = k.cycle.continue_before_upgrade
           /\ ~d.cycle.waiting_for_continue
  BY DEF Wrote, Writers, Connections, Cycles, OnlyLocal

(* A call that succeeds or fails.                                           *)
SendResult(X, c, r) ==
    /\ r.ok \in BOOLEAN
    /\ ~r.ok => r.c = c
    /\ r.ok => Moves(X, c, r.c)

(* A refused call changes nothing.                                          *)
LEMMA RefusedEffect ==
    ASSUME NEW X, NEW c, NEW r, r = Refused(c)
    PROVE  SendResult(X, c, r) /\ ~r.ok
  BY DEF SendResult, Refused

----------------------------------------------------------------------------
(* send_data.                                                               *)
LEMMA SendDataEffect ==
    ASSUME NEW X, NEW c \in Connections(X), Coherent(c), NEW length \in Nat,
           NEW r, r = send_data(c, length)
    PROVE  /\ SendResult(X, c, r)
           /\ r.ok => local_state(c) = "SendBody" /\ r.c.st = c.st
  <1> DEFINE w == c.cycle.writer
             next == IF w.kind = "Fixed" THEN Fixed(w.n - length) ELSE w
             d == Wrote(c, next)
  <1>1. CASE r = Refused(c)
    BY <1>1, RefusedEffect
  <1>2. CASE /\ w # NoFraming /\ (w.kind = "Fixed" => length <= w.n)
             /\ local_state(c) = "SendBody" /\ r.ok = TRUE /\ r.c = d
    <2>1. w \in Writers
      BY DEF Connections, Cycles, Writers
    <2>2. next \in Writers /\ next # NoFraming /\ next.kind = w.kind
      BY <1>2, <2>1 DEF Writers, Fixed, NoFraming, None
    <2> HIDE DEF next
    <2>3. /\ d \in Connections(X) /\ d.st = c.st /\ OnlyLocal(c, d) /\ d.cycle.writer = next
          /\ d.cycle.request_kind = c.cycle.request_kind
          /\ d.cycle.upgrade_proposals = c.cycle.upgrade_proposals
          /\ ~d.cycle.waiting_for_continue
      BY <2>2, WroteEffect
    <2> HIDE DEF d
    <2>4. WriterMatches(d)
      BY <1>2, <2>2, <2>3 DEF WriterMatches, local_state, OnlyLocal
    <2>5. ReaderShape(d)
      BY <2>2, <2>3 DEF Coherent, ReaderShape, OnlyLocal
    <2>6. ProposalsMatch(d) /\ WaitMatches(d)
      BY <2>3 DEF Coherent, ProposalsMatch, WaitMatches
    <2>7. Coherent(d)
      BY <2>3, <2>4, <2>5, <2>6 DEF Coherent
    <2>8. peer_state(d) = peer_state(c)
      BY <2>3 DEF peer_state, OnlyLocal
    <2>9. Moves(X, c, d)
      BY <2>3, <2>7, <2>8 DEF Moves, PeerKept
    <2> QED BY <1>2, <2>3, <2>9 DEF SendResult
  <1>3. ASSUME LocalAccepts(c, StateEvent("Data"))
        PROVE  local_state(c) = "SendBody" /\ advance_local(c, StateEvent("Data")) = c
    <2>1. process_event(c.st, c.role, StateEvent("Data")) = c.st /\ local_state(c) = "SendBody"
      BY <1>3, DataEffect DEF LocalAccepts, local_state
    <2> QED BY <2>1 DEF advance_local, Connections
  <1>4. r = Refused(c) \/ (/\ w # NoFraming /\ (w.kind = "Fixed" => length <= w.n)
                           /\ LocalAccepts(c, StateEvent("Data"))
                           /\ r.ok = TRUE
                           /\ r.c = [advance_local(c, StateEvent("Data"))
                                EXCEPT !.cycle.writer = next, !.cycle.waiting_for_continue = FALSE])
    BY DEF send_data, Sent
  <1>5. LocalAccepts(c, StateEvent("Data")) =>
          [advance_local(c, StateEvent("Data"))
              EXCEPT !.cycle.writer = next, !.cycle.waiting_for_continue = FALSE] = d
    BY <1>3 DEF Wrote
  <1> QED BY <1>1, <1>2, <1>3, <1>4, <1>5

(* What an event of the local actor does, when the rest of the call is to   *)
(* forget the writer.                                                       *)
LEMMA LocalEnds ==
    ASSUME NEW X, NEW c \in Connections(X), Coherent(c), NEW s, Lawful(s),
           state(s, c.role) # "SendBody", Settles(peer(c.role), c.st, s),
           state(s, c.role) \notin {"SendResponse", "Error"},
           s.keep_alive = c.st.keep_alive, KeepsProposals(c.st, s),
           NEW d \in Connections(X), d.st = s, OnlyLocal(c, d), d.cycle.writer = NoFraming,
           d.cycle.request_kind = c.cycle.request_kind,
           d.cycle.upgrade_proposals = c.cycle.upgrade_proposals,
           d.cycle.continue_before_upgrade = c.cycle.continue_before_upgrade,
           d.cycle.waiting_for_continue => c.cycle.waiting_for_continue,
           c.role = "server" => ~d.cycle.waiting_for_continue
    PROVE  Moves(X, c, d)
  <1>1. c.role \in Roles /\ d.role = c.role
    BY DEF Connections, OnlyLocal
  <1>2. WriterMatches(d)
    BY <1>1 DEF WriterMatches, local_state
  <1>3. ReaderShape(d)
    BY <1>1 DEF Coherent, ReaderShape, OnlyLocal, NoFraming, None
  <1>4. s.server = "SendResponse" => c.st.server = "SendResponse" /\ c.role = "client"
    BY <1>1 DEF Settles, ServerSettles, state, peer, Roles
  <1>5. c.role = "client" /\ c.st.server \in {"SendResponse", "Error"} => s.server = c.st.server
    BY <1>1 DEF Settles, ServerSettles, state, peer, Roles
  <1>6. ProposalsMatch(d)
    BY <1>4 DEF Coherent, ProposalsMatch, KeepsProposals
  <1>7. WaitMatches(d)
    BY <1>1, <1>5 DEF Coherent, WaitMatches, Roles
  <1>8. PeerKept(peer_state(c), peer_state(d))
    BY <1>1 DEF PeerKept, peer_state, peer, state, Roles, Settles, ClientSettles, ServerSettles
  <1> QED BY <1>1, <1>2, <1>3, <1>6, <1>7, <1>8 DEF Moves, Coherent

(* Such an end keeps the word of a response: the client's part is over, or  *)
(* its body is all here.                                                    *)
LEMMA LocalKeepsWord ==
    ASSUME NEW X, NEW c \in Connections(X), NEW d \in Connections(X), Lawful(d.st), OnlyLocal(c, d),
           c.role = "server" => ClientSettles(c.st.client, d.st.client),
           c.role = "server" => d.st.server \in {"SendBody", "Done", "MustClose", "Closed"},
           d.st.keep_alive = c.st.keep_alive
    PROVE  \A a : WordKept(c, a) => WordKept(d, a)
  <1>1. ASSUME NEW a, WordKept(c, a), a = "persist" PROVE WordKept(d, a)
    <2>1. c.role = "server" /\ d.role = "server"
      BY <1>1 DEF WordKept, OnlyLocal
    <2>2. d.st.client \in {"SendBody", "Done", "MustClose", "Closed"}
      BY <1>1, <2>1 DEF WordKept, ClientSettles, Lawful, Joint
    <2>3. d.st.client = "SendBody" => c.st.client = "SendBody"
      BY <2>1 DEF ClientSettles
    <2> QED BY <1>1, <2>1, <2>2, <2>3 DEF WordKept, OnlyLocal
  <1>2. ASSUME NEW a, WordKept(c, a), a # "persist" PROVE WordKept(d, a)
    BY <1>2 DEF WordKept
  <1> QED BY <1>1, <1>2

(* end_of_message.                                                          *)
LEMMA EndOfMessageEffect ==
    ASSUME NEW X, NEW c \in Connections(X), Coherent(c), NEW trailers,
           NEW r, r = end_of_message(c, trailers)
    PROVE  /\ SendResult(X, c, r)
           /\ r.ok => /\ local_state(c) = "SendBody" /\ r.c.st.keep_alive = c.st.keep_alive
                      /\ c.role = "server" => r.c.st.server \in {"Done", "MustClose"}
                      /\ \A a : WordKept(c, a) => WordKept(r.c, a)
  <1> DEFINE ev == StateEvent("EndOfMessage")
             s == process_event(c.st, c.role, ev)
             k == Advanced(c, s)
             d == Wrote(k, NoFraming)
  <1>1. CASE r = Refused(c)
    BY <1>1, RefusedEffect
  <1>2. CASE Accepts(c.st, c.role, ev) /\ r.ok = TRUE /\ r.c = d
    <2>1. c.role \in Roles /\ Lawful(c.st)
      BY DEF Connections, Coherent
    <2>2. /\ Lawful(s) /\ state(c.st, c.role) = "SendBody"
          /\ state(s, c.role) \in {"Done", "MightSwitchProtocol", "SwitchedProtocol", "MustClose"}
          /\ c.role = "server" => s.server \in {"Done", "MustClose"}
          /\ Settles(peer(c.role), c.st, s)
          /\ s.keep_alive = c.st.keep_alive /\ KeepsProposals(c.st, s)
      BY <1>2, <2>1, EndEffect
    <2> HIDE DEF s
    <2>3. k \in Connections(X) /\ k.st = s /\ SameButState(c, k)
      BY <2>2, AdvancedEffect DEF Lawful
    <2> HIDE DEF k
    <2>4. NoFraming \in Writers
      BY DEF Writers, NoFraming, None
    <2>5. d = Wrote(k, NoFraming)
      OBVIOUS
    <2> HIDE DEF d
    <2>6. /\ d \in Connections(X) /\ d.st = k.st /\ OnlyLocal(k, d) /\ d.cycle.writer = NoFraming
          /\ d.cycle.request_kind = k.cycle.request_kind
          /\ d.cycle.upgrade_proposals = k.cycle.upgrade_proposals
          /\ ~d.cycle.waiting_for_continue
          /\ d.cycle.continue_before_upgrade = k.cycle.continue_before_upgrade
      <3>1. d.cycle.continue_before_upgrade = k.cycle.continue_before_upgrade
        BY <2>3, <2>5 DEF Wrote, Connections, Cycles
      <3> QED BY <2>3, <2>4, <2>5, <3>1, WroteEffect
    <2>7. /\ d.st = s /\ OnlyLocal(c, d)
          /\ d.cycle.request_kind = c.cycle.request_kind
          /\ d.cycle.upgrade_proposals = c.cycle.upgrade_proposals
          /\ d.cycle.continue_before_upgrade = c.cycle.continue_before_upgrade
      BY <2>3, <2>6 DEF OnlyLocal, SameButState
    <2>8. Moves(X, c, d)
      BY <2>2, <2>6, <2>7, LocalEnds
    <2>9. \A a : WordKept(c, a) => WordKept(d, a)
      <3>1. c.role = "server" => ClientSettles(c.st.client, d.st.client)
        BY <2>2, <2>7 DEF Settles, peer
      <3> QED BY <2>2, <2>6, <2>7, <3>1, LocalKeepsWord
    <2> QED BY <1>2, <2>2, <2>7, <2>8, <2>9 DEF SendResult, local_state
  <1>3. r = Refused(c) \/ (Accepts(c.st, c.role, ev) /\ r.ok = TRUE /\ r.c = d)
    BY DEF end_of_message, Sent, LocalAccepts, advance_local, Advanced, Wrote
  <1> QED BY <1>1, <1>2, <1>3

(* close, when the local actor may close.                                   *)
LEMMA CloseEffect ==
    ASSUME NEW X, NEW c \in Connections(X), Coherent(c), LocalAccepts(c, StateEvent("ConnectionClosed")),
           NEW d, d = close(c)
    PROVE  Moves(X, c, d) /\ \A a : WordKept(c, a) => WordKept(d, a)
  <1> DEFINE ev == StateEvent("ConnectionClosed")
             s == process_event(c.st, c.role, ev)
             k == Advanced(c, s)
  <1>1. c.role \in Roles /\ Lawful(c.st)
    BY DEF Connections, Coherent
  <1>2. /\ Lawful(s) /\ state(c.st, c.role) \in {"Idle", "Done", "MustClose", "Closed"}
        /\ state(s, c.role) = "Closed"
        /\ Settles(peer(c.role), c.st, s)
        /\ s.keep_alive = c.st.keep_alive /\ KeepsProposals(c.st, s)
    BY <1>1, ClosedEffect DEF LocalAccepts
  <1>3. d = WithWriter(k, NoFraming)
    BY DEF close, advance_local, Advanced, WithWriter
  <1> HIDE DEF s
  <1>4. k \in Connections(X) /\ k.st = s /\ SameButState(c, k)
    BY <1>2, AdvancedEffect DEF Lawful
  <1> HIDE DEF k
  <1>5. NoFraming \in Writers
    BY DEF Writers, NoFraming, None
  <1>6. /\ d \in Connections(X) /\ d.st = k.st /\ OnlyLocal(k, d) /\ d.cycle.writer = NoFraming
        /\ d.cycle.request_kind = k.cycle.request_kind
        /\ d.cycle.upgrade_proposals = k.cycle.upgrade_proposals
        /\ d.cycle.waiting_for_continue = k.cycle.waiting_for_continue
        /\ d.cycle.continue_before_upgrade = k.cycle.continue_before_upgrade
    BY <1>3, <1>4, <1>5, WithWriterEffect
  <1>7. /\ d.st = s /\ OnlyLocal(c, d)
        /\ d.cycle.request_kind = c.cycle.request_kind
        /\ d.cycle.upgrade_proposals = c.cycle.upgrade_proposals
        /\ d.cycle.waiting_for_continue = c.cycle.waiting_for_continue
        /\ d.cycle.continue_before_upgrade = c.cycle.continue_before_upgrade
    BY <1>4, <1>6 DEF OnlyLocal, SameButState
  <1>8. c.role = "server" => ~d.cycle.waiting_for_continue
    BY <1>2, <1>7 DEF Coherent, WaitMatches, state
  <1>9. Moves(X, c, d)
    BY <1>2, <1>6, <1>7, <1>8, LocalEnds
  <1>10. \A a : WordKept(c, a) => WordKept(d, a)
    <2>1. c.role = "server" => /\ ClientSettles(c.st.client, d.st.client)
                               /\ d.st.server = "Closed"
      BY <1>2, <1>7 DEF Settles, peer, state
    <2> QED BY <1>2, <1>6, <1>7, <2>1, LocalKeepsWord
  <1> QED BY <1>9, <1>10

----------------------------------------------------------------------------
(* send_request.                                                            *)
LEMMA SendRequestEffect ==
    ASSUME NEW X, NEW c \in Connections(X), Coherent(c), NEW h \in MessageHeads,
           NEW r, r = send_request(c, h)
    PROVE  /\ SendResult(X, c, r)
           /\ r.ok => c.role = "client" /\ local_state(r.c) = "SendBody"
  <1> DEFINE f == framing(h, h.version, FALSE)
             ups == IF h.version = 11 THEN h.upgrade ELSE {}
             ev == request_event(h.method, ups)
             s == process_event(c.st, "client", ev)
             a == Advanced(c, s)
             k == NoKeepAliveIf(~persistent(h), a)
             g == record_request(a, h, f, ups)
             e == WithWriter(g, f)
  <1>1. CASE r = Refused(c)
    BY <1>1, RefusedEffect
  <1>2. CASE /\ c.role = "client" /\ f # FramingError /\ Accepts(c.st, "client", ev)
             /\ r.ok = TRUE /\ r.c = e
    <2>1. PICK q \in SUBSET SwitchKinds :
             /\ ev = Request(q)
             /\ ("Connect" \in q) <=> (RequestKind(h.method) = "CONNECT")
             /\ ("Upgrade" \in q) <=> (ups # {})
      BY RequestEventProposals
    <2>2. /\ Lawful(s) /\ c.st.client = "Idle" /\ c.st.server = "Idle"
          /\ s.client = "SendBody" /\ s.server = "SendResponse"
          /\ s.proposals = q /\ s.keep_alive = c.st.keep_alive
      <3> HIDE DEF ev
      <3> QED BY <1>2, <2>1, RequestEffect DEF Coherent
    <2>3. ups \in SUBSET STRING
      BY DEF MessageHeads
    <2> HIDE DEF s, ups, f, a, g, e
    <2>4. a \in Connections(X) /\ a.st = s /\ SameButState(c, a)
      BY <2>2, AdvancedEffect DEF a, Lawful
    <2>5. (~persistent(h)) \in BOOLEAN
      BY DEF persistent
    <2>6. /\ Lawful(k.st)
          /\ ClientSettles(a.st.client, k.st.client) /\ ServerSettles(a.st.server, k.st.server)
          /\ KeepsProposals(a.st, k.st)
          /\ k.st.keep_alive => a.st.keep_alive
      BY <2>2, <2>4, <2>5, NoKeepAliveEffect
    <2>7. /\ g \in Connections(X) /\ g.st = k.st
          /\ g.role = a.role /\ g.lenient = a.lenient /\ g.input = a.input /\ g.held = a.held
          /\ g.eof = a.eof /\ g.peer_version = a.peer_version
          /\ g.cycle.reader = a.cycle.reader /\ g.cycle.writer = a.cycle.writer
          /\ g.cycle.chunk_extension_bytes = a.cycle.chunk_extension_bytes
          /\ g.cycle.request_kind = RequestKind(h.method)
          /\ g.cycle.upgrade_proposals = ups
          /\ g.cycle.waiting_for_continue /\ ups # {} => g.cycle.continue_before_upgrade
      <3> HIDE DEF k
      <3> QED BY <2>2, <2>3, <2>4, RecordRequestEffect DEF g, k
    <2> HIDE DEF k
    <2>8. f \in Writers /\ f # NoFraming /\ f.kind # "CloseDelimited"
      <3>1. IsFraming(f, FALSE)
        BY <1>2, FramingValue DEF f
      <3> QED BY <3>1 DEF IsFraming, Writers, NoFraming, None, Chunked, Fixed
    <2>9. /\ e \in Connections(X) /\ e.st = g.st /\ OnlyLocal(g, e) /\ e.cycle.writer = f
          /\ e.cycle.request_kind = g.cycle.request_kind
          /\ e.cycle.upgrade_proposals = g.cycle.upgrade_proposals
          /\ e.cycle.waiting_for_continue = g.cycle.waiting_for_continue
          /\ e.cycle.continue_before_upgrade = g.cycle.continue_before_upgrade
      BY <2>7, <2>8, WithWriterEffect DEF e
    <2>10. OnlyLocal(c, e)
      BY <2>4, <2>7, <2>9 DEF OnlyLocal, SameButState
    <2>11. /\ Lawful(e.st) /\ e.st.client = "SendBody" /\ e.st.server = "SendResponse"
           /\ e.st.proposals = q
           /\ e.st.keep_alive => c.st.keep_alive
      BY <2>2, <2>4, <2>6, <2>7, <2>9 DEF ClientSettles, ServerSettles, KeepsProposals
    <2>12. e.role = "client"
      BY <1>2, <2>10 DEF OnlyLocal
    <2>13. Coherent(e)
      <3>1. WriterMatches(e)
        BY <2>8, <2>9, <2>11, <2>12 DEF WriterMatches, local_state, state
      <3>2. ReaderShape(e)
        BY <2>8, <2>9, <2>10, <2>11 DEF Coherent, ReaderShape, OnlyLocal
      <3>3. ProposalsMatch(e)
        BY <2>1, <2>7, <2>9, <2>11 DEF ProposalsMatch
      <3>4. WaitMatches(e)
        BY <2>7, <2>9, <2>11 DEF WaitMatches
      <3> QED BY <2>11, <3>1, <3>2, <3>3, <3>4 DEF Coherent
    <2>14. PeerKept(peer_state(c), peer_state(e))
      BY <1>2, <2>2, <2>11, <2>12 DEF PeerKept, peer_state, peer, state
    <2> QED BY <1>2, <2>9, <2>10, <2>11, <2>12, <2>13, <2>14
            DEF SendResult, Moves, local_state, state
  <1>3. \/ r = Refused(c)
        \/ /\ c.role = "client" /\ f # FramingError /\ Accepts(c.st, "client", ev)
           /\ r.ok = TRUE /\ r.c = e
    BY DEF send_request, Sent, LocalAccepts, advance_local, WithWriter, Advanced
  <1> QED BY <1>1, <1>2, <1>3

(* send_informational_response: a 101 switches the connection, and none of  *)
(* the others moves an actor.                                               *)
LEMMA SendInformationalEffect ==
    ASSUME NEW X, NEW c \in Connections(X), Coherent(c), NEW h \in MessageHeads,
           NEW r, r = send_informational_response(c, h)
    PROVE  /\ SendResult(X, c, r)
           /\ r.ok => \A a : WordKept(c, a) => WordKept(r.c, a)
  <1> DEFINE ev == informational_event(h)
             s == process_event(c.st, "server", ev)
             k == Advanced(c, s)
             e == record_informational(k, h.status)
  <1>1. CASE r = Refused(c)
    BY <1>1, RefusedEffect
  <1>2. CASE /\ c.role = "server" /\ HasInformationalEvent(c, h) /\ Accepts(c.st, "server", ev)
             /\ r.ok = TRUE /\ r.c = e
    <2>1. /\ Lawful(s) /\ c.st.server = "SendResponse"
          /\ s.keep_alive = c.st.keep_alive /\ ClientSettles(c.st.client, s.client)
          /\ \/ h.status = 101 /\ s.server = "SwitchedProtocol"
             \/ h.status # 101 /\ s = c.st
      <3>1. "server" \in Roles /\ "Upgrade" \in SwitchKinds /\ Lawful(c.st)
        BY DEF Roles, SwitchKinds, Coherent
      <3>2. CASE h.status = 101
        <4>1. ev = ProtocolSwitch("Upgrade")
          BY <3>2 DEF informational_event
        <4> HIDE DEF ev
        <4> QED BY <1>2, <3>1, <3>2, <4>1, SwitchEffect
      <3>3. CASE h.status # 101
        <4>1. ev = StateEvent("InformationalResponse")
          BY <3>3 DEF informational_event
        <4> HIDE DEF ev
        <4>2. s = c.st /\ c.st.server = "SendResponse"
          BY <1>2, <3>1, <4>1, InformationalEffect
        <4> QED BY <3>1, <3>3, <4>2 DEF ClientSettles
      <3> QED BY <3>2, <3>3
    <2> HIDE DEF s, k, e
    <2>2. k \in Connections(X) /\ k.st = s /\ SameButState(c, k)
      BY <2>1, AdvancedEffect DEF k, Lawful
    <2>3. /\ e \in Connections(X) /\ SameMessages(k, e) /\ e.peer_version = k.peer_version
          /\ e.cycle.upgrade_proposals = k.cycle.upgrade_proposals
          /\ e.cycle.waiting_for_continue =>
                /\ k.cycle.waiting_for_continue
                /\ k.cycle.continue_before_upgrade => e.cycle.continue_before_upgrade
      BY <2>2, RecordInformationalEffect DEF e
    <2>4. /\ e.st = s /\ OnlyLocal(c, e) /\ e.cycle.writer = c.cycle.writer
          /\ e.cycle.request_kind = c.cycle.request_kind
          /\ e.cycle.upgrade_proposals = c.cycle.upgrade_proposals
          /\ e.cycle.waiting_for_continue =>
                /\ c.cycle.waiting_for_continue
                /\ c.cycle.continue_before_upgrade => e.cycle.continue_before_upgrade
      BY <2>2, <2>3 DEF SameMessages, Fixtures, SameButState, OnlyLocal
    <2>5. e.role = "server"
      BY <1>2, <2>4 DEF OnlyLocal
    <2>6. Coherent(e)
      <3>1. WriterMatches(e)
        BY <1>2, <2>1, <2>4, <2>5 DEF Coherent, WriterMatches, local_state, state
      <3>2. ReaderShape(e)
        BY <2>1, <2>4 DEF Coherent, ReaderShape, OnlyLocal
      <3>3. ProposalsMatch(e)
        BY <2>1, <2>4 DEF Coherent, ProposalsMatch
      <3>4. WaitMatches(e)
        <4>1. h.status = 101 => ~c.cycle.continue_before_upgrade /\ c.cycle.upgrade_proposals # {}
          BY <1>2 DEF HasInformationalEvent, valid_upgrade_response
        <4> QED BY <2>1, <2>4, <4>1 DEF Coherent, WaitMatches
      <3> QED BY <2>1, <2>4, <3>1, <3>2, <3>3, <3>4 DEF Coherent
    <2>7. PeerKept(peer_state(c), peer_state(e))
      <3>1. peer_state(c) = c.st.client /\ peer_state(e) = s.client
        BY <1>2, <2>4, <2>5 DEF peer_state, peer, state
      <3> QED BY <2>1, <3>1 DEF PeerKept, ClientSettles
    <2>8. Moves(X, c, e)
      BY <2>1, <2>3, <2>4, <2>6, <2>7 DEF Moves
    <2>9. ASSUME NEW a, WordKept(c, a) PROVE WordKept(e, a)
      BY <2>1, <2>4, <2>9 DEF WordKept
    <2> QED BY <1>2, <2>8, <2>9 DEF SendResult
  <1>3. \/ r = Refused(c)
        \/ /\ c.role = "server" /\ HasInformationalEvent(c, h) /\ Accepts(c.st, "server", ev)
           /\ r.ok = TRUE /\ r.c = e
    BY DEF send_informational_response, Sent, LocalAccepts, advance_local, Advanced
  <1> QED BY <1>1, <1>2, <1>3

----------------------------------------------------------------------------
(* What the head h of a response tells its recipient, as Announce reads it. *)
Says(c, h) ==
    IF "close" \notin h.opts /\ (Http11(c, h) \/ "keep-alive" \in h.opts) THEN "persist" ELSE "close"

(* What a server has announced after the call that returned r.              *)
Announced(c, r, a) ==
    IF ~r.ok \/ r.c.st.server = "SwitchedProtocol" THEN a ELSE Says(c, r.wire[1].h)

(* The framing fields that are added or taken away say nothing of reuse.    *)
LEMMA FramedHead ==
    ASSUME NEW c, NEW h \in MessageHeads, NEW f, NEW g, g = framed_head(c, h, f)
    PROVE  g \in MessageHeads /\ g.opts = h.opts /\ g.version = h.version
  <1> DEFINE kept == IF Stripped(c, h) THEN [h EXCEPT !.te = <<>>] ELSE h
  <1>1. kept \in MessageHeads /\ kept.opts = h.opts /\ kept.version = h.version
    <2>1. <<>> \in Seq(Codings)
      OBVIOUS
    <2>2. [h EXCEPT !.te = <<>>] \in MessageHeads
      BY <2>1 DEF MessageHeads
    <2>3. [h EXCEPT !.te = <<>>].opts = h.opts /\ [h EXCEPT !.te = <<>>].version = h.version
      BY DEF MessageHeads
    <2> QED BY <2>2, <2>3
  <1> HIDE DEF kept
  <1>2. << 0 >> \in Seq(Nat \cup {BadLength}) /\ <<"chunked">> \in Seq(Codings)
    BY DEF Codings
  <1>3. /\ [kept EXCEPT !.cl = << 0 >>] \in MessageHeads
        /\ [kept EXCEPT !.cl = << 0 >>].opts = h.opts /\ [kept EXCEPT !.cl = << 0 >>].version = h.version
    BY <1>1, <1>2 DEF MessageHeads
  <1>4. /\ [kept EXCEPT !.te = <<"chunked">>] \in MessageHeads
        /\ [kept EXCEPT !.te = <<"chunked">>].opts = h.opts
        /\ [kept EXCEPT !.te = <<"chunked">>].version = h.version
    BY <1>1, <1>2 DEF MessageHeads
  <1>5. g \in {kept, [kept EXCEPT !.cl = << 0 >>], [kept EXCEPT !.te = <<"chunked">>]}
    BY DEF framed_head, kept
  <1> QED BY <1>1, <1>3, <1>4, <1>5

(* The option that is set is the one that is said.                          *)
LEMMA OptionSays ==
    ASSUME NEW c, NEW h \in MessageHeads
    PROVE  /\ Says(c, set_connection_option(h, "close")) = "close"
           /\ Says(c, set_connection_option(h, "keep-alive")) = "persist"
  BY DEF Says, set_connection_option, MessageHeads, Http11

(* The connection that a response leaves.                                   *)
Responds(X, c, e) ==
    /\ Moves(X, c, e)
    /\ c.role = "server" /\ c.st.server \in {"Idle", "SendResponse"}
    /\ e.st.server \in {"SendBody", "SwitchedProtocol"}
    /\ e.st.server = "SendBody" /\ e.st.keep_alive => WordKept(e, "persist")

(* send_response, once its head is accepted and closes is decided.          *)
LEMMA ResponseMoves ==
    ASSUME NEW X, NEW c \in Connections(X), Coherent(c), NEW h \in MessageHeads, c.role = "server",
           response_framing(c, h) # FramingError, NEW s,
           Accepts(c.st, "server", final_response_event(c, h.status)),
           s = process_event(c.st, "server", final_response_event(c, h.status)),
           NEW closes \in BOOLEAN,
           response_framing(c, h) = CloseDelimited => closes,
           s.client = "SendBody" /\ unread(c) => closes,
           NEW a, a = Advanced(c, s), NEW k, k = NoKeepAliveIf(closes, a), NEW g, g = record_response(k),
           NEW w, w = (IF opens_tunnel(c, h.status) THEN NoFraming ELSE response_framing(c, h)),
           NEW e, e = WithWriter(g, w)
    PROVE  /\ Responds(X, c, e)
           /\ e.st.keep_alive => ~closes
           /\ opens_tunnel(c, h.status) <=> (e.st.server = "SwitchedProtocol")
  <1> DEFINE f == response_framing(c, h)
             connect == opens_tunnel(c, h.status)
  <1>1. /\ Lawful(s) /\ ClientSettles(c.st.client, s.client)
        /\ s.keep_alive => c.st.keep_alive
        /\ c.st.server \in {"Idle", "SendResponse"}
        /\ \/ connect /\ s.server = "SwitchedProtocol"
           \/ ~connect /\ s.server = "SendBody"
    BY FinalResponseEvent DEF Coherent
  <1>2. /\ f \in Writers /\ f # NoFraming
        /\ f.kind = "CloseDelimited" => f = CloseDelimited
    BY ResponseFramingValue DEF IsFraming, Writers, NoFraming, None, Chunked, Fixed, CloseDelimited
  <1> HIDE DEF f
  <1>3. a \in Connections(X) /\ a.st = s /\ SameButState(c, a)
    BY <1>1, AdvancedEffect DEF Lawful
  <1>4. /\ k \in Connections(X) /\ Lawful(k.st) /\ SameButState(a, k)
        /\ ClientSettles(a.st.client, k.st.client) /\ ServerSettles(a.st.server, k.st.server)
        /\ k.st.keep_alive => a.st.keep_alive /\ ~closes
    BY <1>1, <1>3, NoKeepAliveEffect
  <1>5. /\ g \in Connections(X) /\ SameMessages(k, g) /\ g.peer_version = k.peer_version
        /\ ~g.cycle.waiting_for_continue
    BY <1>4, RecordResponseEffect
  <1>6. w \in Writers
    BY <1>2 DEF Writers, NoFraming, None, f
  <1>7. /\ e \in Connections(X) /\ e.st = g.st /\ OnlyLocal(g, e) /\ e.cycle.writer = w
        /\ e.cycle.waiting_for_continue = g.cycle.waiting_for_continue
    BY <1>5, <1>6, WithWriterEffect
  <1>8. OnlyLocal(c, e) /\ e.st = k.st /\ ~e.cycle.waiting_for_continue
    BY <1>3, <1>4, <1>5, <1>7 DEF OnlyLocal, SameButState, SameMessages, Fixtures
  <1>9. e.role = "server" /\ e.st.server = s.server /\ (e.st.keep_alive => s.keep_alive /\ ~closes)
    BY <1>1, <1>3, <1>4, <1>8 DEF OnlyLocal, ServerSettles
  <1>10. Coherent(e)
    <2>1. WriterMatches(e)
      BY <1>1, <1>2, <1>7, <1>9 DEF WriterMatches, local_state, state, f
    <2>2. ReaderShape(e)
      <3>1. e.cycle.writer.kind = "CloseDelimited" => ~e.st.keep_alive
        BY <1>2, <1>7, <1>9 DEF f, NoFraming, None
      <3> QED BY <1>1, <1>8, <1>9, <3>1 DEF Coherent, ReaderShape, OnlyLocal
    <2>3. ProposalsMatch(e) /\ WaitMatches(e)
      BY <1>1, <1>8, <1>9 DEF ProposalsMatch, WaitMatches
    <2> QED BY <1>4, <1>8, <2>1, <2>2, <2>3 DEF Coherent
  <1>11. PeerKept(peer_state(c), peer_state(e))
    <2>1. peer_state(c) = c.st.client /\ peer_state(e) = k.st.client
      BY <1>8, <1>9 DEF peer_state, peer, state
    <2> QED BY <1>1, <1>3, <1>4, <2>1 DEF PeerKept, ClientSettles
  <1>12. Moves(X, c, e)
    BY <1>1, <1>7, <1>8, <1>9, <1>10, <1>11 DEF Moves
  <1>13. ASSUME e.st.server = "SendBody", e.st.keep_alive PROVE WordKept(e, "persist")
    <2>1. e.st.client \in {"SendBody", "Done", "MustClose", "Closed"}
      <3>1. e.st \in ConnectionStates /\ Joint(e.st)
        BY <1>4, <1>8 DEF Lawful
      <3> QED BY <1>13, <3>1 DEF Joint, ConnectionStates, States
    <2>2. e.st.client = "SendBody" => s.client = "SendBody"
      BY <1>3, <1>4, <1>8 DEF ClientSettles
    <2>3. e.st.client = "SendBody" =>
             c.cycle.reader.kind = "Fixed" /\ ~(c.cycle.reader.n > c.held + Len(c.input))
      BY <1>9, <1>13, <2>2 DEF unread
    <2>4. c.cycle.reader.n \in Nat /\ c.held + Len(c.input) \in Nat
      BY DEF Connections, Cycles, Readers
    <2>5. e.st.client = "SendBody" =>
             e.cycle.reader.kind = "Fixed" /\ e.cycle.reader.n <= e.held + Len(e.input)
      BY <1>8, <2>3, <2>4 DEF OnlyLocal
    <2> QED BY <1>9, <1>13, <2>1, <2>5 DEF WordKept
  <1> QED BY <1>1, <1>9, <1>12, <1>13 DEF Responds

(* send_response.  The head says whether the connection persists.           *)
LEMMA SendResponseEffect ==
    ASSUME NEW X, NEW c \in Connections(X), Coherent(c), NEW h \in MessageHeads,
           NEW r, r = send_response(c, h)
    PROVE  /\ SendResult(X, c, r)
           /\ r.ok => /\ Responds(X, c, r.c) /\ \E x : r.wire = <<x>>
                      /\ r.c.st.server # "SwitchedProtocol" =>
                            (Says(c, r.wire[1].h) = IF r.c.st.keep_alive THEN "persist" ELSE "close")
  <1> DEFINE connect == opens_tunnel(c, h.status)
             f == response_framing(c, h)
             ev == final_response_event(c, h.status)
             s == process_event(c.st, "server", ev)
             a == Advanced(c, s)
             closes == \/ f = CloseDelimited
                       \/ peer_state(a) = "SendBody" /\ unread(c)
                       \/ "close" \in h.opts
             k == NoKeepAliveIf(closes, a)
             g == record_response(k)
             w == IF connect THEN NoFraming ELSE f
             e == WithWriter(g, w)
             head == framed_head(c, h, f)
             sent == CASE connect -> head
                       [] ~connect /\ ~e.st.keep_alive -> set_connection_option(head, "close")
                       [] ~connect /\ e.st.keep_alive /\ ~Http11(c, h) ->
                             set_connection_option(head, "keep-alive")
                       [] OTHER -> head
  <1>1. CASE r = Refused(c)
    BY <1>1, RefusedEffect
  <1>2. CASE /\ c.role = "server" /\ f # FramingError /\ Accepts(c.st, "server", ev)
             /\ r = Sent(e, <<HeadOf(sent)>>)
    <2>1. a.role = "server" /\ a.st = s
      BY <1>2 DEF Advanced, Connections
    <2>2. peer_state(a) = s.client
      BY <2>1 DEF peer_state, peer, state
    <2>3. /\ closes \in BOOLEAN /\ (f = CloseDelimited => closes)
          /\ (s.client = "SendBody" /\ unread(c) => closes)
          /\ ("close" \in h.opts => closes)
      BY <2>2
    <2> HIDE DEF closes, s, a
    <2>4. a = Advanced(c, s)
      BY DEF a
    <2>5. s = process_event(c.st, "server", ev)
      BY DEF s
    <2>6. /\ Responds(X, c, e)
          /\ e.st.keep_alive => ~closes
          /\ connect <=> (e.st.server = "SwitchedProtocol")
      BY <1>2, <2>3, <2>4, <2>5, ResponseMoves
    <2>7. head \in MessageHeads /\ head.opts = h.opts /\ head.version = h.version
      BY FramedHead
    <2> HIDE DEF e, head, f
    <2>8. ASSUME ~connect
          PROVE  Says(c, sent) = IF e.st.keep_alive THEN "persist" ELSE "close"
      <3>1. CASE ~e.st.keep_alive
        BY <2>7, <2>8, <3>1, OptionSays
      <3>2. CASE e.st.keep_alive /\ ~Http11(c, h)
        BY <2>7, <2>8, <3>2, OptionSays
      <3>3. CASE e.st.keep_alive /\ Http11(c, h)
        <4>1. sent = head
          BY <2>8, <3>3
        <4>2. "close" \notin head.opts /\ Http11(c, head)
          BY <2>3, <2>6, <2>7, <3>3 DEF Http11
        <4> QED BY <3>3, <4>1, <4>2 DEF Says
      <3> QED BY <3>1, <3>2, <3>3
    <2> HIDE DEF sent, connect
    <2>9. r.ok = TRUE /\ r.c = e /\ r.wire = <<HeadOf(sent)>> /\ r.wire[1].h = sent
      BY <1>2 DEF Sent, HeadOf
    <2>10. Moves(X, c, e)
      BY <2>6 DEF Responds
    <2> QED BY <2>6, <2>8, <2>9, <2>10 DEF SendResult
  <1>3. \/ r = Refused(c)
        \/ /\ c.role = "server" /\ f # FramingError /\ Accepts(c.st, "server", ev)
           /\ r = Sent(e, <<HeadOf(sent)>>)
    <2>1. c.role = "server" => advance_local(c, ev) = a
      BY DEF advance_local, Advanced
    <2>2. CASE c.role = "server"
      <3> HIDE DEF a
      <3> QED BY <2>1, <2>2 DEF send_response, LocalAccepts, WithWriter
    <2>3. CASE c.role # "server"
      BY <2>3 DEF send_response
    <2> QED BY <2>2, <2>3
  <1> QED BY <1>1, <1>2, <1>3

----------------------------------------------------------------------------
(* What follows the head of a complete message on the wire.                 *)
WireSymbols == {Symbol("byte"), Symbol("crlf"), Symbol("field")} \cup {Hex(n) : n \in Nat}

(* Symbols one after the other are a sequence.                              *)
LEMMA RunOfSymbols ==
    ASSUME NEW W, NEW x \in W, NEW n \in Nat
    PROVE  [i \in 1..n |-> x] \in Seq(W)
  BY SeqDef

(* The wire of send_data and of end_of_message.                             *)
LEMMA WireTyped ==
    ASSUME NEW c, NEW length \in Nat
    PROVE  /\ send_data(c, length).wire \in Seq(WireSymbols)
           /\ end_of_message(c, <<>>).wire \in Seq(WireSymbols)
  <1>1. /\ <<>> \in Seq(WireSymbols) /\ <<Symbol("crlf")>> \in Seq(WireSymbols)
        /\ \A n \in Nat : <<Hex(n), Symbol("crlf")>> \in Seq(WireSymbols)
    BY DEF WireSymbols
  <1>2. Body(length) \in Seq(WireSymbols)
    BY RunOfSymbols DEF Body, WireSymbols
  <1>3. \A s, t \in Seq(WireSymbols) : s \o t \in Seq(WireSymbols)
    BY ConcatProperties
  <1>4. <<Hex(length), Symbol("crlf")>> \o Body(length) \o <<Symbol("crlf")>> \in Seq(WireSymbols)
    BY <1>1, <1>2, <1>3
  <1>5. send_data(c, length).wire \in Seq(WireSymbols)
    BY <1>1, <1>2, <1>4 DEF send_data, Sent, Refused
  <1>6. Trailer(<<>>) \in Seq(WireSymbols)
    <2>1. Trailer(<<>>) = [i \in 1..0 |-> Symbol("field")]
      BY DEF Trailer
    <2>2. Symbol("field") \in WireSymbols
      BY DEF WireSymbols
    <2> QED BY <2>1, <2>2, RunOfSymbols
  <1>7. last_chunk(<<>>) \in Seq(WireSymbols)
    BY <1>1, <1>3, <1>6 DEF last_chunk
  <1>8. end_of_message(c, <<>>).wire \in Seq(WireSymbols)
    BY <1>1, <1>7 DEF end_of_message, Sent, Refused
  <1> QED BY <1>5, <1>8

(* The head comes first.                                                    *)
LEMMA HeadFirst ==
    ASSUME NEW x, NEW s \in Seq(WireSymbols), NEW t \in Seq(WireSymbols)
    PROVE  (<<x>> \o s \o t)[1] = x
  <1> DEFINE W == WireSymbols \cup {x}
  <1>1. <<x>> \in Seq(W) /\ s \in Seq(W) /\ t \in Seq(W)
    <2>1. s \in Seq(W) /\ t \in Seq(W)
      BY SeqMonotonic
    <2> QED BY <2>1
  <1> HIDE DEF W
  <1>2. /\ <<x>> \o s \in Seq(W) /\ Len(<<x>> \o s) = 1 + Len(s) /\ (<<x>> \o s)[1] = x
    BY <1>1, ConcatProperties
  <1>3. Len(s) \in Nat
    BY LenProperties
  <1> QED BY <1>1, <1>2, <1>3, ConcatProperties

(* send_complete: the whole message, or the connection as it was.           *)
LEMMA SendCompleteEffect ==
    ASSUME NEW X, NEW c \in Connections(X), Coherent(c), NEW length \in Nat, NEW head,
           SendResult(X, c, head), head.ok => local_state(head.c) \in {"SendBody", "SwitchedProtocol"},
           NEW r, r = send_complete(c, head, length)
    PROVE  /\ SendResult(X, c, r)
           /\ r.ok => /\ head.ok /\ r.c.st.keep_alive = head.c.st.keep_alive
                      /\ \A a : WordKept(head.c, a) => WordKept(r.c, a)
                      /\ \A x : head.wire = <<x>> => r.wire[1] = x
                      /\ c.role = "server" => ((r.c.st.server = "SwitchedProtocol")
                                                 <=> (head.c.st.server = "SwitchedProtocol"))
  <1> DEFINE h == head.c
             data == IF length # 0 THEN send_data(h, length) ELSE Sent(h, <<>>)
             end == end_of_message(data.c, <<>>)
  <1>1. CASE ~head.ok
    <2>1. r = Refused(Restored(c, c))
      BY <1>1 DEF send_complete, SendResult
    <2>2. Restored(c, c) = c
      BY RestoredIsSaved DEF OnlyLocal
    <2> QED BY <2>1, <2>2, RefusedEffect
  <1>2. CASE head.ok
    <2>1. Moves(X, c, h) /\ h \in Connections(X) /\ Coherent(h) /\ h.role = c.role
      BY <1>2 DEF SendResult, Moves, OnlyLocal
    <2>2. /\ data.ok \in BOOLEAN /\ Moves(X, h, data.c)
          /\ data.ok => data.c.st = h.st
          /\ data.wire \in Seq(WireSymbols)
      <3>1. CASE length = 0
        BY <2>1, <3>1, MovesNowhere DEF Sent
      <3>2. CASE length # 0
        <4>1. SendResult(X, h, data) /\ (data.ok => data.c.st = h.st)
          BY <2>1, <3>2, SendDataEffect
        <4>2. data.wire \in Seq(WireSymbols)
          BY <3>2, WireTyped
        <4> QED BY <2>1, <4>1, <4>2, MovesNowhere DEF SendResult
      <3> QED BY <3>1, <3>2
    <2> HIDE DEF data
    <2>3. data.c \in Connections(X) /\ Coherent(data.c) /\ data.c.role = c.role
      BY <2>1, <2>2 DEF Moves, OnlyLocal
    <2>4. /\ SendResult(X, data.c, end)
          /\ end.ok => /\ local_state(data.c) = "SendBody"
                       /\ end.c.st.keep_alive = data.c.st.keep_alive
                       /\ data.c.role = "server" => end.c.st.server \in {"Done", "MustClose"}
                       /\ \A a : WordKept(data.c, a) => WordKept(end.c, a)
      BY <2>3, EndOfMessageEffect
    <2>5. end.wire \in Seq(WireSymbols)
      BY WireTyped
    <2> HIDE DEF end
    <2>6. Moves(X, data.c, end.c)
      BY <2>3, <2>4, MovesNowhere DEF SendResult
    <2>7. Moves(X, c, end.c)
      <3>1. Moves(X, c, data.c)
        BY <2>1, <2>2, MovesCompose
      <3> QED BY <2>6, <3>1, MovesCompose
    <2>8. Restored(c, h) = c /\ Restored(c, end.c) = c
      BY <2>1, <2>7, RestoredIsSaved DEF Moves
    <2>9. CASE r = Refused(c)
      BY <2>9, RefusedEffect
    <2>10. CASE local_state(h) = "SwitchedProtocol" /\ r = head
      BY <1>2, <2>10
    <2>11. CASE /\ local_state(h) # "SwitchedProtocol" /\ data.ok /\ end.ok
                /\ r = Sent(end.c, head.wire \o data.wire \o end.wire)
      <3> DEFINE wire == head.wire \o data.wire \o end.wire
      <3>0. r = Sent(end.c, wire)
        BY <2>11, Zenon
      <3> HIDE DEF wire
      <3>1. r.ok = TRUE /\ r.c = end.c /\ r.wire = wire
        BY <3>0 DEF Sent
      <3>2. r.c.st.keep_alive = h.st.keep_alive
        BY <2>2, <2>4, <2>11, <3>1
      <3>3. ASSUME NEW a, WordKept(h, a) PROVE WordKept(r.c, a)
        <4>1. WordKept(data.c, a)
          BY <2>2, <2>11, <3>3 DEF WordKept, Moves, OnlyLocal
        <4> QED BY <2>4, <2>11, <3>1, <4>1
      <3>4. ASSUME NEW x, head.wire = <<x>> PROVE r.wire[1] = x
        <4>1. r.wire = <<x>> \o data.wire \o end.wire
          BY <3>1, <3>4, Zenon DEF wire
        <4>2. (<<x>> \o data.wire \o end.wire)[1] = x
          BY <2>2, <2>5, HeadFirst
        <4> QED BY <4>1, <4>2, Zenon
      <3>5. c.role = "server" => r.c.st.server # "SwitchedProtocol"
        BY <2>3, <2>4, <2>11, <3>1
      <3>6. c.role = "server" => h.st.server # "SwitchedProtocol"
        BY <2>1, <2>11 DEF local_state, state
      <3> QED BY <1>2, <2>7, <3>1, <3>2, <3>3, <3>4, <3>5, <3>6 DEF SendResult
    <2>12. \/ r = Refused(c)
           \/ local_state(h) = "SwitchedProtocol" /\ r = head
           \/ /\ local_state(h) # "SwitchedProtocol" /\ data.ok /\ end.ok
              /\ r = Sent(end.c, head.wire \o data.wire \o end.wire)
      BY <1>2, <2>8 DEF send_complete, data, end
    <2> QED BY <2>9, <2>10, <2>11, <2>12
  <1>3. head.ok \in BOOLEAN
    BY DEF SendResult
  <1> QED BY <1>1, <1>2, <1>3

----------------------------------------------------------------------------
(* What the head of a response says, as the word that is kept.              *)
LEMMA WordIsGiven ==
    ASSUME NEW X, NEW c, NEW e, Responds(X, c, e), NEW a, WordKept(c, a), NEW b,
           e.st.server = "SwitchedProtocol" => b = a,
           e.st.server # "SwitchedProtocol" => b = IF e.st.keep_alive THEN "persist" ELSE "close"
    PROVE  WordKept(e, b)
  BY DEF Responds, Moves, WordKept

(* The effect of a call that sends a final response.                        *)
Answers(X, c, r) ==
    /\ SendResult(X, c, r)
    /\ \A a : WordKept(c, a) => WordKept(r.c, Announced(c, r, a))
    /\ \A a : Announced(c, r, a) \in {a, "persist", "close"}

(* send_response keeps the word that it gives.                              *)
LEMMA SendResponseAnswers ==
    ASSUME NEW X, NEW c \in Connections(X), Coherent(c), NEW h \in MessageHeads,
           NEW r, r = send_response(c, h)
    PROVE  Answers(X, c, r)
  <1>1. /\ SendResult(X, c, r)
        /\ r.ok => /\ Responds(X, c, r.c)
                   /\ r.c.st.server # "SwitchedProtocol" =>
                         (Says(c, r.wire[1].h) = IF r.c.st.keep_alive THEN "persist" ELSE "close")
    BY SendResponseEffect
  <1>2. ASSUME NEW a, WordKept(c, a) PROVE WordKept(r.c, Announced(c, r, a))
    <2>1. CASE r.ok
      BY <1>1, <1>2, <2>1, WordIsGiven DEF Announced
    <2>2. CASE ~r.ok
      BY <1>1, <1>2, <2>2 DEF Announced, SendResult
    <2> QED BY <1>1, <2>1, <2>2 DEF SendResult
  <1>3. \A a : Announced(c, r, a) \in {a, "persist", "close"}
    BY DEF Announced, Says
  <1> QED BY <1>1, <1>2, <1>3 DEF Answers

(* send_response_with_body.  What a head said holds for the whole message.  *)
LEMMA SendResponseWithBodyAnswers ==
    ASSUME NEW X, NEW c \in Connections(X), Coherent(c), NEW h \in MessageHeads, NEW n \in Nat,
           NEW r, r = send_response_with_body(c, h, n)
    PROVE  Answers(X, c, r)
  <1>1. PICK g \in MessageHeads : r = send_complete(c, send_response(c, g), n)
    BY WithLengthIsHead DEF send_response_with_body
  <1> DEFINE head == send_response(c, g)
  <1>2. /\ SendResult(X, c, head)
        /\ head.ok => /\ Responds(X, c, head.c) /\ \E x : head.wire = <<x>>
                      /\ head.c.st.server # "SwitchedProtocol" =>
                            (Says(c, head.wire[1].h) = IF head.c.st.keep_alive THEN "persist" ELSE "close")
    BY SendResponseEffect
  <1>3. r = send_complete(c, head, n)
    BY <1>1
  <1> HIDE DEF head
  <1>4. head.ok => local_state(head.c) \in {"SendBody", "SwitchedProtocol"} /\ c.role = "server"
    BY <1>2 DEF Responds, Moves, OnlyLocal, local_state, state
  <1>5. /\ SendResult(X, c, r)
        /\ r.ok => /\ head.ok /\ r.c.st.keep_alive = head.c.st.keep_alive
                   /\ \A a : WordKept(head.c, a) => WordKept(r.c, a)
                   /\ \A x : head.wire = <<x>> => r.wire[1] = x
                   /\ c.role = "server" => ((r.c.st.server = "SwitchedProtocol")
                                              <=> (head.c.st.server = "SwitchedProtocol"))
    BY <1>2, <1>3, <1>4, SendCompleteEffect
  <1>6. ASSUME NEW a, WordKept(c, a) PROVE WordKept(r.c, Announced(c, r, a))
    <2>1. CASE r.ok
      <3>1. r.wire[1] = head.wire[1]
        BY <1>2, <1>5, <2>1
      <3>2. WordKept(head.c, Announced(c, r, a))
        BY <1>2, <1>4, <1>5, <1>6, <2>1, <3>1, WordIsGiven DEF Announced
      <3> QED BY <1>5, <2>1, <3>2
    <2>2. CASE ~r.ok
      BY <1>5, <1>6, <2>2 DEF Announced, SendResult
    <2> QED BY <1>5, <2>1, <2>2 DEF SendResult
  <1>7. \A a : Announced(c, r, a) \in {a, "persist", "close"}
    BY DEF Announced, Says
  <1> QED BY <1>5, <1>6, <1>7 DEF Answers

(* Sending for a client: no response is announced.                          *)
LEMMA ClientHasNoWord ==
    ASSUME NEW X, NEW c \in Connections(X), NEW d, Moves(X, c, d), c.role = "client"
    PROVE  \A a : WordKept(c, a) => WordKept(d, a)
  BY DEF WordKept, Moves

(* A call that sends anything but a response.                               *)
Sends(X, c, r) == SendResult(X, c, r) /\ \A a : WordKept(c, a) => WordKept(r.c, a)

(* send_request.                                                            *)
LEMMA SendRequestSends ==
    ASSUME NEW X, NEW c \in Connections(X), Coherent(c), NEW h \in MessageHeads,
           NEW r, r = send_request(c, h)
    PROVE  Sends(X, c, r)
  <1>1. SendResult(X, c, r) /\ (r.ok => c.role = "client")
    BY SendRequestEffect
  <1> QED BY <1>1, ClientHasNoWord DEF SendResult, Sends

(* send_request_with_body.                                                  *)
LEMMA SendRequestWithBodySends ==
    ASSUME NEW X, NEW c \in Connections(X), Coherent(c), NEW h \in MessageHeads, NEW n \in Nat,
           NEW r, r = send_request_with_body(c, h, n)
    PROVE  Sends(X, c, r)
  <1>1. PICK g \in MessageHeads : r = send_complete(c, send_request(c, g), n)
    BY WithLengthIsHead DEF send_request_with_body
  <1> DEFINE head == send_request(c, g)
  <1>2. SendResult(X, c, head) /\ (head.ok => c.role = "client" /\ local_state(head.c) = "SendBody")
    BY SendRequestEffect
  <1>3. r = send_complete(c, head, n)
    BY <1>1
  <1> HIDE DEF head
  <1>4. SendResult(X, c, r) /\ (r.ok => head.ok)
    BY <1>2, <1>3, SendCompleteEffect
  <1> QED BY <1>2, <1>4, ClientHasNoWord DEF SendResult, Sends

(* send_informational_response.                                             *)
LEMMA SendInformationalSends ==
    ASSUME NEW X, NEW c \in Connections(X), Coherent(c), NEW h \in MessageHeads,
           NEW r, r = send_informational_response(c, h)
    PROVE  Sends(X, c, r)
  BY SendInformationalEffect DEF Sends, SendResult

(* send_data.                                                               *)
LEMMA SendDataSends ==
    ASSUME NEW X, NEW c \in Connections(X), Coherent(c), NEW n \in Nat, NEW r, r = send_data(c, n)
    PROVE  Sends(X, c, r)
  <1>1. SendResult(X, c, r) /\ (r.ok => r.c.st = c.st)
    BY SendDataEffect
  <1>2. ASSUME r.ok, NEW a, WordKept(c, a) PROVE WordKept(r.c, a)
    BY <1>1, <1>2 DEF WordKept, SendResult, Moves, OnlyLocal
  <1> QED BY <1>1, <1>2 DEF Sends, SendResult

(* end_of_message.                                                          *)
LEMMA EndOfMessageSends ==
    ASSUME NEW X, NEW c \in Connections(X), Coherent(c), NEW trailers,
           NEW r, r = end_of_message(c, trailers)
    PROVE  Sends(X, c, r)
  BY EndOfMessageEffect DEF Sends, SendResult

----------------------------------------------------------------------------
(* start_next_cycle, of an exchange that is complete and reusable: a new    *)
(* connection but for the bytes that have come already.                     *)
LEMMA StartNextCycleEffect ==
    ASSUME NEW X, NEW c \in Connections(X), Sound(c), CanReuse(c), NEW d, d = start_next_cycle(c)
    PROVE  /\ d \in Connections(X) /\ Sound(d) /\ c.st.keep_alive
           /\ d.role = c.role /\ d.lenient = c.lenient /\ d.held = c.held /\ d.input = c.input
           /\ BodyFits(d, NoBody) /\ WordKept(d, None)
  <1>1. c.st.client = "Done" /\ c.st.server = "Done" /\ c.st.keep_alive
    BY DEF CanReuse, CanStartNextCycle
  <1>2. c.held = 0
    <2>1. peer_state(c) = "Done"
      BY <1>1 DEF peer_state, peer, state, Connections, Roles
    <2>2. c.held \in Nat
      BY DEF Connections
    <2> QED BY <2>1, <2>2 DEF Sound, HeldFits, WithinPayload, payload_reader
  <1>3. DefaultCycle \in Cycles /\ new \in ConnectionStates
    BY NewConnectionTyped, NewIsJoint DEF Roles
  <1>4. /\ d \in Connections(X) /\ d.st = new /\ d.cycle = DefaultCycle
        /\ d.role = c.role /\ d.lenient = c.lenient /\ d.held = c.held /\ d.input = c.input
    <2> HIDE DEF new, DefaultCycle
    <2> QED BY <1>3 DEF start_next_cycle, Connections
  <1>5. d.st.client = "Idle" /\ d.st.server = "Idle" /\ Lawful(d.st)
    BY <1>4, NewIsJoint DEF new, Lawful
  <1>6. /\ d.cycle.reader = ReadHead /\ d.cycle.writer = NoFraming
        /\ d.cycle.chunk_extension_bytes = 0 /\ ~d.cycle.waiting_for_continue
    BY <1>4 DEF DefaultCycle
  <1>7. local_state(d) = "Idle" /\ peer_state(d) = "Idle"
    BY <1>5 DEF local_state, peer_state, state
  <1>8. Coherent(d)
    BY <1>5, <1>6, <1>7 DEF Coherent, WriterMatches, ReaderShape, ProposalsMatch, WaitMatches,
                           ReadHead, Reader, NoFraming, None
  <1>9. Sound(d)
    BY <1>2, <1>4, <1>6, <1>7, <1>8, MaxHeadAssumption
       DEF Sound, ReaderMatches, HeldFits, ExtensionsFit
  <1>10. BodyFits(d, NoBody) /\ WordKept(d, None)
    BY <1>6 DEF BodyFits, NoBody, WordKept, None, ReadHead, Reader
  <1> QED BY <1>1, <1>4, <1>9, <1>10

(* start_next_cycle of a client that has received more than it asked for.   *)
LEMMA UnsolicitedEffect ==
    ASSUME NEW X, NEW c \in Connections(X), Sound(c), NEW d, d = NoKeepAliveIf(UnsolicitedBytes(c), c)
    PROVE  /\ Preserves(X, c, d) /\ d.held = c.held /\ d.input = c.input
           /\ \A a : WordKept(c, a) => WordKept(d, a)
  <1> DEFINE condition == UnsolicitedBytes(c)
  <1>1. condition \in BOOLEAN
    BY DEF UnsolicitedBytes
  <1>2. Coherent(c) /\ Lawful(c.st)
    BY DEF Sound, Coherent
  <1>3. d = NoKeepAliveIf(condition, c)
    OBVIOUS
  <1>4. condition => c.role = "client"
    BY DEF UnsolicitedBytes
  <1> HIDE DEF condition
  <1>5. /\ d \in Connections(X) /\ SameButState(c, d)
        /\ ClientSettles(c.st.client, d.st.client) /\ ServerSettles(c.st.server, d.st.server)
        /\ d.st.keep_alive => c.st.keep_alive
    BY <1>1, <1>2, <1>3, NoKeepAliveEffect
  <1>6. Sound(d)
    BY <1>1, <1>2, <1>3, NoKeepAliveKeeps
  <1>7. ASSUME NEW b \in Bodies, BodyFits(c, b) PROVE BodyFits(d, b)
    <2>1. peer_state(d) = "SendBody" => peer_state(c) = "SendBody"
      BY <1>5 DEF SameButState, peer_state, state, ClientSettles, ServerSettles
    <2> QED BY <1>5, <1>7, <2>1 DEF SameButState, BodyFits
  <1>8. ASSUME NEW a, WordKept(c, a) PROVE WordKept(d, a)
    <2>1. CASE condition
      BY <1>4, <1>5, <1>8, <2>1 DEF WordKept, SameButState
    <2>2. CASE ~condition
      BY <1>3, <1>8, <2>2 DEF NoKeepAliveIf
    <2> QED BY <1>1, <2>1, <2>2
  <1> QED BY <1>5, <1>6, <1>7, <1>8 DEF Preserves, SameButState

(* A response without content, whatever its fields say.                     *)
Bodyless(status, rk) == status \in {204, 304} \/ rk = "HEAD"

----------------------------------------------------------------------------
(* What the calls that send return, exactly: the writer, the cycle and the  *)
(* bytes written.                                                           *)

(* What the two sides know of the exchange stays.                           *)
SameExchange(c, d) ==
    /\ d.cycle.request_kind = c.cycle.request_kind
    /\ d.cycle.upgrade_proposals = c.cycle.upgrade_proposals
    /\ d.cycle.continue_before_upgrade = c.cycle.continue_before_upgrade

(* The writer, when there is one, is a framing that the role may use.       *)
WriterShape(e) == e.cycle.writer = NoFraming \/ IsFraming(e.cycle.writer, e.role = "server")

(* What send_data writes.                                                   *)
DataWire(w, n) ==
    IF w = Chunked /\ n # 0 THEN <<Hex(n), Symbol("crlf")>> \o Body(n) \o <<Symbol("crlf")>> ELSE Body(n)

(* What a successful send_data leaves: the writer counts the bytes it       *)
(* wrote, and the wait for 100 (Continue) is over.                          *)
LEMMA SendDataValue ==
    ASSUME NEW X, NEW c \in Connections(X), Coherent(c), NEW n \in Nat, NEW r, r = send_data(c, n), r.ok,
           NEW w, w = c.cycle.writer
    PROVE  /\ w # NoFraming /\ (w.kind = "Fixed" => n <= w.n)
           /\ r.c.cycle.writer = IF w.kind = "Fixed" THEN Fixed(w.n - n) ELSE w
           /\ ~r.c.cycle.waiting_for_continue /\ SameExchange(c, r.c)
           /\ r.wire = DataWire(w, n)
  <1>1. PICK next : next = IF w.kind = "Fixed" THEN Fixed(w.n - n) ELSE w
    OBVIOUS
  <1>2. r # Refused(c)
    BY DEF Refused
  <1>3. /\ w # NoFraming /\ (w.kind = "Fixed" => n <= w.n)
        /\ LocalAccepts(c, StateEvent("Data"))
        /\ r.c = [advance_local(c, StateEvent("Data"))
                    EXCEPT !.cycle.writer = next, !.cycle.waiting_for_continue = FALSE]
        /\ r.wire = DataWire(w, n)
    BY <1>1, <1>2 DEF send_data, Sent, DataWire
  <1>4. advance_local(c, StateEvent("Data")) = c
    <2>1. process_event(c.st, c.role, StateEvent("Data")) = c.st
      BY <1>3, DataEffect DEF LocalAccepts
    <2> QED BY <2>1 DEF advance_local, Connections
  <1>5. r.c = Wrote(c, next)
    BY <1>3, <1>4 DEF Wrote
  <1>6. r.c.cycle.writer = next /\ ~r.c.cycle.waiting_for_continue /\ SameExchange(c, r.c)
    <2>1. w \in Writers
      BY DEF Connections, Cycles, Writers
    <2>2. next \in Writers
      BY <1>1, <1>3, <2>1 DEF Writers, Fixed, NoFraming, None
    <2> QED BY <1>5, <2>2, WroteEffect DEF SameExchange
  <1> QED BY <1>1, <1>3, <1>6

(* What a successful end_of_message leaves: a sized body was complete, only *)
(* chunked coding has trailers, and the state machine has seen the end.     *)
LEMMA EndOfMessageValue ==
    ASSUME NEW X, NEW c \in Connections(X), Coherent(c), NEW trailers, NEW r, r = end_of_message(c, trailers), r.ok,
           NEW w, w = c.cycle.writer
    PROVE  /\ w # NoFraming /\ (w.kind = "Fixed" => w.n = 0) /\ (w # Chunked => trailers = <<>>)
           /\ LocalAccepts(c, StateEvent("EndOfMessage"))
           /\ r.c.st = process_event(c.st, c.role, StateEvent("EndOfMessage"))
           /\ r.c.cycle.writer = NoFraming /\ ~r.c.cycle.waiting_for_continue /\ SameExchange(c, r.c)
           /\ r.wire = IF w = Chunked THEN last_chunk(trailers) ELSE <<>>
  <1>1. PICK s : s = process_event(c.st, c.role, StateEvent("EndOfMessage"))
    OBVIOUS
  <1>2. r # Refused(c)
    BY DEF Refused
  <1>3. /\ w # NoFraming /\ (w.kind = "Fixed" => w.n = 0) /\ (w # Chunked => trailers = <<>>)
        /\ LocalAccepts(c, StateEvent("EndOfMessage"))
        /\ r.c = [advance_local(c, StateEvent("EndOfMessage"))
                    EXCEPT !.cycle.writer = NoFraming, !.cycle.waiting_for_continue = FALSE]
        /\ r.wire = IF w = Chunked THEN last_chunk(trailers) ELSE <<>>
    BY <1>2 DEF end_of_message, Sent
  <1>4. PICK k : k = Advanced(c, s)
    OBVIOUS
  <1>5. advance_local(c, StateEvent("EndOfMessage")) = k
    BY <1>1, <1>4 DEF advance_local, Advanced
  <1>6. Lawful(s) /\ s \in ConnectionStates
    <2>1. Lawful(c.st) /\ c.role \in Roles
      BY DEF Coherent, Connections
    <2> QED BY <1>1, <1>3, <2>1, EndEffect DEF LocalAccepts, Lawful
  <1>7. k \in Connections(X) /\ k.st = s /\ SameButState(c, k)
    BY <1>4, <1>6, AdvancedEffect
  <1>8. r.c = Wrote(k, NoFraming)
    BY <1>3, <1>5 DEF Wrote
  <1>9. r.c.st = s /\ r.c.cycle.writer = NoFraming /\ ~r.c.cycle.waiting_for_continue /\ SameExchange(k, r.c)
    <2>1. NoFraming \in Writers
      BY DEF Writers, NoFraming, None
    <2> QED BY <1>7, <1>8, <2>1, WroteEffect DEF SameExchange
  <1>10. SameExchange(c, r.c)
    BY <1>7, <1>9 DEF SameExchange, SameButState
  <1> QED BY <1>1, <1>3, <1>9, <1>10

(* Dropping keep-alive on a condition drops exactly that.                   *)
LEMMA NoKeepAliveExact ==
    ASSUME NEW X, NEW c \in Connections(X), Lawful(c.st), NEW condition \in BOOLEAN,
           NEW d, d = NoKeepAliveIf(condition, c)
    PROVE  /\ d.st.keep_alive <=> (c.st.keep_alive /\ ~condition)
           /\ ~condition => d = c
           /\ SameButState(c, d)
  <1>1. /\ d.st.keep_alive => c.st.keep_alive /\ ~condition
        /\ SameButState(c, d)
    BY NoKeepAliveEffect
  <1>2. ~condition => d = c
    BY DEF NoKeepAliveIf
  <1> QED BY <1>1, <1>2

(* The framing the head of a request declares.                              *)
RequestFraming(h) == framing(h, h.version, FALSE)

(* A request whose head is h: what it leaves the client with.               *)
Requested(c, h, f, e) ==
    /\ e.st.client = "SendBody" /\ e.st.server = "SendResponse"
    /\ e.st.keep_alive <=> (c.st.keep_alive /\ persistent(h))
    /\ e.cycle.writer = f
    /\ e.cycle.request_kind = RequestKind(h.method)
    /\ e.cycle.upgrade_proposals = Upgrades(h)
    /\ e.cycle.waiting_for_continue <=> expects_continue(h, f)
    /\ e.cycle.continue_before_upgrade <=> (expects_continue(h, f) /\ Upgrades(h) # {})

(* A request that send_request accepts and accept_request takes.            *)
Requestable(h, f) == /\ h.valid /\ f # FramingError /\ ~content_forbidden(h.method, f)

(* What record_request writes into the cycle.                               *)
LEMMA RecordRequestExact ==
    ASSUME NEW X, NEW c \in Connections(X), Lawful(c.st), NEW h \in MessageHeads, NEW f \in Writers,
           NEW ups \in SUBSET STRING, NEW e, e = WithWriter(record_request(c, h, f, ups), f),
           NEW k, k = NoKeepAliveIf(~persistent(h), c)
    PROVE  /\ e.st = k.st /\ e.cycle.writer = f
           /\ e.cycle.request_kind = RequestKind(h.method)
           /\ e.cycle.upgrade_proposals = ups
           /\ e.cycle.waiting_for_continue <=> expects_continue(h, f)
           /\ e.cycle.continue_before_upgrade <=> (expects_continue(h, f) /\ ups # {})
  <1>1. PICK g : g = record_request(c, h, f, ups)
    OBVIOUS
  <1>2. /\ g \in Connections(X) /\ g.st = k.st
        /\ g.cycle.request_kind = RequestKind(h.method)
        /\ g.cycle.upgrade_proposals = ups
        /\ g.cycle.waiting_for_continue <=> expects_continue(h, f)
        /\ g.cycle.continue_before_upgrade <=> (expects_continue(h, f) /\ ups # {})
    BY <1>1, RecordRequestEffect
  <1>3. /\ e.st = g.st /\ e.cycle.writer = f
        /\ e.cycle.request_kind = g.cycle.request_kind
        /\ e.cycle.upgrade_proposals = g.cycle.upgrade_proposals
        /\ e.cycle.waiting_for_continue = g.cycle.waiting_for_continue
        /\ e.cycle.continue_before_upgrade = g.cycle.continue_before_upgrade
    BY <1>1, <1>2, WithWriterEffect
  <1> QED BY <1>2, <1>3

(* What a successful send_request means: the client was between exchanges   *)
(* with nothing unread, and the head alone was written.                     *)
LEMMA SendRequestValue ==
    ASSUME NEW X, NEW c \in Connections(X), Coherent(c), NEW h \in MessageHeads,
           NEW r, r = send_request(c, h), r.ok, NEW f, f = RequestFraming(h)
    PROVE  /\ c.role = "client" /\ c.input = <<>> /\ c.st.client = "Idle" /\ c.st.server = "Idle"
           /\ Requestable(h, f) /\ Requested(c, h, f, r.c) /\ r.wire = <<HeadOf(h)>>
  <1> DEFINE ups == IF h.version = 11 THEN h.upgrade ELSE {}
             ev == request_event(h.method, ups)
             s == process_event(c.st, "client", ev)
             a == Advanced(c, s)
             k == NoKeepAliveIf(~persistent(h), a)
             g == record_request(a, h, f, ups)
             e == WithWriter(g, f)
  <1>1. r # Refused(c)
    BY DEF Refused
  <1>2. /\ c.role = "client" /\ c.input = <<>> /\ check_send(h) /\ f # FramingError
        /\ ~content_forbidden(h.method, f) /\ BadProtocol \notin h.upgrade
        /\ Accepts(c.st, "client", ev)
        /\ r.c = e /\ r.wire = <<HeadOf(h)>>
    BY <1>1 DEF RequestFraming, send_request, Sent, LocalAccepts, advance_local, WithWriter, Advanced
  <1>3. ups = Upgrades(h)
    BY <1>2 DEF check_send, Upgrades
  <1>4. PICK q \in SUBSET SwitchKinds : ev = Request(q)
    BY RequestEventProposals
  <1>5. /\ Lawful(s) /\ c.st.client = "Idle" /\ c.st.server = "Idle"
        /\ s.client = "SendBody" /\ s.server = "SendResponse"
        /\ s.keep_alive = c.st.keep_alive
    <2> HIDE DEF ev
    <2> QED BY <1>2, <1>4, RequestEffect DEF Coherent
  <1>6. ups \in SUBSET STRING
    BY DEF MessageHeads
  <1> HIDE DEF s, ups, a, g, e
  <1>7. a \in Connections(X) /\ a.st = s /\ SameButState(c, a)
    BY <1>5, AdvancedEffect DEF a, Lawful
  <1>8. (~persistent(h)) \in BOOLEAN
    BY DEF persistent
  <1>9. /\ ClientSettles(a.st.client, k.st.client) /\ ServerSettles(a.st.server, k.st.server)
        /\ k.st.keep_alive <=> (a.st.keep_alive /\ ~~persistent(h))
    BY <1>5, <1>7, <1>8, NoKeepAliveEffect, NoKeepAliveExact
  <1>11. f \in Writers
    <2>1. IsFraming(f, FALSE)
      BY <1>2, FramingValue DEF RequestFraming
    <2> QED BY <2>1 DEF IsFraming, Writers, None, Chunked, Fixed, CloseDelimited
  <1>12. /\ e.st = k.st /\ e.cycle.writer = f
         /\ e.cycle.request_kind = RequestKind(h.method)
         /\ e.cycle.upgrade_proposals = ups
         /\ e.cycle.waiting_for_continue <=> expects_continue(h, f)
         /\ e.cycle.continue_before_upgrade <=> (expects_continue(h, f) /\ ups # {})
    <2>1. Lawful(a.st)
      BY <1>5, <1>7
    <2> QED BY <1>6, <1>7, <1>11, <2>1, RecordRequestExact DEF e, g, k
  <1> HIDE DEF k
  <1>13. e.st.client = "SendBody" /\ e.st.server = "SendResponse"
    BY <1>5, <1>7, <1>9, <1>12 DEF ClientSettles, ServerSettles
  <1>14. e.st.keep_alive <=> (c.st.keep_alive /\ persistent(h))
    BY <1>5, <1>7, <1>9, <1>12
  <1>15. Requested(c, h, f, e)
    BY <1>3, <1>12, <1>13, <1>14 DEF Requested
  <1> QED BY <1>2, <1>5, <1>15 DEF Requestable, check_send

(* The framing the head of a response declares.                             *)
ResponseFraming(h) == framing(h, h.version, TRUE)

(* The framing fields of two heads agree.                                   *)
SameFields(h, g) ==
    /\ g.kind = h.kind /\ g.status = h.status /\ g.method = h.method /\ g.version = h.version
    /\ g.syntax = h.syntax

(* A response without codings: no length leaves it close-delimited.         *)
LEMMA FramingPlain ==
    ASSUME NEW g \in MessageHeads, g.te = <<>>
    PROVE  /\ g.cl = <<>> => ResponseFraming(g) = CloseDelimited
           /\ g.cl = << 0 >> => ResponseFraming(g) = Fixed(0)
  <1>1. << 0 >>[1] = 0 /\ << 0 >> # <<>> /\ (\A i \in DOMAIN << 0 >> : << 0 >>[i] = 0) /\ BadLength # 0
    BY DEF BadLength
  <1>2. g.cl = <<>> => ResponseFraming(g) = CloseDelimited
    BY DEF ResponseFraming, framing
  <1>3. ASSUME g.cl = << 0 >> PROVE ResponseFraming(g) = Fixed(0)
    <2>1. g.cl # <<>> /\ g.cl[1] = 0 /\ (\A i \in DOMAIN g.cl : g.cl[i] = g.cl[1]) /\ g.cl[1] # BadLength
      BY <1>1, <1>3
    <2> QED BY <2>1 DEF ResponseFraming, framing
  <1> QED BY <1>2, <1>3

(* A response with chunked coding alone.                                    *)
LEMMA FramingChunks ==
    ASSUME NEW g \in MessageHeads, g.te = <<"chunked">>, g.cl = <<>>, g.version = 11
    PROVE  ResponseFraming(g) = Chunked
  <1>1. g.te # <<>> /\ Len(g.te) = 1 /\ g.te[1] = "chunked"
    OBVIOUS
  <1>2. {g.te[i] : i \in 1..(Len(g.te) - 1)} = {} /\ g.te[Len(g.te)] = "chunked"
    BY <1>1
  <1> QED BY <1>1, <1>2 DEF ResponseFraming, framing, CodingsFraming

(* A declared framing does not depend on the direction.                     *)
LEMMA DeclaredAgrees ==
    ASSUME NEW h \in MessageHeads, has_framing(h), RequestFraming(h) # FramingError
    PROVE  ResponseFraming(h) = RequestFraming(h)
  <1>1. CASE h.te # <<>>
    <2>1. h.cl = <<>> /\ h.version # 10
      BY <1>1 DEF RequestFraming, framing
    <2>2. RequestFraming(h) = CodingsFraming(h.te, FALSE) /\ ResponseFraming(h) = CodingsFraming(h.te, TRUE)
      BY <1>1, <2>1 DEF RequestFraming, ResponseFraming, framing
    <2>3. CodingsFraming(h.te, FALSE) = CodingsFraming(h.te, TRUE)
      BY <2>2 DEF CodingsFraming
    <2> QED BY <2>2, <2>3
  <1>2. CASE h.te = <<>>
    BY <1>2 DEF RequestFraming, ResponseFraming, framing, has_framing
  <1> QED BY <1>1, <1>2

(* The head that frame_response completes declares the framing it was       *)
(* given, where the status allows content at all.                           *)
LEMMA FramedFraming ==
    ASSUME NEW c, NEW h \in MessageHeads, NEW f, f = response_framing(c, h), f # FramingError,
           NEW g, g = framed_head(c, h, f)
    PROVE  /\ g \in MessageHeads /\ SameFields(h, g) /\ g.opts = h.opts
           /\ response_has_no_body(c, h.status) => f = Fixed(0) /\ ResponseFraming(g) # FramingError
           /\ ~response_has_no_body(c, h.status) => ResponseFraming(g) = f
  <1>1. g \in MessageHeads /\ g.opts = h.opts
    BY FramedHead
  <1>2. SameFields(h, g)
    BY DEF framed_head, SameFields, MessageHeads
  <1>3. response_has_no_body(c, h.status) => f = Fixed(0)
    BY DEF response_framing
  <1>4. Declared(c, h) => g = h /\ has_framing(h)
    BY DEF framed_head, Declared
  <1>5. ~Declared(c, h) => h.cl = <<>> /\ (Stripped(c, h) \/ h.te = <<>>)
    <2>1. CASE Stripped(c, h)
      <3>1. framing(h, 11, response_has_no_body(c, h.status)) # FramingError
        BY <2>1 DEF response_framing
      <3> QED BY <2>1, <3>1 DEF framing, Stripped, has_transfer_encoding
    <2>2. CASE ~Stripped(c, h)
      BY <2>2 DEF Declared, has_framing
    <2> QED BY <2>1, <2>2
  <1>6. ASSUME response_has_no_body(c, h.status) PROVE ResponseFraming(g) # FramingError
    <2>1. CASE Declared(c, h)
      <3>1. framing(h, h.version, response_has_no_body(c, h.status)) # FramingError
        BY <1>6, <2>1 DEF response_framing
      <3> QED BY <1>4, <1>6, <2>1, <3>1 DEF ResponseFraming, framing, CodingsFraming
    <2>2. CASE ~Declared(c, h)
      <3>1. g.cl = <<>> /\ g.te = <<>>
        BY <1>5, <1>6, <2>2 DEF framed_head, MessageHeads
      <3> QED BY <1>1, <3>1, FramingPlain DEF CloseDelimited, FramingError
    <2> QED BY <2>1, <2>2
  <1>7. ASSUME ~response_has_no_body(c, h.status) PROVE ResponseFraming(g) = f
    <2>1. CASE Declared(c, h)
      <3>1. f = framing(h, h.version, response_has_no_body(c, h.status))
        BY <1>7, <2>1 DEF response_framing
      <3>2. f = RequestFraming(h)
        BY <1>7, <3>1 DEF RequestFraming, framing, CodingsFraming
      <3> QED BY <1>4, <2>1, <3>2, DeclaredAgrees
    <2>2. CASE ~Declared(c, h) /\ h.status = 205
      <3>1. g.cl = << 0 >> /\ g.te = <<>> /\ f = Fixed(0)
        BY <1>5, <1>7, <2>2 DEF framed_head, MessageHeads, response_framing
      <3> QED BY <1>1, <3>1, FramingPlain
    <2>3. CASE ~Declared(c, h) /\ h.status # 205 /\ Http11(c, h)
      <3>1. f = Chunked
        BY <1>7, <2>3 DEF response_framing
      <3>2. g.cl = <<>> /\ g.te = <<"chunked">> /\ h.version = 11
        BY <1>5, <1>7, <2>3, <3>1 DEF framed_head, MessageHeads, Stripped, Http11
      <3> QED BY <1>1, <1>2, <3>1, <3>2, FramingChunks DEF SameFields
    <2>4. CASE ~Declared(c, h) /\ h.status # 205 /\ ~Http11(c, h)
      <3>1. f = CloseDelimited
        BY <1>7, <2>4 DEF response_framing
      <3>2. g.cl = <<>> /\ g.te = <<>>
        BY <1>5, <1>7, <2>4, <3>1 DEF framed_head, MessageHeads, Chunked, CloseDelimited
      <3> QED BY <1>1, <3>1, <3>2, FramingPlain
    <2> QED BY <2>1, <2>2, <2>3, <2>4
  <1> QED BY <1>1, <1>2, <1>3, <1>6, <1>7

(* What a final response clears in the cycle.                               *)
LEMMA RecordResponseExact ==
    ASSUME NEW X, NEW c \in Connections(X), NEW d, d = record_response(c)
    PROVE  /\ ~d.cycle.waiting_for_continue /\ ~d.cycle.continue_before_upgrade
           /\ d.cycle.upgrade_proposals = {} /\ d.cycle.request_kind = c.cycle.request_kind
  BY DEF record_response, Connections, Cycles

(* Setting a connection option leaves the framing.                          *)
LEMMA OptionFraming ==
    ASSUME NEW h \in MessageHeads, NEW option \in {"close", "keep-alive"}, NEW g, g = set_connection_option(h, option)
    PROVE  /\ g \in MessageHeads /\ SameFields(h, g)
           /\ ResponseFraming(g) = ResponseFraming(h)
           /\ option = "close" => ~persistent(g)
           /\ option = "keep-alive" => persistent(g)
  <1>1. g \in MessageHeads
    BY DEF set_connection_option, MessageHeads
  <1>2. SameFields(h, g) /\ g.te = h.te /\ g.cl = h.cl
    BY DEF set_connection_option, MessageHeads, SameFields
  <1>3. ResponseFraming(g) = ResponseFraming(h)
    BY <1>2 DEF ResponseFraming, framing, SameFields
  <1>4. g.opts = (h.opts \ {"close", "keep-alive"}) \cup {option}
    BY DEF set_connection_option, MessageHeads
  <1>5. /\ option = "close" => ~persistent(g)
        /\ option = "keep-alive" => persistent(g)
    BY <1>4 DEF persistent
  <1> QED BY <1>1, <1>2, <1>3, <1>5

(* A response to CONNECT ends keep-alive.                                   *)
LEMMA ResponseExact ==
    ASSUME NEW c, Lawful(c), c.server = "SendResponse",
           NEW f, f = process_event(c, "server", StateEvent("Response"))
    PROVE  f.keep_alive <=> (c.keep_alive /\ "Connect" \notin c.proposals)
  <1> DEFINE ev == StateEvent("Response")
             j == JointEffect(c, "server", ev)
             d == [j EXCEPT !.server = "SendBody"]
  <1>1. ev.kind = "Response"
    BY DEF StateEvent
  <1>2. direct_transition("server", state(c, "server"), "Response") = "SendBody"
    BY DEF direct_transition, state
  <1>3. f = stabilize(d)
    BY <1>1, <1>2 DEF process_event, WithState
  <1>4. /\ j \in ConnectionStates
        /\ j.keep_alive <=> (c.keep_alive /\ "Connect" \notin c.proposals)
    BY <1>1 DEF JointEffect, Lawful, ConnectionStates
  <1>5. d \in ConnectionStates /\ d.keep_alive = j.keep_alive
    <2> HIDE DEF j
    <2> QED BY <1>4 DEF ConnectionStates, States
  <1> HIDE DEF d
  <1>6. f.keep_alive = d.keep_alive
    BY <1>3, <1>5, StabilizeEffect
  <1> QED BY <1>4, <1>5, <1>6

(* A client that settles twice has settled.                                 *)
LEMMA SettlesOn ==
    ASSUME NEW s, NEW t, NEW u, ClientSettles(s, t), ClientSettles(t, u)
    PROVE  ClientSettles(s, u)
  BY DEF ClientSettles

(* What a final response leaves the server with.                            *)
Responded(c, g, e) ==
    /\ ~is_informational(g.status)
    /\ e.cycle.request_kind = c.cycle.request_kind /\ ClientSettles(c.st.client, e.st.client)
    /\ e.cycle.upgrade_proposals = {} /\ ~e.cycle.waiting_for_continue /\ ~e.cycle.continue_before_upgrade
    /\ opens_tunnel(c, g.status) => e.st.server = "SwitchedProtocol" /\ e.cycle.writer = NoFraming
    /\ ~opens_tunnel(c, g.status) =>
          /\ e.st.server = "SendBody"
          /\ e.cycle.writer = IF response_has_no_body(c, g.status) THEN Fixed(0) ELSE ResponseFraming(g)
          /\ IsFraming(e.cycle.writer, TRUE)
          /\ ResponseFraming(g) # FramingError
          /\ e.st.keep_alive <=> persistent(g)
          /\ e.st.keep_alive => e.cycle.writer # CloseDelimited /\ WordKept(e, "persist")
          /\ e.st.keep_alive /\ c.st.server = "SendResponse" => c.cycle.request_kind # "CONNECT"

(* What a successful send_response means: one head was written, with the    *)
(* fields of h and a framing that fits it.                                  *)
LEMMA SendResponseValue ==
    ASSUME NEW X, NEW c \in Connections(X), Coherent(c), NEW h \in MessageHeads,
           NEW r, r = send_response(c, h), r.ok
    PROVE  /\ h.valid /\ c.role = "server" /\ c.st.server \in {"Idle", "SendResponse"}
           /\ \E g \in MessageHeads : SameFields(h, g) /\ r.wire = <<HeadOf(g)>> /\ Responded(c, g, r.c)
  <1> DEFINE connect == opens_tunnel(c, h.status)
             f == response_framing(c, h)
             ev == final_response_event(c, h.status)
             s == process_event(c.st, "server", ev)
             a == Advanced(c, s)
             closes == \/ f = CloseDelimited
                       \/ peer_state(a) = "SendBody" /\ unread(c)
                       \/ "close" \in h.opts
             k == NoKeepAliveIf(closes, a)
             g == record_response(k)
             w == IF connect THEN NoFraming ELSE f
             e == WithWriter(g, w)
             head == framed_head(c, h, f)
             sent == CASE connect -> head
                       [] ~connect /\ ~e.st.keep_alive -> set_connection_option(head, "close")
                       [] ~connect /\ e.st.keep_alive /\ ~Http11(c, h) ->
                             set_connection_option(head, "keep-alive")
                       [] OTHER -> head
  <1>1. r # Refused(c) /\ c.role = "server"
    BY DEF Refused, send_response
  <1>2. /\ f # FramingError /\ Accepts(c.st, "server", ev) /\ h.valid /\ ~is_informational(h.status)
        /\ r = Sent(e, <<HeadOf(sent)>>)
    <2>1. advance_local(c, ev) = a
      BY <1>1 DEF advance_local, Advanced
    <2> HIDE DEF a
    <2> QED BY <1>1, <2>1 DEF send_response, LocalAccepts, WithWriter, check_send
  <1>3. a.role = "server" /\ a.st = s
    BY <1>1 DEF Advanced, Connections
  <1>4. peer_state(a) = s.client
    BY <1>3 DEF peer_state, peer, state
  <1>5. /\ closes \in BOOLEAN /\ (f = CloseDelimited => closes)
        /\ (s.client = "SendBody" /\ unread(c) => closes)
        /\ ("close" \in h.opts => closes)
    BY <1>4
  <1> HIDE DEF closes, s, a
  <1>6. a = Advanced(c, s)
    BY DEF a
  <1>7. s = process_event(c.st, "server", ev)
    BY DEF s
  <1>8. /\ Responds(X, c, e)
        /\ e.st.keep_alive => ~closes
        /\ connect <=> (e.st.server = "SwitchedProtocol")
    BY <1>1, <1>2, <1>5, <1>6, <1>7, ResponseMoves
  <1>9. /\ e.cycle.writer = w /\ e.cycle.request_kind = c.cycle.request_kind
        /\ e.cycle.upgrade_proposals = {} /\ ~e.cycle.waiting_for_continue
        /\ ~e.cycle.continue_before_upgrade /\ ClientSettles(c.st.client, e.st.client)
        /\ e.st.keep_alive => s.keep_alive
    <2>1. Lawful(s) /\ ClientSettles(c.st.client, s.client)
      BY <1>2, <1>7, FinalResponseEvent DEF Coherent
    <2>2. a \in Connections(X) /\ SameButState(c, a)
      BY <1>6, <2>1, AdvancedEffect DEF Lawful
    <2>9. /\ ClientSettles(a.st.client, k.st.client)
          /\ k.st.keep_alive => a.st.keep_alive
      <3> HIDE DEF k
      <3> QED BY <1>3, <1>5, <2>1, <2>2, NoKeepAliveEffect DEF k
    <2>3. k \in Connections(X) /\ SameButState(a, k)
      <3> HIDE DEF k
      <3> QED BY <1>3, <1>5, <2>1, <2>2, NoKeepAliveEffect DEF k
    <2> HIDE DEF k
    <2>4. g \in Connections(X)
      BY <2>3, RecordResponseEffect
    <2>10. g.st = k.st
      BY DEF record_response
    <2>5. /\ ~g.cycle.waiting_for_continue /\ ~g.cycle.continue_before_upgrade
          /\ g.cycle.upgrade_proposals = {} /\ g.cycle.request_kind = k.cycle.request_kind
      BY <2>3, RecordResponseExact
    <2> HIDE DEF g
    <2>6. w \in Writers
      BY <1>2, ResponseFramingValue DEF IsFraming, Writers, NoFraming, None, Chunked, Fixed, CloseDelimited
    <2> HIDE DEF w
    <2>7. /\ e.cycle.writer = w /\ e.cycle.request_kind = g.cycle.request_kind
          /\ e.cycle.upgrade_proposals = g.cycle.upgrade_proposals
          /\ e.cycle.waiting_for_continue = g.cycle.waiting_for_continue
          /\ e.cycle.continue_before_upgrade = g.cycle.continue_before_upgrade /\ e.st = g.st
      BY <2>4, <2>6, WithWriterEffect
    <2>8. ClientSettles(c.st.client, e.st.client)
      BY <1>3, <2>1, <2>9, <2>10, <2>7, SettlesOn
    <2>11. e.st.keep_alive => s.keep_alive
      BY <1>3, <2>7, <2>9, <2>10
    <2> QED BY <2>2, <2>3, <2>5, <2>7, <2>8, <2>11 DEF SameButState
  <1>20. ~connect /\ s.keep_alive /\ c.st.server = "SendResponse" => c.cycle.request_kind # "CONNECT"
    <2> SUFFICES ASSUME ~connect, s.keep_alive, c.st.server = "SendResponse"
                 PROVE  c.cycle.request_kind # "CONNECT"
      OBVIOUS
    <2>1. s = process_event(c.st, "server", StateEvent("Response"))
      BY <1>7 DEF final_response_event
    <2>2. "Connect" \notin c.st.proposals
      BY <2>1, ResponseExact DEF Coherent
    <2> QED BY <2>2 DEF Coherent, ProposalsMatch
  <1>10. /\ head \in MessageHeads /\ SameFields(h, head) /\ head.opts = h.opts
         /\ response_has_no_body(c, h.status) => f = Fixed(0) /\ ResponseFraming(head) # FramingError
         /\ ~response_has_no_body(c, h.status) => ResponseFraming(head) = f
    <2> HIDE DEF head, f
    <2> QED BY <1>2, FramedFraming DEF head, f
  <1>11. IsFraming(f, TRUE)
    BY <1>2, ResponseFramingValue
  <1> HIDE DEF e, head, f
  <1>12. /\ sent \in MessageHeads /\ SameFields(h, sent) /\ ResponseFraming(sent) = ResponseFraming(head)
         /\ ~connect => (e.st.keep_alive <=> persistent(sent))
    <2>1. CASE connect
      BY <1>10, <2>1
    <2>2. CASE ~connect /\ ~e.st.keep_alive
      BY <1>10, <2>2, OptionFraming DEF SameFields
    <2>3. CASE ~connect /\ e.st.keep_alive /\ ~Http11(c, h)
      BY <1>10, <2>3, OptionFraming DEF SameFields
    <2>4. CASE ~connect /\ e.st.keep_alive /\ Http11(c, h)
      <3>1. sent = head
        BY <2>4
      <3>2. "close" \notin head.opts /\ head.version = 11
        BY <1>5, <1>8, <1>10, <2>4 DEF Http11, SameFields
      <3> QED BY <1>10, <2>4, <3>1, <3>2 DEF persistent
    <2> QED BY <2>1, <2>2, <2>3, <2>4
  <1> HIDE DEF sent
  <1>13. r.c = e /\ r.wire = <<HeadOf(sent)>>
    BY <1>2 DEF Sent
  <1>14. sent.status = h.status
    BY <1>12 DEF SameFields
  <1>15. /\ connect => e.st.server = "SwitchedProtocol" /\ e.cycle.writer = NoFraming
         /\ ~connect => e.st.server = "SendBody" /\ e.cycle.writer = f
    BY <1>8, <1>9 DEF Responds
  <1>16. ASSUME ~connect
         PROVE  /\ f = IF response_has_no_body(c, h.status) THEN Fixed(0) ELSE ResponseFraming(sent)
                /\ ResponseFraming(sent) # FramingError
                /\ e.st.keep_alive => f # CloseDelimited /\ WordKept(e, "persist")
    BY <1>2, <1>5, <1>8, <1>10, <1>12, <1>15, <1>16 DEF Responds
  <1>17. Responded(c, sent, e)
    <2> HIDE DEF connect
    <2>1. opens_tunnel(c, sent.status) <=> connect
      BY <1>14 DEF connect
    <2>2. response_has_no_body(c, sent.status) <=> response_has_no_body(c, h.status)
      BY <1>14
    <2> QED BY <1>2, <1>9, <1>11, <1>12, <1>14, <1>15, <1>16, <1>20, <2>1, <2>2 DEF Responded
  <1> QED BY <1>1, <1>2, <1>8, <1>12, <1>13, <1>17 DEF Responds

(* What an informational response leaves the server with.                   *)
Informed(c, h, e) ==
    /\ is_informational(h.status)
    /\ e.cycle.request_kind = c.cycle.request_kind /\ e.cycle.writer = c.cycle.writer
    /\ e.cycle.upgrade_proposals = c.cycle.upgrade_proposals
    /\ e.st.keep_alive = c.st.keep_alive
    /\ h.status # 100 => /\ e.cycle.waiting_for_continue = c.cycle.waiting_for_continue
                         /\ e.cycle.continue_before_upgrade = c.cycle.continue_before_upgrade
    /\ h.status = 101 => /\ e.st.server = "SwitchedProtocol" /\ valid_upgrade_response(c, h)
                         /\ ~c.cycle.continue_before_upgrade
    /\ h.status # 101 => e.st = c.st

(* What a successful send_informational_response means: one head without    *)
(* framing was written.                                                     *)
LEMMA SendInformationalValue ==
    ASSUME NEW X, NEW c \in Connections(X), Coherent(c), NEW h \in MessageHeads,
           NEW r, r = send_informational_response(c, h), r.ok
    PROVE  /\ h.valid /\ ~has_framing(h) /\ c.role = "server" /\ c.st.server = "SendResponse"
           /\ r.wire = <<HeadOf(h)>> /\ Informed(c, h, r.c)
  <1> DEFINE ev == informational_event(h)
             s == process_event(c.st, "server", ev)
             a == Advanced(c, s)
  <1>1. r # Refused(c) /\ c.role = "server"
    BY DEF Refused, send_informational_response
  <1>2. /\ is_informational(h.status) /\ h.valid /\ ~has_framing(h) /\ HasInformationalEvent(c, h)
        /\ Accepts(c.st, "server", ev) /\ r = Sent(record_informational(a, h.status), <<HeadOf(h)>>)
    BY <1>1 DEF send_informational_response, LocalAccepts, advance_local, Advanced, check_send
  <1>3. /\ Lawful(s) /\ c.st.server = "SendResponse" /\ s.keep_alive = c.st.keep_alive
        /\ h.status # 101 => s = c.st
        /\ h.status = 101 => s.server = "SwitchedProtocol"
    <2>1. CASE h.status = 101
      <3>1. ev = ProtocolSwitch("Upgrade") /\ "Upgrade" \in SwitchKinds /\ "server" \in Roles
        BY <2>1 DEF informational_event, SwitchKinds, Roles
      <3> HIDE DEF ev
      <3> QED BY <1>2, <2>1, <3>1, SwitchEffect DEF Coherent
    <2>2. CASE h.status # 101
      <3>1. ev = StateEvent("InformationalResponse") /\ "server" \in Roles
        BY <2>2 DEF informational_event, Roles
      <3> HIDE DEF ev
      <3> QED BY <1>2, <2>2, <3>1, InformationalEffect DEF Coherent
    <2> QED BY <2>1, <2>2
  <1> HIDE DEF s
  <1>4. a \in Connections(X) /\ a.st = s /\ SameButState(c, a)
    BY <1>3, AdvancedEffect DEF Lawful
  <1> HIDE DEF a
  <1>5. PICK e : e = record_informational(a, h.status)
    OBVIOUS
  <1>6. SameMessages(a, e) /\ e.cycle.upgrade_proposals = a.cycle.upgrade_proposals
    BY <1>4, <1>5, RecordInformationalEffect
  <1>7. h.status # 100 => e = a
    BY <1>5 DEF record_informational
  <1>8. Informed(c, h, e)
    <2>1. h.status = 101 => valid_upgrade_response(c, h) /\ ~c.cycle.continue_before_upgrade
      BY <1>2 DEF HasInformationalEvent
    <2> QED BY <1>2, <1>3, <1>4, <1>6, <1>7, <2>1 DEF Informed, SameMessages, SameButState, Fixtures
  <1> QED BY <1>1, <1>2, <1>3, <1>5, <1>8 DEF Sent

(* The parts of a complete message.                                         *)
DataPart(e, n) == IF n # 0 THEN send_data(e, n) ELSE Sent(e, <<>>)

(* Its end, as send_complete calls end_of_message.                          *)
EndPart(d) == end_of_message(d, <<>>)

(* What send_complete sends after the head.                                 *)
RestSent(e, n, data, end) ==
    n \in Nat /\ data = DataPart(e, n) /\ data.ok /\ end = EndPart(data.c) /\ end.ok

(* send_complete after the head it was given succeeded.                     *)
CompleteSent(c, head, n, r) == n \in Nat /\ head.ok /\ r = send_complete(c, head, n) /\ r.ok

(* The bytes are those of the parts in their order, the connection that     *)
(* after the last.                                                          *)
InTurn(head, data, end, r) == r.c = end.c /\ r.wire = (head.wire \o data.wire) \o end.wire

(* A complete message is a head alone where it switches the protocol, and a *)
(* head, a body and an end elsewhere.                                       *)
LEMMA CompleteParts ==
    ASSUME NEW c, NEW head, NEW n, NEW r, CompleteSent(c, head, n, r),
           NEW data, data = DataPart(head.c, n), NEW end, end = EndPart(data.c)
    PROVE  /\ local_state(head.c) = "SwitchedProtocol" => r = head
           /\ local_state(head.c) # "SwitchedProtocol" => RestSent(head.c, n, data, end) /\ InTurn(head, data, end, r)
  <1> SUFFICES ASSUME n \in Nat, head.ok, r = send_complete(c, head, n), r.ok
               PROVE  /\ local_state(head.c) = "SwitchedProtocol" => r = head
                      /\ local_state(head.c) # "SwitchedProtocol" =>
                            RestSent(head.c, n, data, end) /\ InTurn(head, data, end, r)
    BY DEF CompleteSent
  <1>1. r # Refused(Restored(c, head.c)) /\ r # Refused(Restored(c, end.c))
    BY DEF Refused
  <1>2. local_state(head.c) = "SwitchedProtocol" => r = head
    BY <1>1 DEF send_complete
  <1>3. ASSUME local_state(head.c) # "SwitchedProtocol"
        PROVE  RestSent(head.c, n, data, end) /\ InTurn(head, data, end, r)
    <2>1. r = IF data.ok /\ end.ok THEN Sent(end.c, (head.wire \o data.wire) \o end.wire)
              ELSE Refused(Restored(c, end.c))
      BY <1>3 DEF send_complete, DataPart, EndPart
    <2>2. data.ok /\ end.ok /\ r = Sent(end.c, (head.wire \o data.wire) \o end.wire)
      BY <1>1, <2>1
    <2>3. PICK w : w = (head.wire \o data.wire) \o end.wire
      OBVIOUS
    <2>4. r = Sent(end.c, w)
      BY <2>2, <2>3
    <2>5. r.c = end.c /\ r.wire = w
      BY <2>4 DEF Sent
    <2>6. RestSent(head.c, n, data, end)
      BY <2>2 DEF RestSent
    <2> QED BY <2>3, <2>5, <2>6 DEF InTurn
  <1> QED BY <1>2, <1>3

----------------------------------------------------------------------------
(* What a parse of the next section finds.                                  *)

(* find_crlf on a sequence whose first line end is known.                   *)
LEMMA LineFound ==
    ASSUME NEW X, NEW s \in Seq(X), NEW n, n = find_crlf(s)
    PROVE  /\ (\A i \in 1..Len(s) : s[i].tok \notin {"crlf", "field", "head"}) => n = 0
           /\ \A k \in 1..Len(s) :
                 /\ s[k].tok \in {"crlf", "field", "head"}
                 /\ \A i \in 1..(k - 1) : s[i].tok \notin {"crlf", "field", "head"}
                 => n = k
  <1> DEFINE I == {i \in 1..Len(s) : s[i].tok \in {"crlf", "field", "head"}}
  <1>1. n = IF I # {} THEN Min(I) ELSE 0
    BY DEF find_crlf, SelectInSeq
  <1>2. I \subseteq Nat /\ Len(s) \in Nat
    BY LenProperties
  <1>3. I # {} => Min(I) \in I /\ \A y \in I : Min(I) <= y
    BY <1>2, MinIsLeast
  <1>4. ASSUME NEW k \in 1..Len(s), s[k].tok \in {"crlf", "field", "head"},
               \A i \in 1..(k - 1) : s[i].tok \notin {"crlf", "field", "head"}
        PROVE  n = k
    <2>1. k \in I
      BY <1>4
    <2>2. n \in I /\ n <= k
      BY <1>1, <1>3, <2>1
    <2>3. n \notin 1..(k - 1)
      BY <1>4, <2>2
    <2> QED BY <1>2, <2>2, <2>3
  <1>5. (\A i \in 1..Len(s) : s[i].tok \notin {"crlf", "field", "head"}) => I = {}
    OBVIOUS
  <1> HIDE DEF I
  <1> QED BY <1>1, <1>4, <1>5

(* parse_trailers on field lines alone, and on field lines and an empty     *)
(* one.                                                                     *)
LEMMA TrailersFound ==
    ASSUME NEW X, NEW s \in Seq(X), NEW p, p = parse_trailers(s)
    PROVE  /\ (\A i \in 1..Len(s) : s[i].tok = "field") => p.status = "Partial"
           /\ \A k \in 1..Len(s) :
                 s[k].tok = "crlf" /\ (\A i \in 1..(k - 1) : s[i].tok = "field")
                 => p.status = "Complete" /\ p.end = k
  <1> DEFINE I == {i \in 1..Len(s) : s[i].tok \notin {"byte", "hex", "field"}}
             stop == IF I # {} THEN Min(I) ELSE 0
             fresh == stop = 1 \/ s[stop - 1].tok = "field"
  <1>1. p = IF stop = 0 \/ (fresh /\ AwaitsLf(s, stop)) THEN Parsed("Partial", 0)
            ELSE IF s[stop].tok = "crlf" /\ fresh THEN Parsed("Complete", stop)
            ELSE Parsed("Err", 0)
    BY DEF parse_trailers, SelectInSeq
  <1>2. I \subseteq Nat /\ Len(s) \in Nat
    BY LenProperties
  <1>3. I # {} => Min(I) \in I /\ \A y \in I : Min(I) <= y
    BY <1>2, MinIsLeast
  <1>4. ASSUME NEW k \in 1..Len(s), s[k].tok = "crlf", \A i \in 1..(k - 1) : s[i].tok = "field"
        PROVE  p.status = "Complete" /\ p.end = k
    <2>1. k \in I
      BY <1>4
    <2>2. stop \in I /\ stop <= k
      BY <1>3, <2>1
    <2>3. stop \notin 1..(k - 1)
      BY <1>4, <2>2
    <2>4. stop = k
      BY <1>2, <2>2, <2>3
    <2>5. stop = 1 \/ s[stop - 1].tok = "field"
      <3>1. k = 1 \/ k - 1 \in 1..(k - 1)
        BY <1>2
      <3> HIDE DEF stop
      <3> QED BY <1>4, <2>4, <3>1
    <2>6. stop # 0
      BY <2>2
    <2> HIDE DEF stop
    <2>7. ~AwaitsLf(s, stop)
      BY <1>4, <2>4 DEF AwaitsLf
    <2> QED BY <1>1, <1>4, <2>4, <2>5, <2>6, <2>7 DEF Parsed
  <1>5. (\A i \in 1..Len(s) : s[i].tok = "field") => stop = 0
    OBVIOUS
  <1> HIDE DEF stop
  <1>6. stop = 0 => p.status = "Partial"
    BY <1>1 DEF Parsed
  <1> QED BY <1>4, <1>5, <1>6

(* parse_head on nothing, and on a head that is next.                       *)
LEMMA HeadFound ==
    ASSUME NEW X, NEW s \in Seq(X), NEW kind, NEW lenient, NEW p, p = parse_head(s, kind, lenient)
    PROVE  /\ s = <<>> => p.status = "Partial"
           /\ /\ s # <<>> /\ s[1].tok = "head" /\ s[1].h.kind = kind /\ s[1].h.syntax = "ok"
              => p.status = "Complete" /\ p.end = 1
  <1> DEFINE I == {i \in 1..Len(s) : s[i].tok \notin {"crlf", "byte", "hex"}}
             stop == IF I # {} THEN Min(I) ELSE 0
             A == {i \in 1..Len(s) : s[i].tok # "crlf"}
             at == IF A # {} THEN Min(A) ELSE 0
             lines == {i \in DOMAIN s : at # 0 /\ i > at /\ s[i].tok = "crlf"}
  <1>1. p = IF \E i \in lines : stop = 0 \/ i < stop THEN Parsed("Err", 0)
            ELSE IF stop = 0 \/ (stop = at /\ AwaitsLf(s, stop)) THEN Parsed("Partial", 0)
            ELSE IF /\ s[stop].tok = "head"
                    /\ s[stop].h.kind = kind
                    /\ \/ s[stop].h.syntax = "ok"
                       \/ s[stop].h.syntax = "dropped" /\ lenient /\ kind = "response"
                 THEN Parsed("Complete", stop)
            ELSE Parsed("Err", 0)
    BY DEF parse_head, SelectInSeq
  <1>2. I \subseteq Nat /\ Len(s) \in Nat /\ DOMAIN s = 1..Len(s)
    BY LenProperties
  <1>3. I # {} => Min(I) \in I /\ \A y \in I : Min(I) <= y
    BY <1>2, MinIsLeast
  <1>4. ASSUME s = <<>> PROVE p.status = "Partial"
    <2>1. Len(s) = 0 /\ DOMAIN s = {}
      BY <1>2, <1>4, EmptySeq
    <2>2. I = {} /\ lines = {}
      BY <2>1
    <2> HIDE DEF I, lines
    <2> QED BY <1>1, <2>2 DEF Parsed
  <1>5. ASSUME s # <<>>, s[1].tok = "head", s[1].h.kind = kind, s[1].h.syntax = "ok"
        PROVE  p.status = "Complete" /\ p.end = 1
    <2>1. Len(s) >= 1
      BY <1>5, FirstElement
    <2>2. 1 \in I
      BY <1>2, <1>5, <2>1
    <2>3. stop = 1
      BY <1>2, <1>3, <2>2
    <2>4. \A i \in lines : i >= 1
      BY <1>2
    <2>5. lines \subseteq Nat
      BY <1>2
    <2> HIDE DEF stop, lines
    <2>6. ~\E i \in lines : stop = 0 \/ i < stop
      BY <2>3, <2>4, <2>5
    <2>7. ~AwaitsLf(s, 1)
      BY <1>5 DEF AwaitsLf
    <2> QED BY <1>1, <1>5, <2>3, <2>6, <2>7 DEF Parsed
  <1> QED BY <1>4, <1>5

(* finish_peer keeps the input.                                             *)
LEMMA FinishValue ==
    ASSUME NEW c, peer_state(c) = "SendBody", NEW p, p = finish_peer(c), NEW X, c \in Connections(X)
    PROVE  p.kind = "EndOfMessage" /\ p.c.input = c.input
  <1>1. PeerAccepts(c, StateEvent("EndOfMessage"))
    BY BodyAccepts DEF PeerAccepts, peer_state
  <1>2. PICK a : a = advance_peer(c, StateEvent("EndOfMessage"))
    OBVIOUS
  <1>3. a.input = c.input
    BY <1>2 DEF advance_peer, Connections
  <1>4. p = Polled("EndOfMessage", WithReader(a, ReadHead))
    BY <1>1, <1>2 DEF finish_peer, IfPeerAccepts, WithReader
  <1>5. WithReader(a, ReadHead).input = a.input
    <2>1. PICK y : y = [a.cycle EXCEPT !.reader = ReadHead]
      OBVIOUS
    <2>2. WithReader(a, ReadHead) = [a EXCEPT !.cycle = y]
      BY <2>1 DEF WithReader
    <2>3. DOMAIN a = DOMAIN c
      BY <1>2 DEF advance_peer
    <2>4. "input" \in DOMAIN a
      BY <2>3 DEF Connections
    <2> QED BY <2>2, <2>4
  <1> QED BY <1>3, <1>4, <1>5 DEF Polled

(* Is a trailer section parsed?                                             *)
TrailersDue(c, due) == section_due(c, FALSE, due)

(* The connection once a size line is read, with x the extensions counted.  *)
AfterSize(c, x, r) ==
    [[[c EXCEPT !.cycle.chunk_extension_bytes = x] EXCEPT !.input = Skip(@, 2)] EXCEPT !.cycle.reader = r]

(* What reading a size line changes of a connection.                        *)
LEMMA AfterSizeEffect ==
    ASSUME NEW X, NEW c \in Connections(X), NEW x \in Nat, NEW r \in Readers, 2 \in 0..Len(c.input),
           NEW b, b = AfterSize(c, x, r)
    PROVE  /\ b \in Connections(X) /\ b.input = Skip(c.input, 2) /\ b.cycle.reader = r
           /\ b.st = c.st /\ b.role = c.role /\ b.eof = c.eof /\ b.cycle.writer = c.cycle.writer
  <1>1. Skip(c.input, 2) \in Seq(X)
    BY SkipLeavesRest DEF Connections
  <1>2. /\ b \in Connections(X) /\ b.input = Skip(c.input, 2) /\ b.cycle.reader = r
        /\ b.st = c.st /\ b.role = c.role /\ b.eof = c.eof /\ b.cycle.writer = c.cycle.writer
    BY <1>1 DEF Connections, Cycles, AfterSize
  <1> QED BY <1>2

----------------------------------------------------------------------------
(* What accepting a head records, exactly.                                  *)

(* The reader of content of framing f.                                      *)
StartReader(f) == Reader(IF f = Chunked THEN "ChunkSize" ELSE f.kind, f.n)

(* A request whose head h was read: what it leaves the server with.         *)
RequestRead(c, h, f, e) ==
    /\ e.st.client = "SendBody" /\ e.st.server = "SendResponse"
    /\ e.st.keep_alive <=> (c.st.keep_alive /\ persistent(h))
    /\ e.cycle.reader = StartReader(f)
    /\ e.cycle.request_kind = RequestKind(h.method)
    /\ e.cycle.upgrade_proposals = Upgrades(h)
    /\ e.cycle.waiting_for_continue <=> expects_continue(h, f)
    /\ e.cycle.continue_before_upgrade <=> (expects_continue(h, f) /\ Upgrades(h) # {})
    /\ Fixtures(c, e) /\ e.input = c.input

(* A request that may be sent is accepted: accept_request records what      *)
(* send_request recorded.                                                   *)
LEMMA AcceptRequestValue ==
    ASSUME NEW X, NEW c \in Connections(X), Coherent(c), c.role = "server",
           c.st.client = "Idle", c.st.server = "Idle", NEW h \in MessageHeads,
           NEW f, f = RequestFraming(h), Requestable(h, f), NEW p, p = accept_request(c, h)
    PROVE  p.kind = "Request" /\ RequestRead(c, h, f, p.c)
  <1> DEFINE ups == Upgrades(h)
             ev == request_event(h.method, ups)
             s == process_event(c.st, "client", ev)
             a == Advanced(c, s)
             k == NoKeepAliveIf(~persistent(h), a)
             g == record_request(a, h, f, ups)
             r == StartReader(f)
             e == HeadRead(g, h.version, r)
  <1>1. PICK q \in SUBSET SwitchKinds : ev = Request(q)
    BY RequestEventProposals
  <1>2. Accepts(c.st, "client", ev)
    <2> HIDE DEF ev
    <2> QED BY <1>1 DEF Accepts, Request, direct_transition, state, None
  <1>3. p = Polled("Request", e)
    <2>1. peer(c.role) = "client"
      BY DEF peer
    <2> DEFINE F == framing(h, h.version, FALSE)
               G == HeadRead(record_request(a, h, F, ups), h.version,
                             Reader(IF F = Chunked THEN "ChunkSize" ELSE F.kind, F.n))
    <2>2. \/ p = Polled("Err", c) /\ ~(h.valid /\ F # FramingError /\ ~content_forbidden(h.method, F) /\ Accepts(c.st, "client", ev))
          \/ p = Polled("Request", G)
      BY <2>1 DEF accept_request, IfPeerAccepts, PeerAccepts, advance_peer, HeadRead, Advanced
    <2>3. F = f
      BY Zenon DEF RequestFraming
    <2>4. G = e
      <3> HIDE DEF F, a, ups
      <3> QED BY <2>3 DEF StartReader
    <2> HIDE DEF F, G
    <2> HIDE DEF e, ev
    <2> QED BY <1>2, <2>2, <2>3, <2>4 DEF Requestable
  <1>4. /\ Lawful(s) /\ s.client = "SendBody" /\ s.server = "SendResponse"
        /\ s.keep_alive = c.st.keep_alive
    <2> HIDE DEF ev
    <2> QED BY <1>1, <1>2, RequestEffect DEF Coherent
  <1>5. ups \in SUBSET STRING
    BY DEF Upgrades, MessageHeads
  <1> HIDE DEF s, ups, a, g, e, r
  <1>6. a \in Connections(X) /\ a.st = s /\ SameButState(c, a)
    BY <1>4, AdvancedEffect DEF a, Lawful
  <1>7. (~persistent(h)) \in BOOLEAN
    BY DEF persistent
  <1>8. /\ ClientSettles(a.st.client, k.st.client) /\ ServerSettles(a.st.server, k.st.server)
        /\ k.st.keep_alive <=> (a.st.keep_alive /\ ~~persistent(h))
    BY <1>4, <1>6, <1>7, NoKeepAliveEffect, NoKeepAliveExact
  <1>9. /\ g \in Connections(X) /\ g.st = k.st
        /\ g.role = a.role /\ g.lenient = a.lenient /\ g.input = a.input /\ g.held = a.held
        /\ g.eof = a.eof /\ g.cycle.writer = a.cycle.writer
        /\ g.cycle.request_kind = RequestKind(h.method)
        /\ g.cycle.upgrade_proposals = ups
        /\ g.cycle.waiting_for_continue <=> expects_continue(h, f)
        /\ g.cycle.continue_before_upgrade <=> (expects_continue(h, f) /\ ups # {})
    <2> HIDE DEF k
    <2>1. Lawful(a.st)
      BY <1>4, <1>6
    <2> QED BY <1>5, <1>6, <2>1, RecordRequestEffect DEF g, k
  <1> HIDE DEF k
  <1>10. r \in Readers
    <2>1. IsFraming(f, FALSE)
      BY FramingValue DEF RequestFraming, Requestable
    <2> QED BY <2>1, FramingShape DEF r, StartReader
  <1>11. /\ e.st = g.st /\ Fixtures(g, e) /\ e.input = g.input
         /\ e.cycle.reader = r
         /\ e.cycle.request_kind = g.cycle.request_kind
         /\ e.cycle.upgrade_proposals = g.cycle.upgrade_proposals
         /\ e.cycle.waiting_for_continue = g.cycle.waiting_for_continue
         /\ e.cycle.continue_before_upgrade = g.cycle.continue_before_upgrade
    <2>1. h.version \in {10, 11}
      BY DEF MessageHeads
    <2> QED BY <1>9, <1>10, <2>1, HeadReadEffect DEF e
  <1>12. Fixtures(c, e) /\ e.input = c.input
    BY <1>6, <1>9, <1>11 DEF Fixtures, SameButState
  <1>13. e.st.client = "SendBody" /\ e.st.server = "SendResponse"
    BY <1>4, <1>6, <1>8, <1>9, <1>11 DEF ClientSettles, ServerSettles
  <1>14. e.st.keep_alive <=> (c.st.keep_alive /\ persistent(h))
    BY <1>4, <1>6, <1>8, <1>9, <1>11
  <1>15. RequestRead(c, h, f, e)
    BY <1>9, <1>11, <1>12, <1>13, <1>14 DEF RequestRead, r, ups
  <1> QED BY <1>3, <1>15 DEF Polled

(* Whether a response asks for nothing but that the connection persists.    *)
AsksReuse(h, rk) ==
    /\ persistent(h) /\ rk # "CONNECT"
    /\ ~FramingCloses(Bodyless(h.status, rk), ResponseFraming(h))

(* An informational head h that was read.                                   *)
InformationRead(c, h, e) ==
    /\ Fixtures(c, e) /\ e.input = c.input /\ e.cycle.reader = c.cycle.reader
    /\ e.cycle.request_kind = c.cycle.request_kind
    /\ e.cycle.upgrade_proposals = c.cycle.upgrade_proposals
    /\ e.st.keep_alive = c.st.keep_alive
    /\ ClientSettles(c.st.client, e.st.client)
    /\ h.status = 100 => ~e.cycle.waiting_for_continue /\ ~e.cycle.continue_before_upgrade
    /\ h.status # 100 => /\ e.cycle.waiting_for_continue = c.cycle.waiting_for_continue
                         /\ e.cycle.continue_before_upgrade = c.cycle.continue_before_upgrade
    /\ h.status = 101 => e.st.server = "SwitchedProtocol"
    /\ h.status # 101 => e.st = c.st

(* A 100 response ends the wait, and another one changes nothing.           *)
LEMMA RecordInformationalExact ==
    ASSUME NEW X, NEW c \in Connections(X), NEW status, NEW d, d = record_informational(c, status)
    PROVE  /\ status = 100 => ~d.cycle.waiting_for_continue /\ ~d.cycle.continue_before_upgrade
           /\ status # 100 => d = c
  <1>1. CASE status = 100
    BY <1>1 DEF record_informational, Connections, Cycles
  <1>2. CASE status # 100
    BY <1>2 DEF record_informational
  <1> QED BY <1>1, <1>2

(* An informational response that the cycle expects is accepted.            *)
LEMMA AcceptInformationalValue ==
    ASSUME NEW X, NEW c \in Connections(X), Coherent(c), c.role = "client", c.st.server = "SendResponse",
           NEW h \in MessageHeads, HasInformationalEvent(c, h), ResponseFraming(h) # FramingError,
           NEW p, p = accept_informational(c, h)
    PROVE  p.kind = "InformationalResponse" /\ InformationRead(c, h, p.c)
  <1> DEFINE ev == informational_event(h)
             s == process_event(c.st, "server", ev)
             a == Advanced(c, s)
             g == record_informational(a, h.status)
             e == Versioned(g, h.version)
  <1>0. peer(c.role) = "server"
    BY DEF peer
  <1>1. Accepts(c.st, "server", ev)
    <2>1. CASE h.status = 101
      <3>1. ev = ProtocolSwitch("Upgrade")
        BY <2>1 DEF informational_event
      <3>2. c.cycle.upgrade_proposals # {}
        BY <2>1 DEF HasInformationalEvent, valid_upgrade_response
      <3>3. "Upgrade" \in c.st.proposals
        BY <3>2 DEF Coherent, ProposalsMatch
      <3> HIDE DEF ev
      <3> QED BY <3>1, <3>3 DEF Accepts, ProtocolSwitch, direct_transition, state, None
    <2>2. CASE h.status # 101
      <3>1. ev = StateEvent("InformationalResponse")
        BY <2>2 DEF informational_event
      <3> HIDE DEF ev
      <3> QED BY <3>1 DEF Accepts, StateEvent, direct_transition, state, None
    <2> QED BY <2>1, <2>2
  <1>2. p = Polled("InformationalResponse", e)
    <2>1. p = IF ~HasInformationalEvent(c, h) THEN Polled("Err", c)
              ELSE IF Accepts(c.st, "server", ev)
              THEN Polled("InformationalResponse",
                          Versioned(record_informational(NoKeepAliveIf(ResponseFraming(h) = FramingError, a), h.status), h.version))
              ELSE Polled("Err", c)
      BY <1>0, Zenon DEF accept_informational, IfPeerAccepts, PeerAccepts, advance_peer, Advanced, Versioned, ResponseFraming
    <2>2. NoKeepAliveIf(ResponseFraming(h) = FramingError, a) = a
      <3> HIDE DEF a
      <3> QED BY DEF NoKeepAliveIf
    <2> HIDE DEF ev, a
    <2> QED BY <1>1, <2>1, <2>2
  <1>3. /\ Lawful(s) /\ s.keep_alive = c.st.keep_alive /\ ClientSettles(c.st.client, s.client)
        /\ h.status = 101 => s.server = "SwitchedProtocol"
        /\ h.status # 101 => s = c.st
    <2>1. "server" \in Roles /\ "Upgrade" \in SwitchKinds /\ Lawful(c.st)
      BY DEF Roles, SwitchKinds, Coherent
    <2>2. CASE h.status = 101
      <3>1. ev = ProtocolSwitch("Upgrade")
        BY <2>2 DEF informational_event
      <3> HIDE DEF ev
      <3> QED BY <1>1, <2>1, <2>2, <3>1, SwitchEffect
    <2>3. CASE h.status # 101
      <3>1. ev = StateEvent("InformationalResponse")
        BY <2>3 DEF informational_event
      <3> HIDE DEF ev
      <3>2. s = c.st
        BY <1>1, <2>1, <3>1, InformationalEffect
      <3> QED BY <2>1, <2>3, <3>2 DEF ClientSettles
    <2> QED BY <2>2, <2>3
  <1> HIDE DEF s, a, g, e
  <1>4. a \in Connections(X) /\ a.st = s /\ SameButState(c, a)
    BY <1>3, AdvancedEffect DEF a, Lawful
  <1>5. /\ g \in Connections(X) /\ SameMessages(a, g)
        /\ g.cycle.upgrade_proposals = a.cycle.upgrade_proposals
    BY <1>4, RecordInformationalEffect DEF g
  <1>6. /\ h.status = 100 => ~g.cycle.waiting_for_continue /\ ~g.cycle.continue_before_upgrade
        /\ h.status # 100 => g = a
    BY <1>4, RecordInformationalExact DEF g
  <1>7. SameMessages(g, e) /\ e.cycle = g.cycle
    <2>1. h.version \in {10, 11}
      BY DEF MessageHeads
    <2> QED BY <1>5, <2>1, VersionedEffect DEF e
  <1>8. InformationRead(c, h, e)
    BY <1>3, <1>4, <1>5, <1>6, <1>7 DEF InformationRead, SameMessages, SameButState, Fixtures
  <1> QED BY <1>2, <1>8 DEF Polled

(* A final head h that was read.                                            *)
FinalRead(c, h, f, e) ==
    /\ Fixtures(c, e) /\ e.input = c.input
    /\ e.cycle.request_kind = c.cycle.request_kind
    /\ ~e.cycle.waiting_for_continue /\ ~e.cycle.continue_before_upgrade
    /\ ClientSettles(c.st.client, e.st.client)
    /\ opens_tunnel(c, h.status) => e.st.server = "SwitchedProtocol"
    /\ ~opens_tunnel(c, h.status) =>
          /\ e.st.server = "SendBody" /\ e.cycle.reader = StartReader(f)
          /\ e.st.keep_alive <=> (c.st.keep_alive /\ AsksReuse(h, c.cycle.request_kind))

(* The content of a final response for the client c.                        *)
FinalFraming(c, h) == IF response_has_no_body(c, h.status) THEN Fixed(0) ELSE ResponseFraming(h)

(* A final response with a framing is accepted, and calls for the reader of *)
(* its content.                                                             *)
LEMMA AcceptFinalValue ==
    ASSUME NEW X, NEW c \in Connections(X), Coherent(c), c.role = "client", c.st.server = "SendResponse",
           NEW h \in MessageHeads, NEW f, f = FinalFraming(c, h), f # FramingError,
           NEW p, p = accept_final(c, h)
    PROVE  p.kind = "Response" /\ FinalRead(c, h, f, p.c)
  <1> DEFINE ev == final_response_event(c, h.status)
             declared == ResponseFraming(h)
             bodyless == response_has_no_body(c, h.status)
             s == process_event(c.st, "server", ev)
             a == Advanced(c, s)
             k == NoKeepAliveIf(~persistent(h), a)
             g == record_response(k)
             recorded == Versioned(g, h.version)
             closes == FramingCloses(bodyless, declared)
             m == NoKeepAliveIf(closes, recorded)
             r == StartReader(f)
             e == WithReader(m, r)
  <1>0. peer(c.role) = "server"
    BY DEF peer
  <1>1. Accepts(c.st, "server", ev)
    <2>1. CASE opens_tunnel(c, h.status)
      <3>1. ev = ProtocolSwitch("Connect")
        BY <2>1 DEF final_response_event
      <3>2. "Connect" \in c.st.proposals
        BY <2>1 DEF Coherent, ProposalsMatch, opens_tunnel
      <3> HIDE DEF ev
      <3> QED BY <3>1, <3>2 DEF Accepts, ProtocolSwitch, direct_transition, state, None
    <2>2. CASE ~opens_tunnel(c, h.status)
      <3>1. ev = StateEvent("Response")
        BY <2>2 DEF final_response_event
      <3> HIDE DEF ev
      <3> QED BY <3>1 DEF Accepts, StateEvent, direct_transition, state, None
    <2> QED BY <2>1, <2>2
  <1>2. p = Polled("Response", e)
    <2> DEFINE F == IF bodyless THEN Fixed(0) ELSE framing(h, h.version, TRUE)
               D == framing(h, h.version, TRUE)
               E == WithReader(NoKeepAliveIf(FramingCloses(bodyless, D), recorded),
                               Reader(IF F = Chunked THEN "ChunkSize" ELSE F.kind, F.n))
    <2>1. p = IF Accepts(c.st, "server", ev)
              THEN IF F = FramingError THEN Polled("Err", recorded) ELSE Polled("Response", E)
              ELSE Polled("Err", c)
      BY <1>0, Zenon DEF accept_final, IfPeerAccepts, PeerAccepts, advance_peer, Advanced, Versioned,
                         WithReader
    <2>2. F = f /\ D = declared
      BY Zenon DEF FinalFraming, ResponseFraming
    <2> HIDE DEF F, D, recorded, bodyless, declared
    <2>3. E = e
      BY <2>2 DEF StartReader
    <2> HIDE DEF E, e, ev
    <2> QED BY <1>1, <2>1, <2>2, <2>3
  <1>3. /\ Lawful(s) /\ ClientSettles(c.st.client, s.client)
        /\ opens_tunnel(c, h.status) => s.server = "SwitchedProtocol"
        /\ ~opens_tunnel(c, h.status) => s.server = "SendBody"
    <2> HIDE DEF ev
    <2> QED BY <1>1, FinalResponseEvent DEF Coherent, ev
  <1>4. ~opens_tunnel(c, h.status) => (s.keep_alive <=> (c.st.keep_alive /\ c.cycle.request_kind # "CONNECT"))
    <2>1. ~opens_tunnel(c, h.status) => ev = StateEvent("Response")
      BY DEF final_response_event
    <2>2. ("Connect" \in c.st.proposals) <=> (c.cycle.request_kind = "CONNECT")
      BY DEF Coherent, ProposalsMatch
    <2> HIDE DEF ev
    <2> QED BY <2>1, <2>2, ResponseExact DEF Coherent
  <1> HIDE DEF s, a, g, recorded
  <1>5. a \in Connections(X) /\ a.st = s /\ SameButState(c, a)
    BY <1>3, AdvancedEffect DEF a, Lawful
  <1>6. (~persistent(h)) \in BOOLEAN
    BY DEF persistent
  <1>7. /\ k \in Connections(X) /\ Lawful(k.st) /\ SameButState(a, k)
        /\ ClientSettles(a.st.client, k.st.client) /\ ServerSettles(a.st.server, k.st.server)
        /\ k.st.keep_alive <=> (a.st.keep_alive /\ ~~persistent(h))
    BY <1>3, <1>5, <1>6, NoKeepAliveEffect, NoKeepAliveExact
  <1> HIDE DEF k
  <1>8. /\ g \in Connections(X) /\ SameMessages(k, g)
        /\ ~g.cycle.waiting_for_continue /\ ~g.cycle.continue_before_upgrade
    BY <1>7, RecordResponseEffect, RecordResponseExact DEF g
  <1>9. /\ recorded \in Connections(X) /\ SameMessages(g, recorded) /\ recorded.cycle = g.cycle
    <2>1. h.version \in {10, 11}
      BY DEF MessageHeads
    <2> QED BY <1>8, <2>1, VersionedEffect DEF recorded
  <1>10. recorded.st = k.st
    BY <1>8, <1>9 DEF SameMessages
  <1>11. closes \in BOOLEAN
    BY DEF FramingCloses
  <1>12. /\ m \in Connections(X) /\ SameButState(recorded, m)
         /\ ClientSettles(recorded.st.client, m.st.client) /\ ServerSettles(recorded.st.server, m.st.server)
         /\ m.st.keep_alive <=> (recorded.st.keep_alive /\ ~closes)
    <2> HIDE DEF closes
    <2> QED BY <1>7, <1>9, <1>10, <1>11, NoKeepAliveEffect, NoKeepAliveExact
  <1> HIDE DEF m, e
  <1>13. r \in Readers
    <2>1. 0 \in Nat /\ IsFraming(Fixed(0), TRUE)
      BY DEF IsFraming
    <2>2. ResponseFraming(h) # FramingError => IsFraming(ResponseFraming(h), TRUE)
      BY FramingValue DEF ResponseFraming
    <2>3. IsFraming(f, TRUE)
      BY <2>1, <2>2 DEF FinalFraming
    <2> QED BY <2>3, FramingShape DEF StartReader
  <1> HIDE DEF r
  <1>14. /\ e.st = m.st /\ Fixtures(m, e) /\ e.input = m.input
         /\ e.cycle.reader = r
         /\ e.cycle.request_kind = m.cycle.request_kind
         /\ e.cycle.waiting_for_continue = m.cycle.waiting_for_continue
         /\ e.cycle.continue_before_upgrade = m.cycle.continue_before_upgrade
    BY <1>12, <1>13, WithReaderEffect DEF e
  <1>15. /\ Fixtures(c, e) /\ e.input = c.input
         /\ e.cycle.request_kind = c.cycle.request_kind
         /\ ~e.cycle.waiting_for_continue /\ ~e.cycle.continue_before_upgrade
    BY <1>5, <1>7, <1>8, <1>9, <1>12, <1>14 DEF Fixtures, SameButState, SameMessages
  <1>16. ClientSettles(c.st.client, e.st.client)
    BY <1>3, <1>5, <1>7, <1>10, <1>12, <1>14, SettlesOn
  <1>17. /\ opens_tunnel(c, h.status) => e.st.server = "SwitchedProtocol"
         /\ ~opens_tunnel(c, h.status) => e.st.server = "SendBody"
    BY <1>3, <1>5, <1>7, <1>10, <1>12, <1>14 DEF ServerSettles
  <1>18. ~opens_tunnel(c, h.status) => (bodyless <=> Bodyless(h.status, c.cycle.request_kind))
    BY DEF response_has_no_body, Bodyless
  <1>19. ~opens_tunnel(c, h.status) => (closes <=> FramingCloses(Bodyless(h.status, c.cycle.request_kind), declared))
    <2> HIDE DEF bodyless, declared
    <2> QED BY <1>18 DEF FramingCloses
  <1>20. ASSUME ~opens_tunnel(c, h.status)
         PROVE e.st.keep_alive <=> (c.st.keep_alive /\ AsksReuse(h, c.cycle.request_kind))
    <2> HIDE DEF closes
    <2>1. e.st.keep_alive <=> ((c.st.keep_alive /\ c.cycle.request_kind # "CONNECT") /\ persistent(h) /\ ~closes)
      BY <1>4, <1>5, <1>7, <1>10, <1>12, <1>14, <1>20
    <2> QED BY <1>19, <1>20, <2>1 DEF AsksReuse
  <1>21. FinalRead(c, h, f, e)
    <2> HIDE DEF bodyless, closes, declared
    <2> QED BY <1>14, <1>15, <1>16, <1>17, <1>20 DEF FinalRead, r
  <1> QED BY <1>2, <1>21 DEF Polled

(* Whether the head section is due to be parsed.                            *)
HeadDue(c, due) == section_due(c, TRUE, due)

(* The kind of head that the end reads.                                     *)
HeadKind(c) == IF c.role = "server" THEN "request" ELSE "response"

(* What read_head does with the head it has parsed.                         *)
AcceptHead(c, h) == IF c.role = "server" THEN accept_request(c, h) ELSE accept_response(c, h)

----------------------------------------------------------------------------
(* What close changes.                                                      *)

(* What a move of the state machine alone may do to the two actors.         *)
CloseMove(c, e) ==
    /\ OnlyLocal(c, e) /\ Lawful(e.st) /\ SameExchange(c, e)
    /\ e.cycle.waiting_for_continue = c.cycle.waiting_for_continue
    /\ e.cycle.writer = NoFraming /\ e.st.keep_alive = c.st.keep_alive
    /\ local_state(c) \in {"Idle", "Done", "MustClose", "Closed"} /\ local_state(e) = "Closed"
    /\ Settles(peer(c.role), c.st, e.st)

(* What close does to the states: the local end closes and its peer         *)
(* settles.                                                                 *)
LEMMA CloseValue ==
    ASSUME NEW X, NEW c \in Connections(X), Coherent(c), LocalAccepts(c, StateEvent("ConnectionClosed")),
           NEW d, d = close(c)
    PROVE  CloseMove(c, d)
  <1> DEFINE ev == StateEvent("ConnectionClosed")
             s == process_event(c.st, c.role, ev)
             k == Advanced(c, s)
  <1>1. c.role \in Roles /\ Lawful(c.st)
    BY DEF Connections, Coherent
  <1>2. /\ Lawful(s) /\ state(c.st, c.role) \in {"Idle", "Done", "MustClose", "Closed"}
        /\ state(s, c.role) = "Closed"
        /\ Settles(peer(c.role), c.st, s)
        /\ s.keep_alive = c.st.keep_alive /\ KeepsProposals(c.st, s)
    BY <1>1, ClosedEffect DEF LocalAccepts
  <1>3. d = WithWriter(k, NoFraming)
    BY DEF close, advance_local, Advanced, WithWriter
  <1> HIDE DEF s
  <1>4. k \in Connections(X) /\ k.st = s /\ SameButState(c, k)
    BY <1>2, AdvancedEffect DEF Lawful
  <1> HIDE DEF k
  <1>5. NoFraming \in Writers
    BY DEF Writers, NoFraming, None
  <1>6. /\ d \in Connections(X) /\ d.st = k.st /\ OnlyLocal(k, d) /\ d.cycle.writer = NoFraming
        /\ d.cycle.request_kind = k.cycle.request_kind
        /\ d.cycle.upgrade_proposals = k.cycle.upgrade_proposals
        /\ d.cycle.waiting_for_continue = k.cycle.waiting_for_continue
        /\ d.cycle.continue_before_upgrade = k.cycle.continue_before_upgrade
    BY <1>3, <1>4, <1>5, WithWriterEffect
  <1>7. d.st = s /\ OnlyLocal(c, d) /\ SameExchange(c, d)
    BY <1>4, <1>6 DEF OnlyLocal, SameButState, SameExchange
  <1>8. d.cycle.waiting_for_continue = c.cycle.waiting_for_continue /\ d.role = c.role
    BY <1>4, <1>6, <1>7 DEF SameButState, OnlyLocal
  <1> QED BY <1>2, <1>6, <1>7, <1>8 DEF CloseMove, local_state
=============================================================================
