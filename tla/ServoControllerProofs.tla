----------------------- MODULE ServoControllerProofs -----------------------
(***************************************************************************)
(* Theorems about ServoController for every number of connections and      *)
(* addresses, every timeout, sequence range and set of servo vectors: the  *)
(* inductive invariant and what it says of every state; then who controls  *)
(* the servos from step to step (ControlLock is implemented, the action    *)
(* properties hold of every step), and that the telemetry shows who does.  *)
(***************************************************************************)
EXTENDS ServoControllerProperties, Telemetry, TLAPS

(***************************************************************************)
(* What the transition table of ConnectionFsm and the loop of ExecuteEvent *)
(* amount to: the rows that call each callback, and the state each row     *)
(* leads to.  The proofs reason from TableCalls and TableStates and never  *)
(* expand the table again.                                                 *)
(***************************************************************************)

(* A row without callbacks runs none, *)
LEMMA CalledNone ==
    ASSUME NEW a
    PROVE  ~ Called(<<>>, a)
  BY DEF Called

(* a row with one runs that one, *)
LEMMA CalledOne ==
    ASSUME NEW x, NEW a
    PROVE  Called(<<x>>, a) <=> a = x
  BY DEF Called

(* and a row with two runs both, unless the first ends the loop. *)
LEMMA CalledTwo ==
    ASSUME NEW x, NEW y, NEW a, x # TerminateAfterThisAction
    PROVE  Called(<<x, y>>, a) <=> a \in {x, y}
  <1> DEFINE acts == <<x, y>>
  <1>1. DOMAIN acts = {1, 2} /\ acts[1] = x /\ acts[2] = y
    OBVIOUS
  <1>2. \A j \in 1 .. (1 - 1) : acts[j] # TerminateAfterThisAction
    OBVIOUS
  <1>3. \A j \in 1 .. (2 - 1) : acts[j] # TerminateAfterThisAction
    BY <1>1
  <1> HIDE DEF acts
  <1>4. Called(acts, a) <=> a \in {x, y}
    BY <1>1, <1>2, <1>3 DEF Called
  <1>5. QED
    BY <1>4 DEF acts

(* Which rows call which callback, for the table of NewConnectionFsm under
   the loop of ExecuteEvent. *)
LEMMA TableCalls ==
    ASSUME NEW s \in ConnState, NEW e \in ConnEvent
    PROVE  /\ Runs(s, e, "A1_Add") <=> s = "CONN_IDLE" /\ e = "HELLO"
           /\ Runs(s, e, "A2_SetActive") <=> s = "CONN_IDENTIFIED" /\ e = "CDC"
           /\ Runs(s, e, "A3_SetPassive") <=> s \in InControl /\ e = "HELLO"
           /\ Runs(s, e, "A4_Remove") <=>
                \/ s \in Registered /\ e = "INVALID"
                \/ s = "CONN_IDENTIFIED" /\ e = "TIMEOUT"
           /\ Runs(s, e, "A5_Delete") <=>
                \/ s = "CONN_IDLE" /\ e # "HELLO"
                \/ s \in Registered /\ e = "INVALID"
                \/ s = "CONN_IDENTIFIED" /\ e = "TIMEOUT"
           /\ Runs(s, e, "A6_Failsafe") <=> s = "CONN_ACTIVE" /\ e = "TIMEOUT"
  <1> USE CalledNone, CalledOne, CalledTwo
      DEF ConnState, ConnEvent, InControl, Registered, Runs, Transition,
          TerminateAfterThisAction, Row
  <1>1. CASE s = "CONN_IDLE"
    BY <1>1 DEF IdleRow
  <1>2. CASE s = "CONN_IDENTIFIED"
    BY <1>2 DEF IdentifiedRow
  <1>3. CASE s = "CONN_ACTIVE"
    BY <1>3 DEF ActiveRow
  <1>4. CASE s = "CONN_FAILSAFE"
    BY <1>4 DEF FailsafeRow
  <1>5. QED
    BY <1>1, <1>2, <1>3, <1>4

(* The state each row leads to. *)
LEMMA TableStates ==
    ASSUME NEW s \in ConnState, NEW e \in ConnEvent
    PROVE  StateAfter(s, e) =
             IF Runs(s, e, "A5_Delete") THEN "FREED"
             ELSE IF e = "HELLO"        THEN "CONN_IDENTIFIED"
             ELSE IF e = "CDC"          THEN "CONN_ACTIVE"
             ELSE                            "CONN_FAILSAFE"
  <1>1. Runs(s, e, "A5_Delete") <=>
                \/ s = "CONN_IDLE" /\ e # "HELLO"
                \/ s \in Registered /\ e = "INVALID"
                \/ s = "CONN_IDENTIFIED" /\ e = "TIMEOUT"
    BY TableCalls
  <1>2. QED
    BY <1>1 DEF StateAfter, TerminateAfterThisAction, Transition, IdleRow,
                IdentifiedRow, ActiveRow, FailsafeRow, Row, ConnState,
                ConnEvent, Registered
-----------------------------------------------------------------------------
(***************************************************************************)
(* The inductive invariant                                                 *)
(***************************************************************************)

(* A live connection has the address it was created for. *)
LiveHasAddress == \A c \in Conn : state[c] # "FREED" => addr[c] \in Addr

(* The inductive invariant without the servos.  ExclusiveControl needs
   RegistryConsistent (a connection past CONN_IDLE is the one its address
   leads to, so A4 clears the entry of the connection it deletes), and that
   needs LiveHasAddress.  What it says of the registry it says while the
   process is running, which is when the handlers run. *)
ControlInv ==
    /\ TypeOK
    /\ LiveHasAddress
    /\ ExclusiveControl
    /\ RegistryConsistent

IInv == ControlInv /\ FailsafeHeld

(* What the callers of ExecuteEvent guarantee: connection c with source
   address a is in state s, and it is the one its address leads to when it
   is past CONN_IDLE; a hello finds a CONN_IDLE connection only when the
   address leads nowhere; a cdc is passed on only in SYS_IDLE. *)
EventContext(c, a, s, e) ==
    /\ s = StateOnEntry(c)
    /\ s \in Registered => container[a] = c
    /\ s = "CONN_IDLE" /\ e = "HELLO" => container[a] = None
    /\ e = "CDC" => sysState = "SYS_IDLE"
    /\ state[c] # "FREED" => addr[c] = a
-----------------------------------------------------------------------------
(***************************************************************************)
(* Typing of the pieces of a handler                                       *)
(***************************************************************************)

(* The invariant holds when the program has started. *)
LEMMA InitControlInv == Init => IInv
  BY NoneAssumption, SequenceAssumption, TimeoutAssumption
     DEF Init, IInv, ControlInv, TypeOK, LiveHasAddress, ExclusiveControl,
         RegistryConsistent, RegistryAgrees, FailsafeHeld, InControl,
         Registered, SysState, Servo, Sequence

(* At most two addresses are not enough for a node with two children. *)
ThreeAddresses == \E a, b, d \in Addr : a # b /\ b # d /\ a # d

(* What A1 and A4 may do: in a context that its callers guarantee the
   assertion holds, and only a third address makes a key stray. *)
LEMMA RegisterOutcome ==
    ASSUME TypeOK, process = "running",
           NEW c \in Conn, NEW a \in Addr, NEW s \in ConnState,
           NEW e \in ConnEvent,
           EventContext(c, a, s, e), Register(c, a, s, e)
    PROVE  /\ container' \in [Addr -> Conn \cup {None}]
           /\ process' \in {"running", "stray_key"}
           /\ process' = "stray_key" => ThreeAddresses
  <1>1. CASE Runs(s, e, "A1_Add")
    <2>1. container[a] = None
      BY <1>1, TableCalls DEF EventContext
    <2>2. AddConnection(c, a)
      BY <1>1, TableCalls DEF Register, Registered
    <2> QED
      BY <2>1, <2>2 DEF AddConnection, TypeOK
  <1>2. CASE Runs(s, e, "A4_Remove")
    <2>1. RemoveConnection(a)
      BY <1>2, TableCalls DEF Register, Registered
    <2>2. CASE container' = [container EXCEPT ![a] = None] /\ UNCHANGED process
      BY <2>2 DEF TypeOK
    <2>3. CASE \E b \in RegisteredBeside(a) :
                 /\ RegisteredBeside(a) # {b}
                 /\ container' = [container EXCEPT ![a] = container[b], ![b] = None]
                 /\ process' = "stray_key"
      <3>1. PICK b \in RegisteredBeside(a) :
                 /\ RegisteredBeside(a) # {b}
                 /\ container' = [container EXCEPT ![a] = container[b], ![b] = None]
                 /\ process' = "stray_key"
        BY <2>3
      <3>2. PICK d \in RegisteredBeside(a) : d # b
        BY <3>1
      <3>3. ThreeAddresses
        BY <3>1, <3>2 DEF RegisteredBeside, ThreeAddresses
      <3> QED
        BY <3>1, <3>3 DEF RegisteredBeside, TypeOK
    <2> QED
      BY <2>1, <2>2, <2>3 DEF RemoveConnection
  <1>3. CASE ~ Runs(s, e, "A1_Add") /\ ~ Runs(s, e, "A4_Remove")
    BY <1>3 DEF Register, TypeOK
  <1> QED
    BY <1>1, <1>2, <1>3

(* An event keeps the types, registers and removes consistently, and moves
   control only as the table says. *)
LEMMA EventKeepsControlInv ==
    ASSUME ControlInv, process = "running",
           NEW c \in Conn, NEW a \in Addr, NEW s \in ConnState,
           NEW e \in ConnEvent, NEW seq \in Sequence,
           NEW t \in 0 .. MaxTimeout,
           EventContext(c, a, s, e),
           ExecuteEvent(c, a, s, e),
           SetFields(c, a, seq, t),
           servos' \in [Servo -> Nat], failsafe' \in [Servo -> Nat]
    PROVE  ControlInv'
  <1> DEFINE gone == Runs(s, e, "A5_Delete")
  <1>1. state' = [state EXCEPT ![c] = StateAfter(s, e)]
    BY DEF ExecuteEvent
  <1>2. StateAfter(s, e) \in ConnState \cup {"FREED"}
    BY TableStates DEF ConnState
  <1>3. TypeOK'
    <2>1. container' \in [Addr -> Conn \cup {None}]
      BY RegisterOutcome DEF ControlInv, TypeOK, ExecuteEvent
    <2>2. active' \in Conn \cup {None}
      BY DEF ControlInv, TypeOK, ExecuteEvent, ActiveAfter
    <2>3. sysState' \in SysState
      BY DEF ControlInv, TypeOK, ExecuteEvent, SysStateAfter, SysNextState,
             SysState
    <2>4. process' \in {"running", "stray_key", "assert_failed", "out_of_descriptors"}
      BY RegisterOutcome DEF ControlInv, TypeOK, ExecuteEvent
    <2>5. /\ addr' \in [Conn -> Addr \cup {None}]
          /\ lastSequence' \in [Conn -> Sequence]
          /\ timeout' \in [Conn -> 0 .. MaxTimeout]
      BY SequenceAssumption, TimeoutAssumption
         DEF ControlInv, TypeOK, SetFields, Sequence
    <2>6. state' \in [Conn -> ConnState \cup {"FREED"}]
      BY <1>1, <1>2 DEF ControlInv, TypeOK
    <2>7. QED
      BY <2>1, <2>2, <2>3, <2>4, <2>5, <2>6 DEF TypeOK
  <1>4. LiveHasAddress'
    BY <1>1 DEF ControlInv, TypeOK, LiveHasAddress, SetFields
  <1>5. ExclusiveControl'
    <2>1. state[c] \in InControl <=> s \in InControl
      BY DEF EventContext, StateOnEntry, InControl
    <2>2. s \in InControl <=> active = c
      BY <2>1 DEF ControlInv, ExclusiveControl
    <2>3. ASSUME NEW d \in Conn
          PROVE  state'[d] \in InControl <=> active' = d
      <3>1. CASE d # c
        <4>1. state'[d] = state[d]
          BY <1>1, <3>1 DEF ControlInv, TypeOK
        <4>2. state[d] \in InControl <=> active = d
          BY DEF ControlInv, ExclusiveControl
        <4>3. active' = d <=> active = d
          BY <2>2, <3>1, TableCalls, NoneAssumption
             DEF ExecuteEvent, ActiveAfter, EventContext, ControlInv,
                 ExclusiveControl
        <4>4. QED
          BY <4>1, <4>2, <4>3
      <3>2. CASE d = c
        <4>1. state'[c] = StateAfter(s, e)
          BY <1>1 DEF ControlInv, TypeOK
        <4>2. StateAfter(s, e) \in InControl <=> ActiveAfter(c, s, e) = c
          BY <2>2, TableCalls, TableStates, NoneAssumption
             DEF ActiveAfter, InControl, Registered, ConnState, ConnEvent
        <4>3. QED
          BY <3>2, <4>1, <4>2 DEF ExecuteEvent
      <3>3. QED
        BY <3>1, <3>2
    <2>4. sysState' = "SYS_IDLE" => active' = None
      BY <2>2, TableCalls
         DEF ExecuteEvent, ActiveAfter, SysStateAfter, SysNextState,
             ControlInv, ExclusiveControl, TypeOK, SysState
    <2>5. QED
      BY <2>3, <2>4 DEF ExclusiveControl
  <1>6. RegistryConsistent'
    <2> SUFFICES ASSUME process' = "running" PROVE RegistryAgrees'
      BY DEF RegistryConsistent
    <2>1. ASSUME NEW d \in Conn, d # c
          PROVE  state'[d] = state[d] /\ addr'[d] = addr[d]
      BY <1>1, <2>1 DEF ControlInv, TypeOK, SetFields
    <2>2. ASSUME NEW d \in Conn, d # c, state[d] \in Registered
          PROVE  container[addr[d]] = d /\ addr[d] \in Addr
      BY <2>2 DEF ControlInv, RegistryConsistent, RegistryAgrees
    <2>3. state'[c] = StateAfter(s, e)
      BY <1>1 DEF ControlInv, TypeOK
    <2>4. addr'[c] = IF state'[c] = "FREED" THEN None ELSE a
      BY DEF SetFields, ControlInv, TypeOK
    <2>5. state[c] \in Registered => s = state[c] /\ container[a] = c
      BY DEF EventContext, StateOnEntry, Registered
    <2>6. CASE Runs(s, e, "A1_Add")
      <3>1. container[a] = None /\ container' = [container EXCEPT ![a] = c]
        BY <2>6, TableCalls DEF EventContext, ExecuteEvent, Register, AddConnection
      <3>2. state'[c] = "CONN_IDENTIFIED"
        BY <2>3, <2>6, TableCalls, TableStates DEF Registered
      <3>3. state[c] \notin Registered
        BY <2>5, <3>1, NoneAssumption
      <3>4. QED
        BY <2>1, <2>2, <2>4, <3>1, <3>2, <3>3, NoneAssumption
           DEF RegistryConsistent, RegistryAgrees, ControlInv, TypeOK, Registered
    <2>7. CASE Runs(s, e, "A4_Remove")
      <3>1. container[a] = c /\ container' = [container EXCEPT ![a] = None]
        BY <2>7, TableCalls
           DEF EventContext, ExecuteEvent, Register, RemoveConnection, Registered
      <3>2. state'[c] = "FREED"
        BY <2>3, <2>7, TableCalls, TableStates DEF Registered
      <3>3. QED
        BY <2>1, <2>2, <3>1, <3>2, NoneAssumption
           DEF RegistryConsistent, RegistryAgrees, ControlInv, TypeOK, Registered
    <2>8. CASE ~ Runs(s, e, "A1_Add") /\ ~ Runs(s, e, "A4_Remove")
      <3>1. container' = container
        BY <2>8 DEF ExecuteEvent, Register
      <3>2. state'[c] \in Registered <=> state[c] \in Registered
        BY <2>3, <2>8, TableCalls, TableStates
           DEF Registered, InControl, EventContext, StateOnEntry, ConnEvent,
               ConnState
      <3>3. state[c] \in Registered => addr'[c] = addr[c]
        BY <2>4, <3>2 DEF EventContext, Registered
      <3>4. QED
        BY <2>1, <2>2, <3>1, <3>2, <3>3, NoneAssumption
           DEF RegistryConsistent, RegistryAgrees, ControlInv, TypeOK
    <2>9. QED
      BY <2>6, <2>7, <2>8
  <1>7. QED
    BY <1>3, <1>4, <1>5, <1>6 DEF ControlInv

(* A handler that raises no event leaves control and registry alone. *)
LEMMA NoEventKeepsControlInv ==
    ASSUME ControlInv, process = "running",
           NEW c \in Conn, NEW a \in Addr,
           NEW seq \in Sequence, NEW t \in 0 .. MaxTimeout,
           Handles(c, a),
           NoEvent(c, StateOnEntry(c)),
           SetFields(c, a, seq, t),
           servos' \in [Servo -> Nat], failsafe' \in [Servo -> Nat]
    PROVE  ControlInv'
  <1>1. /\ state' = [state EXCEPT ![c] = StateOnEntry(c)]
        /\ container' = container /\ active' = active
        /\ sysState' = sysState /\ process' = process
    BY DEF NoEvent, controlVars
  <1>2. StateOnEntry(c) \in ConnState
    BY DEF StateOnEntry, ControlInv, TypeOK, ConnState
  <1>3. addr' = [addr EXCEPT ![c] = a]
    BY <1>1, <1>2 DEF SetFields, ControlInv, TypeOK, ConnState
  <1>4. TypeOK'
    BY <1>1, <1>2, <1>3, SequenceAssumption, TimeoutAssumption
       DEF ControlInv, TypeOK, SetFields, Sequence
  <1>5. LiveHasAddress'
    BY <1>1, <1>3 DEF ControlInv, TypeOK, LiveHasAddress
  <1>6. \A d \in Conn : state'[d] \in Registered => state'[d] = state[d]
    BY <1>1 DEF ControlInv, TypeOK, StateOnEntry, Registered
  <1>7. \A d \in Conn : state[d] \in Registered => state'[d] = state[d]
    BY <1>1 DEF ControlInv, TypeOK, StateOnEntry, Registered
  <1>8. ExclusiveControl'
    BY <1>1, <1>6, <1>7
       DEF ControlInv, ExclusiveControl, InControl, Registered
  <1>9. \A d \in Conn : state[d] \in Registered => addr'[d] = addr[d]
    BY <1>3, NoneAssumption
       DEF ControlInv, TypeOK, Handles, RegistryConsistent, RegistryAgrees,
           Registered
  <1>10. RegistryConsistent'
    BY <1>1, <1>6, <1>7, <1>9
       DEF ControlInv, RegistryConsistent, RegistryAgrees, TypeOK
  <1>11. QED
    BY <1>4, <1>5, <1>8, <1>10 DEF ControlInv

(* Dispatch by address establishes the context of an event. *)
LEMMA DispatchEstablishesContext ==
    ASSUME ControlInv, process = "running",
           NEW c \in Conn, NEW a \in Addr, NEW e \in ConnEvent,
           Handles(c, a),
           e = "CDC" => sysState = "SYS_IDLE"
    PROVE  /\ EventContext(c, a, StateOnEntry(c), e)
           /\ StateOnEntry(c) \in ConnState
  BY NoneAssumption
     DEF ControlInv, TypeOK, EventContext, StateOnEntry, Handles, ConnState,
         RegistryConsistent, RegistryAgrees, Registered

(* So does the timer of a connection. *)
LEMMA TimerEstablishesContext ==
    ASSUME ControlInv, process = "running", NEW c \in Conn, state[c] # "FREED"
    PROVE  /\ EventContext(c, addr[c], state[c], "TIMEOUT")
           /\ state[c] \in ConnState
           /\ addr[c] \in Addr
  BY DEF ControlInv, TypeOK, EventContext, StateOnEntry, ConnState,
         RegistryConsistent, RegistryAgrees, LiveHasAddress, Registered

(* An event other than a cdc keeps the servos at failsafe. *)
LEMMA EventKeepsFailsafeHeld ==
    ASSUME IInv, ControlInv',
           NEW c \in Conn, NEW a \in Addr, NEW s \in ConnState,
           NEW e \in ConnEvent \ {"CDC"},
           EventContext(c, a, s, e),
           ExecuteEvent(c, a, s, e),
           servos' = ServosAfter(s, e), failsafe' = failsafe
    PROVE  FailsafeHeld'
  <1> SUFFICES ASSUME NEW d \in Conn, state'[d] = "CONN_FAILSAFE"
               PROVE  servos' = failsafe'
    BY DEF FailsafeHeld
  <1>1. state' = [state EXCEPT ![c] = StateAfter(s, e)]
    BY DEF ExecuteEvent
  <1>2. CASE d = c
    <2>1. StateAfter(s, e) = "CONN_FAILSAFE"
      BY <1>1, <1>2 DEF IInv, ControlInv, TypeOK
    <2>2. e = "TIMEOUT" /\ s \in InControl
      BY <2>1, TableCalls, TableStates
         DEF ConnState, ConnEvent, InControl, Registered
    <2>3. CASE s = "CONN_ACTIVE"
      BY <2>2, <2>3, TableCalls DEF ServosAfter
    <2>4. CASE s = "CONN_FAILSAFE"
      <3>1. state[c] = "CONN_FAILSAFE"
        BY <2>4 DEF EventContext, StateOnEntry
      <3>2. servos' = servos
        BY <2>4, TableCalls DEF ServosAfter
      <3>3. QED
        BY <3>1, <3>2 DEF IInv, FailsafeHeld
    <2>5. QED
      BY <2>2, <2>3, <2>4 DEF InControl
  <1>3. CASE d # c
    <2>1. state[d] = "CONN_FAILSAFE"
      BY <1>1, <1>3 DEF IInv, ControlInv, TypeOK
    <2>2. active = d /\ s \notin InControl
      BY <1>3, <2>1
         DEF IInv, ControlInv, ExclusiveControl, InControl, EventContext,
             StateOnEntry
    <2>3. servos' = servos
      BY <2>2, TableCalls DEF ServosAfter, InControl
    <2>4. QED
      BY <2>1, <2>3 DEF IInv, FailsafeHeld
  <1>4. QED
    BY <1>2, <1>3

(* A handler that raises no event and does not move the servos. *)
LEMMA NoEventKeepsFailsafeHeld ==
    ASSUME IInv,
           NEW c \in Conn, NoEvent(c, StateOnEntry(c)),
           servos' = servos, failsafe' = failsafe
    PROVE  FailsafeHeld'
  <1>1. \A d \in Conn : state'[d] = "CONN_FAILSAFE" => state[d] = "CONN_FAILSAFE"
    BY DEF NoEvent, StateOnEntry, IInv, ControlInv, TypeOK
  <1>2. QED
    BY <1>1 DEF IInv, FailsafeHeld
-----------------------------------------------------------------------------
(***************************************************************************)
(* The actions                                                             *)
(***************************************************************************)

(* What a cdc puts out has the types of the servos. *)
LEMMA ServosAfterType ==
    ASSUME TypeOK, NEW s, NEW e
    PROVE  ServosAfter(s, e) \in [Servo -> Nat]
  BY DEF TypeOK, ServosAfter

(* What the driver puts out and stores has the types of the servos. *)
LEMMA DriverTypes ==
    ASSUME TypeOK, NEW v \in Vectors
    PROVE  /\ SetServos(v) \in [Servo -> Nat]
           /\ StoreFailsafePosition(v) \in [Servo -> Nat]
  <1>1. v \in Seq(Nat)
    BY VectorsAssumption
  <1>2. \A s \in Servo : s <= Len(v) => v[s] \in Nat
    BY <1>1, ServosAssumption DEF Servo
  <1>3. QED
    BY <1>2 DEF TypeOK, SetServos, StoreFailsafePosition

(* A datagram that is rejected keeps the invariant, *)
LEMMA RejectKeepsIInv ==
    ASSUME IInv, process = "running", NEW a \in Addr, NEW c \in Conn,
           Handles(c, a), Reject(a, c)
    PROVE  IInv'
  <1> DEFINE s == StateOnEntry(c)
  <1>1. EventContext(c, a, s, "INVALID") /\ s \in ConnState
    BY DispatchEstablishesContext DEF IInv, ConnEvent
  <1>2. /\ ExecuteEvent(c, a, s, "INVALID")
        /\ SetFields(c, a, lastSequence[c], timeout[c])
        /\ servos' = ServosAfter(s, "INVALID")
        /\ failsafe' = failsafe
    BY DEF Reject
  <1>3. lastSequence[c] \in Sequence /\ timeout[c] \in 0 .. MaxTimeout
    BY DEF IInv, ControlInv, TypeOK
  <1>4. servos' \in [Servo -> Nat] /\ failsafe' \in [Servo -> Nat]
    BY <1>2, ServosAfterType DEF IInv, ControlInv, TypeOK
  <1> HIDE DEF s
  <1>5. ControlInv'
    BY <1>1, <1>2, <1>3, <1>4, EventKeepsControlInv DEF IInv, ConnEvent
  <1>6. FailsafeHeld'
    BY <1>1, <1>2, <1>5, EventKeepsFailsafeHeld DEF ConnEvent
  <1>7. QED
    BY <1>5, <1>6 DEF IInv

(* so does a hello, *)
LEMMA HelloKeepsIInv ==
    ASSUME IInv, process = "running", NEW a \in Addr, NEW c \in Conn, NEW seq \in Sequence,
           RxHello(a, c, seq)
    PROVE  IInv'
  <1> DEFINE s == StateOnEntry(c)
  <1>1. EventContext(c, a, s, "HELLO") /\ s \in ConnState
    BY DispatchEstablishesContext DEF IInv, ConnEvent, RxHello
  <1>2. /\ ExecuteEvent(c, a, s, "HELLO")
        /\ SetFields(c, a, seq, 0)
        /\ servos' = ServosAfter(s, "HELLO")
        /\ failsafe' = failsafe
    BY DEF RxHello
  <1>3. 0 \in 0 .. MaxTimeout
    BY TimeoutAssumption
  <1>4. servos' \in [Servo -> Nat] /\ failsafe' \in [Servo -> Nat]
    BY <1>2, ServosAfterType DEF IInv, ControlInv, TypeOK
  <1> HIDE DEF s
  <1>5. ControlInv'
    BY <1>1, <1>2, <1>3, <1>4, EventKeepsControlInv DEF IInv, ConnEvent
  <1>6. FailsafeHeld'
    BY <1>1, <1>2, <1>5, EventKeepsFailsafeHeld DEF ConnEvent
  <1>7. QED
    BY <1>5, <1>6 DEF IInv

(* so does a cdc, *)
LEMMA CdcKeepsIInv ==
    ASSUME IInv, process = "running", NEW a \in Addr, NEW c \in Conn, NEW seq \in Sequence,
           NEW channels \in Vectors, NEW fs \in Vectors,
           RxCdc(a, c, seq, channels, fs)
    PROVE  IInv'
  <1> DEFINE s == StateOnEntry(c)
  <1>1. Handles(c, a) /\ SetFields(c, a, seq, 0)
    BY DEF RxCdc, CdcReachesFsm, MovesServos
  <1>2. 0 \in 0 .. MaxTimeout
    BY TimeoutAssumption
  <1>3. servos' \in [Servo -> Nat] /\ failsafe' \in [Servo -> Nat]
    BY DriverTypes DEF RxCdc, CdcReachesFsm, MovesServos, IInv, ControlInv, TypeOK
  <1>4. CASE sysState = "SYS_IDLE"
    <2>1. EventContext(c, a, s, "CDC") /\ s \in ConnState
      BY <1>1, <1>4, DispatchEstablishesContext DEF IInv, ConnEvent
    <2>2. ExecuteEvent(c, a, s, "CDC")
      BY <1>4 DEF RxCdc, CdcReachesFsm, MovesServos
    <2> HIDE DEF s
    <2>3. ControlInv'
      BY <1>1, <1>2, <1>3, <2>1, <2>2, EventKeepsControlInv
         DEF IInv, ConnEvent
    <2>4. \A d \in Conn : state[d] \notin InControl
      BY <1>4, NoneAssumption DEF IInv, ControlInv, ExclusiveControl
    <2>5. StateAfter(s, "CDC") # "CONN_FAILSAFE"
      BY <2>1, TableStates DEF ConnEvent
    <2>6. \A d \in Conn : state'[d] # "CONN_FAILSAFE"
      BY <2>2, <2>4, <2>5 DEF ExecuteEvent, IInv, ControlInv, TypeOK, InControl
    <2>7. QED
      BY <2>3, <2>6 DEF IInv, FailsafeHeld
  <1>5. CASE sysState # "SYS_IDLE"
    <2>1. NoEvent(c, s)
      BY <1>5 DEF RxCdc, CdcReachesFsm, MovesServos
    <2>2. ControlInv'
      BY <1>1, <1>2, <1>3, <2>1, NoEventKeepsControlInv DEF IInv
    <2>3. CASE state'[c] = "CONN_ACTIVE"
      <3>1. \A d \in Conn : state'[d] # "CONN_FAILSAFE"
        BY <2>2, <2>3 DEF ControlInv, ExclusiveControl, InControl
      <3>2. QED
        BY <2>2, <3>1 DEF IInv, FailsafeHeld
    <2>4. CASE state'[c] # "CONN_ACTIVE"
      <3>1. servos' = servos /\ failsafe' = failsafe
        BY <2>4 DEF RxCdc, CdcReachesFsm, MovesServos
      <3>2. FailsafeHeld'
        BY <2>1, <3>1, NoEventKeepsFailsafeHeld
      <3>3. QED
        BY <2>2, <3>2 DEF IInv
    <2>5. QED
      BY <2>3, <2>4
  <1>6. QED
    BY <1>4, <1>5

(* An unparsable datagram, and an unknown command. *)
LEMMA IgnoredKeepsIInv ==
    ASSUME IInv, process = "running", NEW a \in Addr, NEW c \in Conn,
           NEW seq \in Sequence, NEW t \in 0 .. MaxTimeout,
           Handles(c, a), NoEvent(c, StateOnEntry(c)),
           SetFields(c, a, seq, t), servos' = servos, failsafe' = failsafe
    PROVE  IInv'
  <1>1. servos' \in [Servo -> Nat] /\ failsafe' \in [Servo -> Nat]
    BY DEF IInv, ControlInv, TypeOK
  <1>2. ControlInv'
    BY <1>1, NoEventKeepsControlInv DEF IInv
  <1>3. FailsafeHeld'
    BY NoEventKeepsFailsafeHeld
  <1>4. QED
    BY <1>2, <1>3 DEF IInv

(* so does a tick of a connection's timer, *)
LEMMA TickKeepsIInv ==
    ASSUME IInv, process = "running", NEW c \in Conn, TimerTick(c)
    PROVE  IInv'
  <1> DEFINE a == addr[c]
             s == state[c]
  <1>1. CASE timeout[c] = MaxTimeout
    <2>1. /\ EventContext(c, a, s, "TIMEOUT")
          /\ s \in ConnState /\ a \in Addr
      BY TimerEstablishesContext DEF IInv, TimerTick
    <2>2. /\ ExecuteEvent(c, a, s, "TIMEOUT")
          /\ SetFields(c, a, lastSequence[c], timeout[c])
          /\ servos' = ServosAfter(s, "TIMEOUT")
          /\ failsafe' = failsafe
      BY <1>1 DEF TimerTick, Expired
    <2>3. lastSequence[c] \in Sequence /\ timeout[c] \in 0 .. MaxTimeout
      BY DEF IInv, ControlInv, TypeOK
    <2>4. servos' \in [Servo -> Nat] /\ failsafe' \in [Servo -> Nat]
      BY <2>2, ServosAfterType DEF IInv, ControlInv, TypeOK
    <2> HIDE DEF a, s
    <2>5. ControlInv'
      BY <2>1, <2>2, <2>3, <2>4, EventKeepsControlInv DEF IInv, ConnEvent
    <2>6. FailsafeHeld'
      BY <2>1, <2>2, <2>5, EventKeepsFailsafeHeld DEF ConnEvent
    <2>7. QED
      BY <2>5, <2>6 DEF IInv
  <1>2. CASE timeout[c] # MaxTimeout
    <2>1. timeout' \in [Conn -> 0 .. MaxTimeout]
      BY <1>2, TimeoutAssumption DEF TimerTick, Expired, IInv, ControlInv, TypeOK
    <2>2. UNCHANGED <<state, addr, lastSequence, container, active, sysState,
                      servos, failsafe, process>>
      BY <1>2 DEF TimerTick, Expired, controlVars
    <2>3. QED
      BY <2>1, <2>2
         DEF IInv, ControlInv, TypeOK, LiveHasAddress, ExclusiveControl,
             RegistryConsistent, RegistryAgrees, FailsafeHeld
  <1>3. QED
    BY <1>1, <1>2
-----------------------------------------------------------------------------
(***************************************************************************)
(* The invariant                                                           *)
(***************************************************************************)

(* and so does every step. *)
LEMMA StepKeepsIInv == IInv /\ [Next]_vars => IInv'
  <1> SUFFICES ASSUME IInv, [Next]_vars
               PROVE  IInv'
    OBVIOUS
  <1>1. ASSUME NEW a \in Addr, Receive(a)
        PROVE  IInv'
    <2>0. process = "running"
      BY <1>1 DEF Receive
    <2>1. CASE RxOutOfDescriptors(a)
      BY <2>1 DEF RxOutOfDescriptors, connVars, controlVars, IInv, ControlInv,
                  TypeOK, LiveHasAddress, ExclusiveControl,
                  RegistryConsistent, FailsafeHeld
    <2>2. ASSUME NEW c \in Conn, RxUnparsable(a, c)
          PROVE  IInv'
      BY <2>0, <2>2, IgnoredKeepsIInv DEF RxUnparsable, IInv, ControlInv, TypeOK
    <2>3. ASSUME NEW c \in Conn, RxMalformed(a, c)
          PROVE  IInv'
      BY <2>0, <2>3, RejectKeepsIInv DEF RxMalformed
    <2>4. ASSUME NEW c \in Conn, NEW seq \in Sequence,
                 RxStaleSequence(a, c, seq)
          PROVE  IInv'
      BY <2>0, <2>4, RejectKeepsIInv DEF RxStaleSequence
    <2>5. ASSUME NEW c \in Conn, NEW seq \in Sequence,
                 RxNoCommand(a, c, seq)
          PROVE  IInv'
      BY <2>0, <2>5, RejectKeepsIInv DEF RxNoCommand
    <2>6. ASSUME NEW c \in Conn, NEW seq \in Sequence, RxHello(a, c, seq)
          PROVE  IInv'
      BY <2>0, <2>6, HelloKeepsIInv
    <2>7. ASSUME NEW c \in Conn, NEW seq \in Sequence,
                 RxUnknownCommand(a, c, seq)
          PROVE  IInv'
      <3>1. 0 \in 0 .. MaxTimeout
        BY TimeoutAssumption
      <3>2. QED
        BY <2>0, <2>7, <3>1, IgnoredKeepsIInv DEF RxUnknownCommand
    <2>8. ASSUME NEW c \in Conn, NEW seq \in Sequence,
                 NEW channels \in Vectors, NEW fs \in Vectors,
                 RxCdc(a, c, seq, channels, fs)
          PROVE  IInv'
      BY <2>0, <2>8, CdcKeepsIInv
    <2>9. QED
      BY <1>1, <2>1, <2>2, <2>3, <2>4, <2>5, <2>6, <2>7, <2>8
         DEF Receive, ReceiveFrom
  <1>2. ASSUME NEW c \in Conn, Tick(c)
        PROVE  IInv'
    BY <1>2, TickKeepsIInv DEF Tick
  <1>3. ASSUME NEW c \in Conn, StrayKeyIsFound(c)
        PROVE  IInv'
    BY <1>3 DEF StrayKeyIsFound, connVars, controlVars, IInv, ControlInv,
                TypeOK, LiveHasAddress, ExclusiveControl,
                RegistryConsistent, FailsafeHeld
  <1>4. CASE UNCHANGED vars
    BY <1>4 DEF vars, connVars, controlVars, IInv, ControlInv, TypeOK,
                LiveHasAddress, ExclusiveControl, RegistryConsistent,
                RegistryAgrees, FailsafeHeld
  <1>5. QED
    BY <1>1, <1>2, <1>3, <1>4 DEF Next

(* The inductive invariant holds of every state of the program. *)
THEOREM Invariance == Spec => []IInv
  <1>1. Init => IInv
    BY InitControlInv
  <1>2. IInv /\ [Next]_vars => IInv'
    BY StepKeepsIInv
  <1>3. QED
    BY <1>1, <1>2, PTL DEF Spec

(* Every variable keeps its type: no counter leaves its range. *)
THEOREM TypeCorrectness == Spec => []TypeOK
  <1>1. IInv => TypeOK
    BY DEF IInv, ControlInv
  <1>2. QED
    BY <1>1, Invariance, PTL

(* At most one connection is in control, and the three records agree. *)
THEOREM ControlIsExclusive == Spec => []ExclusiveControl
  <1>1. IInv => ExclusiveControl
    BY DEF IInv, ControlInv
  <1>2. QED
    BY <1>1, Invariance, PTL

(* The container and the connection FSMs agree on who is registered, until
   the tree loses a node with two children. *)
THEOREM RegistryIsConsistent == Spec => []RegistryConsistent
  <1>1. IInv => RegistryConsistent
    BY DEF IInv, ControlInv
  <1>2. QED
    BY <1>1, Invariance, PTL

(* In CONN_FAILSAFE the servos are held at the failsafe positions. *)
THEOREM FailsafeIsHeld == Spec => []FailsafeHeld
  <1>1. IInv => FailsafeHeld
    BY DEF IInv
  <1>2. QED
    BY <1>1, Invariance, PTL
-----------------------------------------------------------------------------
(***************************************************************************)
(* The assertion of ConnectionContainerAddConnection                       *)
(***************************************************************************)

(* How a step changes whether the process runs. *)
Outcome ==
    /\ process' # "assert_failed"
    /\ process' = "stray_key" => ThreeAddresses

(* The assertion holds at every event, *)
LEMMA EventOutcome ==
    ASSUME IInv, process = "running",
           NEW c \in Conn, NEW a \in Addr, NEW s \in ConnState,
           NEW e \in ConnEvent,
           EventContext(c, a, s, e), ExecuteEvent(c, a, s, e)
    PROVE  Outcome
  <1>1. Register(c, a, s, e) /\ TypeOK
    BY DEF ExecuteEvent, IInv, ControlInv
  <1> QED
    BY <1>1, RegisterOutcome DEF Outcome

(* in every handler of a datagram, *)
LEMMA ReceiveOutcome ==
    ASSUME IInv, process = "running", NEW a \in Addr, ReceiveFrom(a)
    PROVE  Outcome
  <1>1. CASE RxOutOfDescriptors(a)
    BY <1>1 DEF RxOutOfDescriptors, Outcome
  <1>2. ASSUME NEW c \in Conn, NoEvent(c, StateOnEntry(c)) PROVE Outcome
    BY <1>2 DEF NoEvent, Outcome
  <1>3. ASSUME NEW c \in Conn, Handles(c, a), NEW e \in ConnEvent,
               e = "CDC" => sysState = "SYS_IDLE",
               ExecuteEvent(c, a, StateOnEntry(c), e)
        PROVE  Outcome
    <2>1. EventContext(c, a, StateOnEntry(c), e) /\ StateOnEntry(c) \in ConnState
      BY <1>3, DispatchEstablishesContext DEF IInv
    <2> QED
      BY <1>3, <2>1, EventOutcome
  <1>4. ASSUME NEW c \in Conn, Handles(c, a), Reject(a, c) PROVE Outcome
    BY <1>3, <1>4 DEF Reject, ConnEvent
  <1>5. ASSUME NEW c \in Conn, RxUnparsable(a, c) \/ RxMalformed(a, c)
        PROVE  Outcome
    BY <1>2, <1>4, <1>5 DEF RxUnparsable, RxMalformed
  <1>6. ASSUME NEW c \in Conn, NEW seq \in Sequence,
               \/ RxStaleSequence(a, c, seq)
               \/ RxNoCommand(a, c, seq)
               \/ RxUnknownCommand(a, c, seq)
        PROVE  Outcome
    BY <1>2, <1>4, <1>6 DEF RxStaleSequence, RxNoCommand, RxUnknownCommand
  <1>7. ASSUME NEW c \in Conn, NEW seq \in Sequence, RxHello(a, c, seq)
        PROVE  Outcome
    BY <1>3, <1>7 DEF RxHello, ConnEvent
  <1>8. ASSUME NEW c \in Conn, NEW seq \in Sequence,
               NEW channels \in Vectors, NEW fs \in Vectors,
               RxCdc(a, c, seq, channels, fs)
        PROVE  Outcome
    BY <1>2, <1>3, <1>8 DEF RxCdc, CdcReachesFsm, MovesServos, ConnEvent
  <1> QED
    BY <1>1, <1>5, <1>6, <1>7, <1>8 DEF ReceiveFrom

(* and in every step of the running process. *)
LEMMA StepOutcome ==
    ASSUME IInv, process = "running", [Next]_vars
    PROVE  Outcome
  <1>1. ASSUME NEW a \in Addr, Receive(a) PROVE Outcome
    BY <1>1, ReceiveOutcome DEF Receive
  <1>2. ASSUME NEW c \in Conn, Tick(c) PROVE Outcome
    <2>1. TimerTick(c) /\ state[c] # "FREED"
      BY <1>2 DEF Tick, TimerTick
    <2>2. CASE Expired(c)
      <3>1. /\ EventContext(c, addr[c], state[c], "TIMEOUT")
            /\ state[c] \in ConnState /\ addr[c] \in Addr
        BY <2>1, TimerEstablishesContext DEF IInv
      <3>2. ExecuteEvent(c, addr[c], state[c], "TIMEOUT")
        BY <2>1, <2>2 DEF TimerTick
      <3> QED
        BY <3>1, <3>2, EventOutcome DEF ConnEvent
    <2>3. CASE ~ Expired(c)
      BY <2>1, <2>3 DEF TimerTick, Outcome
    <2> QED
      BY <2>2, <2>3
  <1>3. ASSUME NEW c \in Conn, StrayKeyIsFound(c) PROVE Outcome
    BY <1>3 DEF StrayKeyIsFound
  <1>4. CASE UNCHANGED vars
    BY <1>4 DEF vars, Outcome
  <1> QED
    BY <1>1, <1>2, <1>3, <1>4 DEF Next

(* The assertion fails in no step of a process whose tree has no stray key,
   whatever number of connections of one address are alive. *)
THEOREM AssertionHoldsUntilStray == Spec => AssertionNeedsStrayKey
  <1>1. IInv /\ [Next]_vars =>
          [process = "running" => process' # "assert_failed"]_vars
    BY StepOutcome DEF Outcome
  <1> QED
    BY <1>1, Invariance, PTL DEF Spec, AssertionNeedsStrayKey

(* With clients at no more than two addresses it never fails. *)
THEOREM TwoClientsKeepTheAssertion ==
    ASSUME \A a, b, d \in Addr : a = b \/ b = d \/ a = d
    PROVE  Spec => []NoAssertionFails
  <1> DEFINE Inv == process \notin {"stray_key", "assert_failed"}
  <1>1. ~ ThreeAddresses
    BY DEF ThreeAddresses
  <1>2. Init => Inv
    BY DEF Init
  <1>3. IInv /\ Inv /\ [Next]_vars => Inv'
    <2> SUFFICES ASSUME IInv, Inv, [Next]_vars PROVE Inv'
      OBVIOUS
    <2>1. CASE process = "running"
      BY <1>1, <2>1, StepOutcome DEF Outcome
    <2>2. CASE process # "running"
      BY <2>2 DEF Next, Receive, Tick, StrayKeyIsFound, vars
    <2> QED
      BY <2>1, <2>2
  <1>4. Inv => NoAssertionFails
    BY DEF NoAssertionFails
  <1> HIDE DEF Inv
  <1> QED
    BY <1>2, <1>3, <1>4, Invariance, PTL DEF Spec
-----------------------------------------------------------------------------
(***************************************************************************)
(* The abstract lock                                                       *)
(***************************************************************************)

(* Nothing the abstract lock sees has changed. *)
LEMMA LockStutters ==
    ASSUME active' = active, sysState' = sysState,
           servos' = servos, failsafe' = failsafe,
           active # None => /\ state'[active] = state[active]
                            /\ addr'[active] = addr[active]
    PROVE  UNCHANGED Lock!vars
  BY DEF Lock!vars, LockMode

(* An event other than a cdc releases the lock, loses it, turns it to
   failsafe or leaves it alone. *)
LEMMA EventImplementsLock ==
    ASSUME IInv,
           NEW c \in Conn, NEW a \in Addr, NEW s \in ConnState,
           NEW e \in ConnEvent \ {"CDC"}, NEW seq, NEW t,
           EventContext(c, a, s, e),
           ExecuteEvent(c, a, s, e),
           SetFields(c, a, seq, t),
           servos' = ServosAfter(s, e), failsafe' = failsafe
    PROVE  [Lock!Next]_(Lock!vars)
  <1>1. /\ state' = [state EXCEPT ![c] = StateAfter(s, e)]
        /\ active' = ActiveAfter(c, s, e)
        /\ sysState' = SysStateAfter(s, e)
    BY DEF ExecuteEvent
  <1>2. s \in InControl <=> active = c
    BY DEF EventContext, StateOnEntry, InControl, IInv, ControlInv,
           ExclusiveControl
  <1>3. s \in InControl => s = state[c] /\ addr[c] = a
    BY DEF EventContext, StateOnEntry, InControl
  <1>4. active # None => sysState = "SYS_CONTROLLING"
    BY DEF IInv, ControlInv, TypeOK, ExclusiveControl, SysState
  <1>5. \A d \in Conn \ {c} : state'[d] = state[d] /\ addr'[d] = addr[d]
    BY <1>1 DEF SetFields, IInv, ControlInv, TypeOK
  <1>6. state'[c] = StateAfter(s, e)
    BY <1>1 DEF IInv, ControlInv, TypeOK
  <1>7. CASE s \notin InControl
    <2>1. active' = active /\ sysState' = sysState /\ servos' = servos
      BY <1>1, <1>2, <1>7, TableCalls
         DEF ActiveAfter, SysStateAfter, ServosAfter, InControl
    <2>2. active # None => active \in Conn \ {c}
      BY <1>2, <1>7 DEF IInv, ControlInv, TypeOK
    <2>3. QED
      BY <1>5, <2>1, <2>2, LockStutters
  <1>8. CASE s \in InControl /\ e = "HELLO"
    <2>1. active' = None /\ sysState' = "SYS_IDLE" /\ servos' = servos
      BY <1>1, <1>2, <1>4, <1>8, TableCalls, NoneAssumption
         DEF ActiveAfter, SysStateAfter, ServosAfter, SysNextState, InControl,
             ConnEvent
    <2>2. Lock!Release
      BY <1>2, <1>4, <1>8, <2>1, NoneAssumption
         DEF Lock!Release, Lock!Held, LockMode
    <2>3. QED
      BY <2>2 DEF Lock!Next
  <1>9. CASE s \in InControl /\ e = "INVALID"
    <2>1. active' = None /\ sysState' = sysState /\ servos' = servos
      BY <1>1, <1>2, <1>9, TableCalls
         DEF ActiveAfter, SysStateAfter, ServosAfter, InControl, Registered,
             ConnEvent
    <2>2. Lock!Lose
      BY <1>2, <1>4, <1>9, <2>1, NoneAssumption
         DEF Lock!Lose, Lock!Held, LockMode
    <2>3. QED
      BY <2>2 DEF Lock!Next
  <1>10. CASE s = "CONN_ACTIVE" /\ e = "TIMEOUT"
    <2>1. active' = active /\ sysState' = sysState /\ servos' = failsafe
      BY <1>1, <1>10, TableCalls
         DEF ActiveAfter, SysStateAfter, ServosAfter, InControl, Registered,
             ConnEvent
    <2>2. StateAfter(s, e) = "CONN_FAILSAFE"
      BY <1>10, TableCalls, TableStates DEF ConnEvent, Registered
    <2>3. addr'[c] = addr[c]
      BY <1>3, <1>6, <1>10, <2>2
         DEF SetFields, InControl, IInv, ControlInv, TypeOK
    <2>4. Lock!FailSafe
      BY <1>2, <1>3, <1>4, <1>6, <1>10, <2>1, <2>2, <2>3, NoneAssumption
         DEF Lock!FailSafe, LockMode, InControl
    <2>5. QED
      BY <2>4 DEF Lock!Next
  <1>11. CASE s = "CONN_FAILSAFE" /\ e = "TIMEOUT"
    <2>1. active' = active /\ sysState' = sysState /\ servos' = servos
      BY <1>1, <1>11, TableCalls
         DEF ActiveAfter, SysStateAfter, ServosAfter, InControl, Registered,
             ConnEvent
    <2>2. StateAfter(s, e) = "CONN_FAILSAFE"
      BY <1>11, TableCalls, TableStates DEF ConnEvent, Registered
    <2>3. state'[c] = state[c] /\ addr'[c] = addr[c]
      BY <1>3, <1>6, <1>11, <2>2
         DEF SetFields, InControl, IInv, ControlInv, TypeOK
    <2>4. QED
      BY <1>2, <1>11, <2>1, <2>3, LockStutters DEF InControl
  <1>12. QED
    BY <1>7, <1>8, <1>9, <1>10, <1>11 DEF ConnEvent, InControl

(* A handler that raises no event leaves the lock alone, as long as it does
   not move the servos. *)
LEMMA NoEventImplementsLock ==
    ASSUME IInv, process = "running", NEW c \in Conn, NEW a \in Addr, NEW seq, NEW t,
           Handles(c, a), NoEvent(c, StateOnEntry(c)),
           SetFields(c, a, seq, t)
    PROVE  /\ active' = active /\ sysState' = sysState
           /\ active # None => /\ state'[active] = state[active]
                               /\ addr'[active] = addr[active]
  <1>1. active' = active /\ sysState' = sysState
    BY DEF NoEvent, controlVars
  <1>2. active # None => active \in Conn /\ state[active] \in InControl
    BY DEF IInv, ControlInv, TypeOK, ExclusiveControl
  <1>3. active # None => state'[active] = state[active]
    BY <1>2 DEF NoEvent, StateOnEntry, IInv, ControlInv, TypeOK, InControl
  <1>4. active # None => addr'[active] = addr[active]
    <2>1. CASE active = c
      BY <1>2, <1>3, <2>1, NoneAssumption
         DEF SetFields, Handles, InControl, IInv, ControlInv, TypeOK,
             RegistryConsistent, RegistryAgrees
    <2>2. CASE active # c
      BY <1>2, <2>2 DEF SetFields, IInv, ControlInv, TypeOK
    <2>3. QED
      BY <2>1, <2>2
  <1>5. QED
    BY <1>1, <1>3, <1>4

(* A cdc takes the free lock, is a command of its holder, or does nothing. *)
LEMMA CdcImplementsLock ==
    ASSUME IInv, process = "running", NEW a \in Addr, NEW c \in Conn, NEW seq \in Sequence,
           NEW channels \in Vectors, NEW fs \in Vectors,
           RxCdc(a, c, seq, channels, fs)
    PROVE  [Lock!Next]_(Lock!vars)
  <1> DEFINE s == StateOnEntry(c)
  <1>1. Handles(c, a) /\ SetFields(c, a, seq, 0)
    BY DEF RxCdc, CdcReachesFsm, MovesServos
  <1>2. servos' \in [Servo -> Nat] /\ failsafe' \in [Servo -> Nat]
    BY DriverTypes DEF RxCdc, CdcReachesFsm, MovesServos, IInv, ControlInv, TypeOK
  <1>3. CASE sysState = "SYS_IDLE"
    <2>1. EventContext(c, a, s, "CDC") /\ s \in ConnState
      BY <1>1, <1>3, DispatchEstablishesContext DEF IInv, ConnEvent
    <2>2. ExecuteEvent(c, a, s, "CDC")
      BY <1>3 DEF RxCdc, CdcReachesFsm, MovesServos
    <2>3. active = None /\ state[c] \notin InControl
      BY <1>3, NoneAssumption DEF IInv, ControlInv, ExclusiveControl
    <2>4. s \in {"CONN_IDLE", "CONN_IDENTIFIED"}
      BY <2>1, <2>3 DEF ConnState, InControl, StateOnEntry
    <2>5. state'[c] = StateAfter(s, "CDC")
      BY <2>2 DEF ExecuteEvent, IInv, ControlInv, TypeOK
    <2>6. (state'[c] = "CONN_ACTIVE") =>
             servos' = SetServos(channels) /\ failsafe' = StoreFailsafePosition(fs)
      BY DEF RxCdc, CdcReachesFsm, MovesServos
    <2>7. (state'[c] # "CONN_ACTIVE") => servos' = servos /\ failsafe' = failsafe
      BY DEF RxCdc, CdcReachesFsm, MovesServos
    <2> HIDE DEF s
    <2>8. CASE s = "CONN_IDENTIFIED"
      <3>1. /\ active' = c /\ sysState' = "SYS_CONTROLLING"
            /\ state'[c] = "CONN_ACTIVE"
        BY <1>3, <2>1, <2>2, <2>5, <2>8, TableCalls, TableStates
           DEF ExecuteEvent, ActiveAfter, SysStateAfter, SysNextState,
               Registered, ConnEvent
      <3>2. addr'[c] = a
        BY <1>1, <3>1 DEF SetFields, IInv, ControlInv, TypeOK
      <3>3. Lock!Acquire(a)
        BY <1>2, <1>3, <3>1, <3>2, NoneAssumption
           DEF Lock!Acquire, Lock!Move, LockMode
      <3>4. QED
        BY <3>3 DEF Lock!Next
    <2>9. CASE s = "CONN_IDLE"
      <3>1. /\ active' = active /\ sysState' = sysState
            /\ state'[c] = "FREED"
        BY <2>1, <2>2, <2>5, <2>9, TableCalls, TableStates
           DEF ExecuteEvent, ActiveAfter, SysStateAfter, Registered,
               ConnEvent, InControl
      <3>2. QED
        BY <2>3, <2>7, <3>1, LockStutters
    <2>10. QED
      BY <2>4, <2>8, <2>9
  <1>4. CASE sysState # "SYS_IDLE"
    <2>1. NoEvent(c, s)
      BY <1>4 DEF RxCdc, CdcReachesFsm, MovesServos
    <2>2. /\ active' = active /\ sysState' = sysState
          /\ active # None => /\ state'[active] = state[active]
                              /\ addr'[active] = addr[active]
      BY <1>1, <2>1, NoEventImplementsLock
    <2>3. CASE state'[c] = "CONN_ACTIVE"
      <3>1. state[c] = "CONN_ACTIVE" /\ active = c
        BY <2>1, <2>3 DEF NoEvent, StateOnEntry, IInv, ControlInv, TypeOK,
                          ExclusiveControl, InControl
      <3>2. Lock!Command
        BY <1>2, <1>4, <2>2, <2>3, <3>1, NoneAssumption
           DEF Lock!Command, Lock!Move, LockMode
      <3>3. QED
        BY <3>2 DEF Lock!Next
    <2>4. CASE state'[c] # "CONN_ACTIVE"
      BY <2>2, <2>4, LockStutters DEF RxCdc, CdcReachesFsm, MovesServos
    <2>5. QED
      BY <2>3, <2>4
  <1>5. QED
    BY <1>3, <1>4
-----------------------------------------------------------------------------

(* The program starts with the lock free. *)
LEMMA InitImplementsLock == Init => Lock!Init
  BY DEF Init, Lock!Init, LockMode

(* A tick of a timer is a step of the lock or none, *)
LEMMA TickImplementsLock ==
    ASSUME IInv, process = "running", NEW c \in Conn, TimerTick(c)
    PROVE  [Lock!Next]_(Lock!vars)
  <1>1. CASE timeout[c] = MaxTimeout
    <2> DEFINE s == state[c]
               a == addr[c]
               seq == lastSequence[c]
               t == timeout[c]
    <2>1. /\ EventContext(c, a, s, "TIMEOUT")
          /\ s \in ConnState /\ a \in Addr
      BY TimerEstablishesContext DEF IInv, TimerTick
    <2>2. /\ ExecuteEvent(c, a, s, "TIMEOUT")
          /\ SetFields(c, a, seq, t)
          /\ servos' = ServosAfter(s, "TIMEOUT")
          /\ failsafe' = failsafe
      BY <1>1 DEF TimerTick, Expired
    <2>3. "TIMEOUT" \in ConnEvent \ {"CDC"}
      BY DEF ConnEvent
    <2> HIDE DEF s, a, seq, t
    <2>4. QED
      BY <2>1, <2>2, <2>3, EventImplementsLock
  <1>2. CASE timeout[c] # MaxTimeout
    BY <1>2, LockStutters DEF TimerTick, Expired, controlVars
  <1>3. QED
    BY <1>1, <1>2

(* so is a datagram that is rejected, *)
LEMMA RejectImplementsLock ==
    ASSUME IInv, process = "running", NEW a \in Addr, NEW c \in Conn,
           Handles(c, a), Reject(a, c)
    PROVE  [Lock!Next]_(Lock!vars)
  <1> DEFINE s == StateOnEntry(c)
             seq == lastSequence[c]
             t == timeout[c]
  <1>1. EventContext(c, a, s, "INVALID") /\ s \in ConnState
    BY DispatchEstablishesContext DEF IInv, ConnEvent
  <1>2. /\ ExecuteEvent(c, a, s, "INVALID")
        /\ SetFields(c, a, seq, t)
        /\ servos' = ServosAfter(s, "INVALID")
        /\ failsafe' = failsafe
    BY DEF Reject
  <1>3. "INVALID" \in ConnEvent \ {"CDC"}
    BY DEF ConnEvent
  <1> HIDE DEF s, seq, t
  <1>4. QED
    BY <1>1, <1>2, <1>3, EventImplementsLock

(* so is a hello, *)
LEMMA HelloImplementsLock ==
    ASSUME IInv, process = "running", NEW a \in Addr, NEW c \in Conn, NEW seq \in Sequence,
           RxHello(a, c, seq)
    PROVE  [Lock!Next]_(Lock!vars)
  <1> DEFINE s == StateOnEntry(c)
             t == 0
  <1>1. EventContext(c, a, s, "HELLO") /\ s \in ConnState
    BY DispatchEstablishesContext DEF IInv, ConnEvent, RxHello
  <1>2. /\ ExecuteEvent(c, a, s, "HELLO")
        /\ SetFields(c, a, seq, t)
        /\ servos' = ServosAfter(s, "HELLO")
        /\ failsafe' = failsafe
    BY DEF RxHello
  <1>3. "HELLO" \in ConnEvent \ {"CDC"}
    BY DEF ConnEvent
  <1> HIDE DEF s, t
  <1>4. QED
    BY <1>1, <1>2, <1>3, EventImplementsLock

(* and so is every step. *)
LEMMA StepImplementsLock == IInv /\ [Next]_vars => [Lock!Next]_(Lock!vars)
  <1> SUFFICES ASSUME IInv, [Next]_vars
               PROVE  [Lock!Next]_(Lock!vars)
    OBVIOUS
  <1>1. ASSUME NEW a \in Addr, Receive(a)
        PROVE  [Lock!Next]_(Lock!vars)
    <2>0. process = "running"
      BY <1>1 DEF Receive
    <2>1. CASE RxOutOfDescriptors(a)
      BY <2>1, LockStutters DEF RxOutOfDescriptors, connVars, controlVars
    <2>2. ASSUME NEW c \in Conn, RxUnparsable(a, c)
          PROVE  [Lock!Next]_(Lock!vars)
      BY <2>0, <2>2, NoEventImplementsLock, LockStutters DEF RxUnparsable
    <2>3. ASSUME NEW c \in Conn, RxMalformed(a, c)
          PROVE  [Lock!Next]_(Lock!vars)
      BY <2>0, <2>3, RejectImplementsLock DEF RxMalformed
    <2>4. ASSUME NEW c \in Conn, NEW seq \in Sequence,
                 \/ RxStaleSequence(a, c, seq)
                 \/ RxNoCommand(a, c, seq)
          PROVE  [Lock!Next]_(Lock!vars)
      BY <2>0, <2>4, RejectImplementsLock DEF RxStaleSequence, RxNoCommand
    <2>5. ASSUME NEW c \in Conn, NEW seq \in Sequence, RxHello(a, c, seq)
          PROVE  [Lock!Next]_(Lock!vars)
      BY <2>0, <2>5, HelloImplementsLock
    <2>6. ASSUME NEW c \in Conn, NEW seq \in Sequence,
                 RxUnknownCommand(a, c, seq)
          PROVE  [Lock!Next]_(Lock!vars)
      BY <2>0, <2>6, NoEventImplementsLock, LockStutters DEF RxUnknownCommand
    <2>7. ASSUME NEW c \in Conn, NEW seq \in Sequence,
                 NEW channels \in Vectors, NEW fs \in Vectors,
                 RxCdc(a, c, seq, channels, fs)
          PROVE  [Lock!Next]_(Lock!vars)
      BY <2>0, <2>7, CdcImplementsLock
    <2>8. QED
      BY <1>1, <2>1, <2>2, <2>3, <2>4, <2>5, <2>6, <2>7
         DEF Receive, ReceiveFrom
  <1>2. ASSUME NEW c \in Conn, Tick(c)
        PROVE  [Lock!Next]_(Lock!vars)
    BY <1>2, TickImplementsLock DEF Tick
  <1>3. ASSUME NEW c \in Conn, StrayKeyIsFound(c)
        PROVE  [Lock!Next]_(Lock!vars)
    BY <1>3, LockStutters DEF StrayKeyIsFound, connVars, controlVars
  <1>4. CASE UNCHANGED vars
    BY <1>4, LockStutters DEF vars, connVars, controlVars
  <1>5. QED
    BY <1>1, <1>2, <1>3, <1>4 DEF Next

(* Every behaviour of the controller, seen through LockMode and the address
   of the active connection, is a behaviour of the abstract lock. *)
THEOREM ControllerImplementsLock == Spec => ImplementsLock
  <1>1. Init => Lock!Init
    BY InitImplementsLock
  <1>2. IInv /\ [Next]_vars => [Lock!Next]_(Lock!vars)
    BY StepImplementsLock
  <1>3. QED
    BY <1>1, <1>2, Invariance, PTL DEF Spec, ImplementsLock, Lock!Spec
-----------------------------------------------------------------------------
(***************************************************************************)
(* Action properties                                                       *)
(***************************************************************************)

(* Control that is lost stays lost: read off the abstract lock, which has no
   step from "lost". *)
THEOREM LostControlIsForever == Spec => LostControlStaysLost
  <1>1. ASSUME IInv, [Next]_vars, ControlLost
        PROVE  ControlLost' /\ UNCHANGED <<servos, failsafe>>
    <2>1. [Lock!Next]_(Lock!vars)
      BY <1>1, StepImplementsLock
    <2>2. LockMode = "lost"
      BY <1>1 DEF ControlLost, LockMode
    <2>3. UNCHANGED Lock!vars
      BY <2>1, <2>2
         DEF Lock!Next, Lock!Acquire, Lock!Command, Lock!FailSafe,
             Lock!Release, Lock!Lose, Lock!Held
    <2>4. LockMode' = "lost" /\ servos' = servos /\ failsafe' = failsafe
      BY <2>2, <2>3 DEF Lock!vars
    <2>5. sysState' \in SysState
      BY <1>1, StepKeepsIInv DEF IInv, ControlInv, TypeOK
    <2>6. QED
      BY <2>4, <2>5 DEF LockMode, ControlLost, SysState
  <1>2. IInv /\ [Next]_vars =>
          [ControlLost => ControlLost' /\ UNCHANGED <<servos, failsafe>>]_vars
    BY <1>1
  <1>3. QED
    BY <1>2, Invariance, PTL DEF Spec, LostControlStaysLost

(* Only a cdc in SYS_IDLE makes a connection the active one. *)
LEMMA EventGivesOrDropsControl ==
    ASSUME IInv, NEW c \in Conn, NEW a, NEW s \in ConnState,
           NEW e \in ConnEvent,
           ExecuteEvent(c, a, s, e), e = "CDC" => sysState = "SYS_IDLE"
    PROVE  active # None /\ active' # active => active' = None
  <1>1. Runs(s, e, "A2_SetActive") => active = None
    BY TableCalls DEF IInv, ControlInv, ExclusiveControl
  <1>2. QED
    BY <1>1 DEF ExecuteEvent, ActiveAfter

(* The second controller has to wait until the first has given up. *)
THEOREM ControlIsNotStolen == Spec => NoStealing
  <1> DEFINE Step == active # None /\ active' # active => active' = None
  <1>1. ASSUME IInv, [Next]_vars
        PROVE  Step
    <2>1. \A c \in Conn : state[c] # "FREED" => state[c] \in ConnState
      BY <1>1 DEF IInv, ControlInv, TypeOK
    <2>2. \A c \in Conn : StateOnEntry(c) \in ConnState
      BY <2>1 DEF StateOnEntry, ConnState
    <2>3. ASSUME NEW a \in Addr, NEW c \in Conn, Reject(a, c)
          PROVE  Step
      BY <1>1, <2>2, <2>3, EventGivesOrDropsControl DEF Reject, ConnEvent
    <2>4. ASSUME NEW a \in Addr, Receive(a)
          PROVE  Step
      <3>1. CASE RxOutOfDescriptors(a)
        BY <3>1 DEF RxOutOfDescriptors, controlVars
      <3>2. ASSUME NEW c \in Conn, RxUnparsable(a, c) \/ RxMalformed(a, c)
            PROVE  Step
        BY <2>3, <3>2 DEF RxUnparsable, RxMalformed, NoEvent, controlVars
      <3>3. ASSUME NEW c \in Conn, NEW seq \in Sequence,
                   \/ RxStaleSequence(a, c, seq)
                   \/ RxNoCommand(a, c, seq)
                   \/ RxUnknownCommand(a, c, seq)
            PROVE  Step
        BY <2>3, <3>3 DEF RxStaleSequence, RxNoCommand, RxUnknownCommand,
                          NoEvent, controlVars
      <3>4. ASSUME NEW c \in Conn, NEW seq \in Sequence, RxHello(a, c, seq)
            PROVE  Step
        BY <1>1, <2>2, <3>4, EventGivesOrDropsControl DEF RxHello, ConnEvent
      <3>5. ASSUME NEW c \in Conn, NEW seq \in Sequence,
                   NEW channels \in Vectors, NEW fs \in Vectors,
                   RxCdc(a, c, seq, channels, fs)
            PROVE  Step
        BY <1>1, <2>2, <3>5, EventGivesOrDropsControl
           DEF RxCdc, CdcReachesFsm, MovesServos, ConnEvent, NoEvent, controlVars
      <3>6. QED
        BY <2>4, <3>1, <3>2, <3>3, <3>4, <3>5 DEF Receive, ReceiveFrom
    <2>5. ASSUME NEW c \in Conn, Tick(c)
          PROVE  Step
      BY <1>1, <2>1, <2>5, EventGivesOrDropsControl
         DEF Tick, TimerTick, Expired, ConnEvent, controlVars
    <2>6. CASE UNCHANGED vars
      BY <2>6 DEF vars, controlVars
    <2>7. ASSUME NEW c \in Conn, StrayKeyIsFound(c)
          PROVE  Step
      BY <2>7 DEF StrayKeyIsFound, controlVars
    <2>8. QED
      BY <1>1, <2>4, <2>5, <2>6, <2>7 DEF Next
  <1>2. IInv /\ [Next]_vars => [Step]_vars
    BY <1>1
  <1>3. QED
    BY <1>2, Invariance, PTL DEF Spec, NoStealing
-----------------------------------------------------------------------------
(***************************************************************************)
(* On whose behalf the servos move, and how CONN_FAILSAFE ends             *)
(***************************************************************************)

(* Only a timeout runs A6. *)
LEMMA ServosAfterEvent ==
    ASSUME NEW s \in ConnState, NEW e \in ConnEvent
    PROVE  ServosAfter(s, e) # servos => s = "CONN_ACTIVE" /\ e = "TIMEOUT"
  BY TableCalls DEF ServosAfter

(* The state in which a datagram finds its connection is a state of the FSM. *)
LEMMA StateOnEntryType ==
    ASSUME IInv, NEW c \in Conn
    PROVE  StateOnEntry(c) \in ConnState
  BY DEF IInv, ControlInv, TypeOK, StateOnEntry, ConnState

(* A rejected datagram and a hello leave the servos alone. *)
LEMMA RejectAndHelloKeepServos ==
    ASSUME IInv, NEW c \in Conn, NEW a, NEW seq,
           Reject(a, c) \/ RxHello(a, c, seq)
    PROVE  servos' = servos
  BY ServosAfterEvent, StateOnEntryType DEF Reject, RxHello, ConnEvent

(* The two ways in which connection c may move the servos. *)
MovedBy(c) ==
    /\ active' = c
    /\ \/ state'[c] = "CONN_ACTIVE" /\ lastSequence'[c] > lastSequence[c]
       \/ state[c] = "CONN_ACTIVE" /\ state'[c] = "CONN_FAILSAFE"

(* A cdc changes the servos only for a connection that is in control afterwards. *)
LEMMA CdcMovesServos ==
    ASSUME IInv, IInv', NEW c \in Conn, NEW a, NEW seq \in Sequence,
           NEW channels, NEW fs, RxCdc(a, c, seq, channels, fs),
           servos' # servos
    PROVE  MovedBy(c)
  <1>1. /\ state'[c] = "CONN_ACTIVE"
        /\ IsNew(c, seq)
        /\ SetFields(c, a, seq, 0)
    BY DEF RxCdc, CdcReachesFsm, MovesServos
  <1>2. active' = c
    BY <1>1 DEF IInv, ControlInv, ExclusiveControl, InControl
  <1>3. lastSequence'[c] = seq
    BY <1>1 DEF SetFields, IInv, ControlInv, TypeOK
  <1>4. lastSequence'[c] > lastSequence[c]
    BY <1>1, <1>3 DEF IsNew, Sequence, IInv, ControlInv, TypeOK
  <1> QED
    BY <1>1, <1>2, <1>4 DEF MovedBy

(* A tick changes the servos only by putting an active connection into failsafe. *)
LEMMA TickMovesServos ==
    ASSUME IInv, IInv', NEW c \in Conn, TimerTick(c), servos' # servos
    PROVE  MovedBy(c)
  <1>1. /\ Expired(c)
        /\ state[c] # "FREED"
        /\ ExecuteEvent(c, addr[c], state[c], "TIMEOUT")
        /\ servos' = ServosAfter(state[c], "TIMEOUT")
    BY DEF TimerTick
  <1>2. state[c] \in ConnState /\ "TIMEOUT" \in ConnEvent
    BY <1>1 DEF IInv, ControlInv, TypeOK, ConnEvent
  <1>3. state[c] = "CONN_ACTIVE"
    BY <1>1, <1>2, ServosAfterEvent
  <1>4. StateAfter(state[c], "TIMEOUT") = "CONN_FAILSAFE"
    BY <1>2, <1>3, TableCalls, TableStates DEF Registered
  <1>5. state'[c] = "CONN_FAILSAFE"
    BY <1>1, <1>4 DEF ExecuteEvent, IInv, ControlInv, TypeOK
  <1>6. active' = c
    BY <1>5 DEF IInv, ControlInv, ExclusiveControl, InControl
  <1> QED
    BY <1>3, <1>5, <1>6 DEF MovedBy

(* Every step that changes them is one of the two. *)
LEMMA StepMovesServos ==
    ASSUME IInv, [Next]_vars, servos' # servos
    PROVE  \E c \in Conn : MovedBy(c)
  <1>0. IInv'
    BY StepKeepsIInv
  <1>1. ASSUME NEW a \in Addr, Receive(a)
        PROVE  \E c \in Conn : MovedBy(c)
    <2>1. CASE RxOutOfDescriptors(a)
      BY <2>1 DEF RxOutOfDescriptors
    <2>2. ASSUME NEW c \in Conn, RxUnparsable(a, c) \/ RxMalformed(a, c)
          PROVE  FALSE
      BY <2>2, RejectAndHelloKeepServos DEF RxUnparsable, RxMalformed
    <2>3. ASSUME NEW c \in Conn, NEW seq \in Sequence,
                 \/ RxStaleSequence(a, c, seq)
                 \/ RxNoCommand(a, c, seq)
                 \/ RxHello(a, c, seq)
                 \/ RxUnknownCommand(a, c, seq)
          PROVE  FALSE
      BY <2>3, RejectAndHelloKeepServos
         DEF RxStaleSequence, RxNoCommand, RxUnknownCommand
    <2>4. ASSUME NEW c \in Conn, NEW seq \in Sequence,
                 NEW channels \in Vectors, NEW fs \in Vectors,
                 RxCdc(a, c, seq, channels, fs)
          PROVE  MovedBy(c)
      BY <1>0, <2>4, CdcMovesServos
    <2> QED
      BY <1>1, <2>1, <2>2, <2>3, <2>4 DEF Receive, ReceiveFrom
  <1>2. ASSUME NEW c \in Conn, Tick(c)
        PROVE  MovedBy(c)
    BY <1>0, <1>2, TickMovesServos DEF Tick
  <1>3. CASE UNCHANGED vars
    BY <1>3 DEF vars
  <1> QED
    BY <1>1, <1>2, <1>3 DEF Next, StrayKeyIsFound

(* The servos move only on behalf of the connection that is active after the
   step, because it handled a newer sequence number or fell into failsafe. *)
THEOREM OnlyTheControllerMoves == Spec => OnlyControllerMovesServos
  <1>1. IInv /\ [Next]_vars =>
          [servos' # servos =>
             \E c \in Conn :
               /\ active' = c
               /\ \/ state'[c] = "CONN_ACTIVE" /\ lastSequence'[c] > lastSequence[c]
                  \/ state[c] = "CONN_ACTIVE" /\ state'[c] = "CONN_FAILSAFE"]_vars
    BY StepMovesServos DEF MovedBy
  <1> QED
    BY <1>1, Invariance, PTL DEF Spec, OnlyControllerMovesServos
-----------------------------------------------------------------------------
(* Connection c is in failsafe before the step and not after it. *)
LeavesFailsafe(c) == state[c] = "CONN_FAILSAFE" /\ state'[c] # "CONN_FAILSAFE"

(* A handler changes the state of its own connection only, and that is the
   registered connection of the datagram's address. *)
LEMMA HandlerOwnsConnection ==
    ASSUME IInv, process = "running", NEW a \in Addr, NEW c \in Conn, NEW d \in Conn, NEW s, NEW e,
           Handles(d, a), ExecuteEvent(d, a, s, e) \/ NoEvent(d, s),
           LeavesFailsafe(c)
    PROVE  c = d /\ addr[c] = a /\ StateOnEntry(c) = "CONN_FAILSAFE"
  <1>1. c = d
    BY DEF ExecuteEvent, NoEvent, LeavesFailsafe, IInv, ControlInv, TypeOK
  <1>2. container[a] = c
    BY <1>1 DEF Handles, LeavesFailsafe
  <1> QED
    BY <1>1, <1>2, NoneAssumption
       DEF StateOnEntry, LeavesFailsafe, IInv, ControlInv, RegistryConsistent,
           RegistryAgrees

(* A tick leaves a connection in failsafe where it is. *)
LEMMA TickKeepsFailsafe ==
    ASSUME IInv, NEW c \in Conn, NEW d \in Conn, TimerTick(d)
    PROVE  ~ LeavesFailsafe(c)
  <1> SUFFICES ASSUME LeavesFailsafe(c) PROVE FALSE
    OBVIOUS
  <1>1. Expired(d) /\ ExecuteEvent(d, addr[d], state[d], "TIMEOUT")
    BY DEF TimerTick, LeavesFailsafe
  <1>2. c = d
    BY <1>1 DEF ExecuteEvent, LeavesFailsafe, IInv, ControlInv, TypeOK
  <1>3. "CONN_FAILSAFE" \in ConnState /\ "TIMEOUT" \in ConnEvent
    BY DEF ConnState, ConnEvent
  <1>4. StateAfter("CONN_FAILSAFE", "TIMEOUT") = "CONN_FAILSAFE"
    BY <1>3, TableCalls, TableStates DEF Registered
  <1> QED
    BY <1>1, <1>2, <1>4 DEF ExecuteEvent, LeavesFailsafe, IInv, ControlInv, TypeOK

(* The client of a connection that a datagram takes out of failsafe is the sender. *)
LEMMA DatagramEndsFailsafe ==
    ASSUME IInv, process = "running", NEW a \in Addr, NEW c \in Conn, NEW d \in Conn,
           NEW seq \in Sequence, LeavesFailsafe(c),
           \/ RxUnparsable(a, d)
           \/ RxMalformed(a, d)
           \/ RxStaleSequence(a, d, seq)
           \/ RxNoCommand(a, d, seq)
           \/ RxHello(a, d, seq)
           \/ RxUnknownCommand(a, d, seq)
           \/ \E channels, fs \in Vectors : RxCdc(a, d, seq, channels, fs)
    PROVE  addr[c] = a
  <1>1. Handles(d, a)
    BY DEF RxUnparsable, RxMalformed, RxStaleSequence, RxNoCommand, RxHello,
           RxUnknownCommand, RxCdc
  <1>2. \/ \E e \in ConnEvent : ExecuteEvent(d, a, StateOnEntry(d), e)
        \/ NoEvent(d, StateOnEntry(d))
    BY DEF RxUnparsable, RxMalformed, RxStaleSequence, RxNoCommand, RxHello,
           RxUnknownCommand, RxCdc, CdcReachesFsm, MovesServos, Reject, ConnEvent
  <1> QED
    BY <1>1, <1>2, HandlerOwnsConnection

(* No other step takes a connection out of failsafe. *)
LEMMA StepEndsFailsafe ==
    ASSUME IInv, [Next]_vars, NEW c \in Conn, LeavesFailsafe(c)
    PROVE  ReceiveFrom(addr[c])
  <1>1. PICK a \in Addr : Receive(a)
    <2>1. ~ UNCHANGED vars
      BY DEF vars, connVars, LeavesFailsafe
    <2>2. \A d \in Conn : ~ Tick(d) /\ ~ StrayKeyIsFound(d)
      BY TickKeepsFailsafe DEF Tick, StrayKeyIsFound, connVars, LeavesFailsafe
    <2> QED
      BY <2>1, <2>2 DEF Next
  <1>2. ReceiveFrom(a) /\ ~ RxOutOfDescriptors(a) /\ process = "running"
    BY <1>1 DEF Receive, RxOutOfDescriptors, connVars, LeavesFailsafe
  <1>3. 0 \in Sequence
    BY SequenceAssumption DEF Sequence
  <1>4. addr[c] = a
    <2>1. PICK d \in Conn :
            \/ RxUnparsable(a, d)
            \/ RxMalformed(a, d)
            \/ \E seq \in Sequence :
                 \/ RxStaleSequence(a, d, seq)
                 \/ RxNoCommand(a, d, seq)
                 \/ \E channels, fs \in Vectors : RxCdc(a, d, seq, channels, fs)
                 \/ RxHello(a, d, seq)
                 \/ RxUnknownCommand(a, d, seq)
      BY <1>2 DEF ReceiveFrom
    <2> QED
      BY <1>2, <1>3, <2>1, DatagramEndsFailsafe
  <1> QED
    BY <1>2, <1>4

(* A connection leaves CONN_FAILSAFE only on a datagram of its own address:
   as long as the tree has no stray key, which the handlers run without. *)
THEOREM FailsafeEndsOnlyByItsClient == Spec => FailsafeEndsWithOwnDatagram
  <1>1. IInv /\ [Next]_vars =>
          [\A c \in Conn :
             state[c] = "CONN_FAILSAFE" /\ state'[c] # "CONN_FAILSAFE" =>
               ReceiveFrom(addr[c])]_vars
    BY StepEndsFailsafe DEF LeavesFailsafe
  <1> QED
    BY <1>1, Invariance, PTL DEF Spec, FailsafeEndsWithOwnDatagram
-----------------------------------------------------------------------------
(***************************************************************************)
(* What the telemetry shows                                                *)
(***************************************************************************)

(* What is proved of ServoController holds beside the telemetry. *)
LEMMA TelemetryOnlyWatches == TeleSpec => Spec
  <1>1. TeleInit => Init
    BY DEF TeleInit
  <1>2. [TeleNext]_teleAllVars => [Next]_vars
    BY DEF TeleNext, Core, TransmitTelemetry, teleAllVars
  <1> QED
    BY <1>1, <1>2, PTL DEF TeleSpec, Spec

(* A message sent in a state where the container, the FSMs and the active
   connection agree lists each addressee once. *)
LEMMA MessageIsCoherent ==
    ASSUME IInv, process = "running", hTelemetrySource \subseteq Available, NEW o \in SendToAll
    PROVE  ListedOnce(o, GetJsonTrasmitTelemetryMsg)
  <1> DEFINE msg == GetJsonTrasmitTelemetryMsg
  <1>1. /\ msg.activeip = IF active = None THEN None ELSE addr[active]
        /\ msg.passiveip = {a \in Registrants : container[a] # active}
        /\ msg.telemetry = hTelemetrySource
    BY DEF GetJsonTrasmitTelemetryMsg
  <1>2. o \in Registrants /\ o \in Addr /\ container[o] \in Conn /\ addr[container[o]] = o
    BY DEF SendToAll, Registrants, IInv, ControlInv, TypeOK, RegistryConsistent,
           RegistryAgrees
  <1>3. CASE active = None
    BY <1>1, <1>2, <1>3, NoneAssumption DEF ListedOnce, Registrants
  <1>4. CASE active # None
    <2>1. active \in Conn /\ state[active] \in InControl
      BY <1>4 DEF IInv, ControlInv, TypeOK, ExclusiveControl
    <2>2. container[addr[active]] = active
      BY <2>1 DEF IInv, ControlInv, RegistryConsistent, RegistryAgrees, InControl,
                  Registered
    <2>3. msg.activeip \notin msg.passiveip
      BY <1>1, <1>4, <2>2
    <2>4. o = msg.activeip \/ o \in msg.passiveip
      BY <1>1, <1>2, <1>4
    <2> QED
      BY <1>1, <2>3, <2>4 DEF ListedOnce
  <1> QED
    BY <1>3, <1>4

(* The display of every client is coherent, whatever was lost on the way. *)
THEOREM DisplayIsCoherent == TeleSpec => []ShownIsCoherent
  <1> DEFINE Displayed == hTelemetrySource \subseteq Available /\ ShownIsCoherent
  <1>1. TeleInit => Displayed
    BY DEF TeleInit, NewTransmitTelemetry, ShownIsCoherent
  <1>2. IInv /\ Displayed /\ [TeleNext]_teleAllVars => Displayed'
    <2> SUFFICES ASSUME IInv, Displayed, [TeleNext]_teleAllVars PROVE Displayed'
      OBVIOUS
    <2>1. CASE UNCHANGED teleVars
      BY <2>1 DEF teleVars, ShownIsCoherent
    <2>2. ASSUME NEW delivered \in SUBSET Observer, TransmitTelemetry(delivered) PROVE Displayed'
      <3>1. hTelemetrySource' \subseteq Available
        BY <2>2 DEF TransmitTelemetry
      <3>2. ASSUME NEW o \in Observer, shown'[o] # None PROVE ListedOnce(o, shown'[o])
        <4>1. shown'[o] = IF o \in delivered THEN GetJsonTrasmitTelemetryMsg ELSE shown[o]
          BY <2>2 DEF TransmitTelemetry
        <4>2. CASE o \in delivered
          BY <2>2, <4>1, <4>2, MessageIsCoherent DEF TransmitTelemetry
        <4>3. CASE o \notin delivered
          BY <3>2, <4>1, <4>3 DEF ShownIsCoherent
        <4> QED
          BY <4>2, <4>3
      <3> QED
        BY <3>1, <3>2 DEF ShownIsCoherent
    <2> QED
      BY <2>1, <2>2 DEF TeleNext, Core, teleAllVars
  <1>3. Displayed => ShownIsCoherent
    OBVIOUS
  <1> QED
    BY <1>1, <1>2, <1>3, Invariance, TelemetryOnlyWatches, PTL DEF TeleSpec
=============================================================================
