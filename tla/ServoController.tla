-------------------------- MODULE ServoController --------------------------
(***************************************************************************)
(* The core of the servo controller: the connections that clients open by  *)
(* sending datagrams, the container that registers them by source address, *)
(* the single right to control the servos, and the servo outputs.          *)
(*                                                                         *)
(* The program is one thread: Reactor_Dispatch calls one callback at a     *)
(* time and every callback runs to completion, so an action is one whole   *)
(* callback: MessageReceiverHandler with HandleJsonMessage for a datagram, *)
(* ConnectionTimeoutHandler for a tick of a connection's 1 s timer.        *)
(*                                                                         *)
(* Conn is the pool of connection objects the process can hold at a time   *)
(* (each needs a timer descriptor): a freed one may be allocated again,    *)
(* and when none is left NewConnection ends the process.                   *)
(***************************************************************************)
EXTENDS ConnectionFsm, SystemFsm

CONSTANTS
    Conn,          \* connection objects
    Addr,          \* source addresses of datagrams
    None,          \* NULL
    MaxTimeout,    \* MAX_TIMEOUT_TIME
    MaxSequence,   \* the largest UINT32 a "sequence" is converted to
    NofServos,     \* MAX_SERVOS
    Vectors        \* the "channels" and "failsafe" arrays clients send

ASSUME NoneAssumption == None \notin Conn /\ None \notin Addr
ASSUME TimeoutAssumption == MaxTimeout \in Nat
ASSUME SequenceAssumption == MaxSequence \in Nat
ASSUME ServosAssumption == NofServos \in Nat
(* Clients send at most one value per servo; a missing array is <<>>. *)
ASSUME VectorsAssumption ==
    Vectors \subseteq {v \in Seq(Nat) : Len(v) <= NofServos}

VARIABLES
    state,         \* FSM state of each connection object, or "FREED"
    addr,          \* srcAddress
    lastSequence,  \* lastSequence
    timeout,       \* timeout counter
    container,     \* hAllConnections: registered connection by address
    active,        \* activeConnectionObject
    sysState,      \* state of the system FSM
    servos,        \* the driver's oldChannels: last position put out
    failsafe,      \* the driver's failsafe positions
    process        \* whether the process still runs

connVars == <<state, addr, lastSequence, timeout>>
controlVars == <<container, active, sysState>>
vars == <<connVars, controlVars, servos, failsafe, process>>

Servo == 1 .. NofServos
Sequence == 0 .. MaxSequence

TypeOK ==
    /\ state \in [Conn -> ConnState \cup {"FREED"}]
    /\ addr \in [Conn -> Addr \cup {None}]
    /\ lastSequence \in [Conn -> Sequence]
    /\ timeout \in [Conn -> 0 .. MaxTimeout]
    /\ container \in [Addr -> Conn \cup {None}]
    /\ active \in Conn \cup {None}
    /\ sysState \in SysState
    /\ servos \in [Servo -> Nat]
    /\ failsafe \in [Servo -> Nat]
    /\ process \in {"running", "stray_key", "assert_failed", "out_of_descriptors"}

Init ==
    /\ state = [c \in Conn |-> "FREED"]
    /\ addr = [c \in Conn |-> None]
    /\ lastSequence = [c \in Conn |-> 0]
    /\ timeout = [c \in Conn |-> 0]
    /\ container = [a \in Addr |-> None]
    /\ active = None
    /\ sysState = "SYS_IDLE"
    /\ servos = [s \in Servo |-> 0]
    /\ failsafe = [s \in Servo |-> 0]
    /\ process = "running"
-----------------------------------------------------------------------------
(***************************************************************************)
(* The callbacks A1..A6 of the FSM, as what an event does to each variable *)
(***************************************************************************)

(* ConnectionContainerAddConnection asserts that the address is not taken,
   and inserts c under it. *)
AddConnection(c, a) ==
    /\ container' = [container EXCEPT ![a] = c]
    /\ process' = IF container[a] = None THEN process ELSE "assert_failed"

RegisteredBeside(a) == {b \in Addr \ {a} : container[b] # None}

(* ConnectionContainerRemoveConnection.  The tree holds the caller's pointers
   as keys, and they point into the connections.  A node with at most one
   child is cut out.  A node with two, which takes two other addresses
   (which of three or more has them is a matter of IpCmp and of the history,
   and left open), gets the data of its predecessor b, whose own node is cut
   out; it keeps its key, which A5 is about to free with the connection. *)
RemoveConnection(a) ==
    \/ /\ container' = [container EXCEPT ![a] = None]
       /\ UNCHANGED process
    \/ \E b \in RegisteredBeside(a) :
         /\ container[a] # None
         /\ RegisteredBeside(a) # {b}
         /\ container' = [container EXCEPT ![a] = container[b], ![b] = None]
         /\ process' = "stray_key"

(* A1 and A4 on the container. *)
Register(c, a, s, e) ==
    \/ Runs(s, e, "A1_Add") /\ AddConnection(c, a)
    \/ Runs(s, e, "A4_Remove") /\ RemoveConnection(a)
    \/ /\ ~ Runs(s, e, "A1_Add")
       /\ ~ Runs(s, e, "A4_Remove")
       /\ UNCHANGED <<container, process>>

ActiveAfter(c, s, e) ==
    CASE Runs(s, e, "A2_SetActive")                 -> c
      [] Runs(s, e, "A3_SetPassive")                -> None
      [] Runs(s, e, "A4_Remove") /\ active = c      -> None
      [] OTHER                                      -> active

SysStateAfter(s, e) ==
    CASE Runs(s, e, "A2_SetActive")  -> SysNextState(sysState, "TRANS_ACTIV")
      [] Runs(s, e, "A3_SetPassive") -> SysNextState(sysState, "TRANS_PASSIV")
      [] OTHER                       -> sysState

ServosAfter(s, e) == IF Runs(s, e, "A6_Failsafe") THEN failsafe ELSE servos

(* One FSM event of connection c with source address a, now in state s. *)
ExecuteEvent(c, a, s, e) ==
    /\ Register(c, a, s, e)
    /\ active' = ActiveAfter(c, s, e)
    /\ sysState' = SysStateAfter(s, e)
    /\ state' = [state EXCEPT ![c] = StateAfter(s, e)]

NoEvent(c, s) ==
    /\ state' = [state EXCEPT ![c] = s]
    /\ UNCHANGED <<controlVars, process>>

(* The fields of c when the handler returns; a freed block is all zero, as
   NewConnection's bzero leaves it when the block is allocated again. *)
SetFields(c, a, seq, t) ==
    LET freed == state'[c] = "FREED"
    IN  /\ addr' = [addr EXCEPT ![c] = IF freed THEN None ELSE a]
        /\ lastSequence' = [lastSequence EXCEPT ![c] = IF freed THEN 0 ELSE seq]
        /\ timeout' = [timeout EXCEPT ![c] = IF freed THEN 0 ELSE t]
-----------------------------------------------------------------------------
(***************************************************************************)
(* The servo driver (ServoDriverRPi.c, ServoDriverLinino.c)                *)
(***************************************************************************)

(* SetServos: servos beyond the vector are switched off. *)
SetServos(v) == [s \in Servo |-> IF s <= Len(v) THEN v[s] ELSE 0]

(* StoreFailsafePosition: positions beyond the vector keep what they were. *)
StoreFailsafePosition(v) ==
    [s \in Servo |-> IF s <= Len(v) THEN v[s] ELSE failsafe[s]]
-----------------------------------------------------------------------------
(***************************************************************************)
(* Datagrams.  c is the connection that handles a datagram from a: the one *)
(* the container finds, or a newly allocated one in CONN_IDLE.             *)
(***************************************************************************)
(* Mutant: a new connection for every datagram. *)
HandlesWithoutLookup(c, a) == state[c] = "FREED"

Handles(c, a) ==
    IF container[a] # None THEN c = container[a] ELSE state[c] = "FREED"

StateOnEntry(c) == IF state[c] = "FREED" THEN "CONN_IDLE" ELSE state[c]

(* The tokener returns no object: return before anything is checked. *)
RxUnparsable(a, c) ==
    /\ Handles(c, a)
    /\ NoEvent(c, StateOnEntry(c))
    /\ SetFields(c, a, lastSequence[c], timeout[c])
    /\ UNCHANGED <<servos, failsafe>>

(* A field is missing or wrong, or the sequence number is not a new one. *)
Reject(a, c) ==
    LET s == StateOnEntry(c)
    IN  /\ ExecuteEvent(c, a, s, "INVALID")
        /\ SetFields(c, a, lastSequence[c], timeout[c])
        /\ servos' = ServosAfter(s, "INVALID")
        /\ UNCHANGED failsafe

(* No "v" or not 1, no "user", no "sequence". *)
RxMalformed(a, c) == Handles(c, a) /\ Reject(a, c)

IsNew(c, seq) == lastSequence[c] < seq

RxStaleSequence(a, c, seq) ==
    /\ Handles(c, a)
    /\ ~IsNew(c, seq)
    /\ Reject(a, c)

(* No "cmd": rejected before the sequence number is recorded. *)
RxNoCommand(a, c, seq) ==
    /\ Handles(c, a)
    /\ IsNew(c, seq)
    /\ Reject(a, c)

RxHello(a, c, seq) ==
    LET s == StateOnEntry(c)
    IN  /\ Handles(c, a)
        /\ IsNew(c, seq)
        /\ ExecuteEvent(c, a, s, "HELLO")
        /\ SetFields(c, a, seq, 0)
        /\ servos' = ServosAfter(s, "HELLO")
        /\ UNCHANGED failsafe

RxUnknownCommand(a, c, seq) ==
    /\ Handles(c, a)
    /\ IsNew(c, seq)
    /\ NoEvent(c, StateOnEntry(c))
    /\ SetFields(c, a, seq, 0)
    /\ UNCHANGED <<servos, failsafe>>

(* Mutants: every cdc is passed on; the container is asked and not the
   system FSM. *)
EveryCdcReachesFsm == TRUE
CdcReachesFsmUnlessActive == active = None

CdcReachesFsm == sysState = "SYS_IDLE"

(* Mutants: a connection in CONN_FAILSAFE, or just a registered one, moves
   the servos. *)
FailsafeMovesServos(c) == state'[c] \in InControl
RegisteredMovesServos(c) == state'[c] \in Registered

MovesServos(c) == state'[c] = "CONN_ACTIVE"

(* The FSM sees a cdc only while the system is idle; the servos follow it
   when the connection is active afterwards. *)
RxCdc(a, c, seq, channels, fs) ==
    LET s == StateOnEntry(c)
    IN  /\ Handles(c, a)
        /\ IsNew(c, seq)
        /\ IF CdcReachesFsm THEN ExecuteEvent(c, a, s, "CDC")
                            ELSE NoEvent(c, s)
        /\ SetFields(c, a, seq, 0)
        /\ IF MovesServos(c)
             THEN /\ servos' = SetServos(channels)
                  /\ failsafe' = StoreFailsafePosition(fs)
             ELSE UNCHANGED <<servos, failsafe>>

(* No descriptor is left for the timer of a new connection: the process
   exits in Reactor_AddReadFd. *)
RxOutOfDescriptors(a) ==
    /\ container[a] = None
    /\ \A c \in Conn : state[c] # "FREED"
    /\ process' = "out_of_descriptors"
    /\ UNCHANGED <<connVars, controlVars, servos, failsafe>>
-----------------------------------------------------------------------------
(***************************************************************************)
(* The 1 s timer of connection c                                           *)
(***************************************************************************)
(* Mutant: one tick too late. *)
ExpiresPastLimit(c) == timeout[c] = MaxTimeout + 1

Expired(c) == timeout[c] = MaxTimeout

TimerTick(c) ==
    /\ state[c] # "FREED"
    /\ IF Expired(c)
         THEN /\ ExecuteEvent(c, addr[c], state[c], "TIMEOUT")
              /\ SetFields(c, addr[c], lastSequence[c], timeout[c])
              /\ servos' = ServosAfter(state[c], "TIMEOUT")
         ELSE /\ timeout' = [timeout EXCEPT ![c] = @ + 1]
              /\ UNCHANGED <<state, addr, lastSequence, controlVars, servos,
                             process>>
    /\ UNCHANGED failsafe

ReceiveFrom(a) ==
    \/ RxOutOfDescriptors(a)
    \/ \E c \in Conn :
         \/ RxUnparsable(a, c)
         \/ RxMalformed(a, c)
         \/ \E seq \in Sequence :
              \/ RxStaleSequence(a, c, seq)
              \/ RxNoCommand(a, c, seq)
              \/ \E channels, fs \in Vectors : RxCdc(a, c, seq, channels, fs)
              \/ RxHello(a, c, seq)
              \/ RxUnknownCommand(a, c, seq)

Receive(a) == process = "running" /\ ReceiveFrom(a)

Tick(c) == process = "running" /\ TimerTick(c)

(* The search for an address compares it with freed memory: undefined, and
   the model follows one outcome.  A new connection c of an unregistered
   address gets the freed block back, so that the stray key is its own
   address, and the search of ConnectionContainerAddConnection finds it. *)
StrayKeyIsFound(c) ==
    /\ process = "stray_key"
    /\ state[c] = "FREED"
    /\ process' = "assert_failed"
    /\ UNCHANGED <<connVars, controlVars, servos, failsafe>>

Next ==
    \/ \E a \in Addr : Receive(a)
    \/ \E c \in Conn : Tick(c) \/ StrayKeyIsFound(c)

Spec == Init /\ [][Next]_vars

(* Every timer is periodic and the reactor dispatches every ready
   descriptor; nothing is assumed of the clients. *)
FairSpec == Spec /\ \A c \in Conn : WF_vars(Tick(c))
=============================================================================
