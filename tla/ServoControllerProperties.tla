--------------------- MODULE ServoControllerProperties ---------------------
(***************************************************************************)
(* What is to hold of ServoController.                                     *)
(***************************************************************************)
EXTENDS ServoController

(* The per-connection FSMs, the container's activeConnectionObject and the
   system FSM are three records of who controls the servos, written at
   different places.  They agree: a connection is in CONN_ACTIVE or
   CONN_FAILSAFE exactly when it is the active one, so no two are, and the
   system FSM is idle only when there is none. *)
ExclusiveControl ==
    /\ \A c \in Conn : state[c] \in InControl <=> active = c
    /\ sysState = "SYS_IDLE" => active = None

(* The container and the FSMs agree on who is registered: an address leads
   to a live connection of that address, and a connection past CONN_IDLE is
   found under its address (so the next datagram reaches it and not a new
   connection, and A4 removes its own entry). *)
RegistryAgrees ==
    /\ \A a \in Addr : container[a] # None =>
         /\ addr[container[a]] = a
         /\ state[container[a]] \in Registered
    /\ \A c \in Conn : state[c] \in Registered =>
         /\ addr[c] \in Addr
         /\ container[addr[c]] = c

(* They agree until the tree has lost an inner node, although datagrams that
   create, register and delete connections are interleaved with the timers of
   connections the container does not know.  (After that the tree has one
   connection under a freed key and none under its own address.) *)
RegistryConsistent == process = "running" => RegistryAgrees

(* DBG_ASSERT(NULL == avlFind(...)) in ConnectionContainerAddConnection ends
   the process when it fails.  Only a stray key makes it fail: not the several
   connections of one address that can be alive at a time (those the container
   does not find), whatever datagrams and ticks come between them. *)
AssertionNeedsStrayKey ==
    [][process = "running" => process' # "assert_failed"]_vars

(* It fails in no state at all as long as clients come from two addresses, for
   then the tree loses no inner node; with three addresses it can. *)
NoAssertionFails == process # "assert_failed"

(* While the controlling connection is in CONN_FAILSAFE the servos stay at
   the stored failsafe positions, whatever the other clients send. *)
FailsafeHeld ==
    (\E c \in Conn : state[c] = "CONN_FAILSAFE") => servos = failsafe

(* Control never passes from one connection to another in one step: the
   second has to wait for the first to give it up. *)
NoStealing ==
    [][active # None /\ active' # active => active' = None]_vars

(* The servos move only on behalf of the connection that is active after the
   step: because it handled a newer sequence number, or because its timer
   expired and put it in CONN_FAILSAFE. *)
OnlyControllerMovesServos ==
    [][servos' # servos =>
         \E c \in Conn :
           /\ active' = c
           /\ \/ state'[c] = "CONN_ACTIVE" /\ lastSequence'[c] > lastSequence[c]
              \/ state[c] = "CONN_ACTIVE" /\ state'[c] = "CONN_FAILSAFE"]_vars

(* A connection leaves CONN_FAILSAFE only on a datagram from its own address:
   neither its timer, nor another client, nor a datagram that is handled by a
   connection the container does not know ends the failsafe of a client that
   said nothing. *)
FailsafeEndsWithOwnDatagram ==
    [][\A c \in Conn :
         state[c] = "CONN_FAILSAFE" /\ state'[c] # "CONN_FAILSAFE" =>
           ReceiveFrom(addr[c])]_vars

(* Nobody is active, and yet the system FSM says that someone is. *)
ControlLost == sysState = "SYS_CONTROLLING" /\ active = None

(* Once control is lost (a rejected datagram deleted the active connection
   without the transition to passive) it stays lost: no client gets the
   servos again and they keep their last position. *)
LostControlStaysLost ==
    [][ControlLost => ControlLost' /\ UNCHANGED <<servos, failsafe>>]_vars

(* The detailed model implements the abstract lock. *)
LockMode ==
    IF sysState = "SYS_IDLE"                  THEN "free"
    ELSE IF active = None                     THEN "lost"
    ELSE IF state[active] = "CONN_FAILSAFE"   THEN "failsafe"
    ELSE                                           "controlled"

Lock == INSTANCE ControlLock WITH
    Client <- Addr, Nobody <- None, Position <- [Servo -> Nat],
    Off <- [s \in Servo |-> 0], mode <- LockMode,
    holder <- IF active = None THEN None ELSE addr[active],
    output <- servos, fallback <- failsafe

(* Every behaviour of the controller is one of the abstract lock. *)
ImplementsLock == Lock!Spec
-----------------------------------------------------------------------------
(***************************************************************************)
(* Liveness, under FairSpec                                                *)
(***************************************************************************)

(* A connection nobody registered (garbage or a premature cdc created it)
   is freed after its timer has expired. *)
UnregisteredFreed ==
    \A c \in Conn :
        state[c] = "CONN_IDLE" ~> (state[c] # "CONN_IDLE" \/ process # "running")

Silent(a) == <>[][~ Receive(a)]_vars

(* When the clients of an address fall silent for good, the program forgets
   them: it ends up with at most one connection of the address, and that one
   in CONN_FAILSAFE, because the others are freed.  (Where the servos are then
   is the subject of SilenceEndsInFailsafe.) *)
SilentClientIsForgotten ==
    \A a \in Addr :
        Silent(a) =>
          <>[](\/ process # "running"
               \/ \A c \in Conn : addr[c] = a => state[c] = "CONN_FAILSAFE")

(* The servos do not stay with the last command of a client that controls them
   and goes silent: unless it sends a newer command, or one whose rejection
   frees its connection, they end up in the failsafe positions. *)
SilenceEndsInFailsafe ==
    \A c \in Conn, q \in Sequence :
        state[c] = "CONN_ACTIVE" /\ lastSequence[c] = q
          ~> \/ process # "running"
             \/ lastSequence[c] > q
             \/ state[c] = "FREED"
             \/ state[c] = "CONN_FAILSAFE" /\ servos = failsafe
-----------------------------------------------------------------------------
(***************************************************************************)
(* What the repository says and the code does not do                       *)
(***************************************************************************)

(* SystemFsm.h: the transition to passive "must be called when the active
   connection becomes inactive". *)
ControlReleased == active = None => sysState = "SYS_IDLE"

(* ConnectionFsmTest.c, testConnectionFsm_State_Active_Event_RecvHello: a
   hello in CONN_ACTIVE runs A6, which sets the servos to failsafe. *)
HelloSetsFailsafe ==
    [][\A c \in Conn :
         state[c] = "CONN_ACTIVE" /\ state'[c] = "CONN_IDENTIFIED"
           => servos' = failsafe]_vars

(* Connection_States.uxf has an arrow from CONN_FAILSAFE to CONN_ACTIVE, and
   the table of ConnectionFsm.c and its test a cdc that takes it.  (The caller
   passes a cdc to the FSM only in SYS_IDLE, when no connection is in
   CONN_FAILSAFE: a client that was silent for too long has to say hello.) *)
CdcEndsFailsafe ==
    [][\A a \in Addr, c \in Conn, seq \in Sequence, channels, fs \in Vectors :
         state[c] = "CONN_FAILSAFE" /\ RxCdc(a, c, seq, channels, fs)
           => state'[c] = "CONN_ACTIVE"]_vars
=============================================================================
