------------------------------ MODULE Telemetry ------------------------------
(* TransmitTelemetry.c beside the core: the timer callback that tells every     *)
(* registered client who is in control, who else is there and which telemetry   *)
(* sources the server has.  It changes nothing of the core; a datagram to a     *)
(* client may be lost.                                                          *)
EXTENDS ServoControllerProperties

CONSTANTS Source,    \* the telemetry sources the program knows
          Available, \* those the machine has
          Observer   \* the addresses whose display is followed (bound)

ASSUME ObserverAssumption == Available \subseteq Source /\ Observer \subseteq Addr

VARIABLES hTelemetrySource, \* the sources that were found available at the start
          shown             \* the last message that came to each observer, None before

teleVars == <<hTelemetrySource, shown>>

(* TransmitTelemetryAddSources asks each source once and drops the others. *)
NewTransmitTelemetry ==
    /\ hTelemetrySource = {s \in Source : s \in Available}
    /\ shown = [o \in Observer |-> None]

Registrants == {a \in Addr : container[a] # None}

(* The members of the message: no "activeip" when nobody is in control. *)
GetJsonTrasmitTelemetryMsg ==
    [activeip  |-> IF active = None THEN None ELSE addr[active],
     passiveip |-> {a \in Registrants : container[a] # active},
     telemetry |-> hTelemetrySource]

(* Mutant: only who is not in control is told. *)
SendToPassive == {a \in Registrants : container[a] # active}

SendToAll == Registrants

(* The callback; "delivered" are the addressees the network does not lose. *)
TransmitTelemetry(delivered) ==
    /\ process = "running"
    /\ delivered \subseteq SendToAll
    /\ shown' = [o \in Observer |-> IF o \in delivered THEN GetJsonTrasmitTelemetryMsg ELSE shown[o]]
    /\ UNCHANGED <<vars, hTelemetrySource>>

TeleInit == Init /\ NewTransmitTelemetry

Core == Next /\ UNCHANGED teleVars

TeleNext == Core \/ \E delivered \in SUBSET Observer : TransmitTelemetry(delivered)

teleAllVars == <<vars, teleVars>>

TeleSpec == TeleInit /\ [][TeleNext]_teleAllVars

(* The timers of the connections are periodic, so is the one of the telemetry; a
   network that delivers to an observer again and again is assumed. *)
TeleFairSpec ==
    /\ TeleSpec
    /\ \A c \in Conn : WF_vars(Tick(c))
    /\ \A o \in Observer : SF_teleAllVars(TransmitTelemetry({o}))
-----------------------------------------------------------------------------
(* The list of clients is made from the container and "activeip" from the active
   connection, which the callbacks of the FSM keep apart.  Every message all the
   same lists its addressee exactly once, as the one in control or as one who is
   not, lists nobody as both, and names no source the machine lacks. *)
ListedOnce(o, msg) ==
    /\ o = msg.activeip \/ o \in msg.passiveip
    /\ msg.activeip \notin msg.passiveip
    /\ msg.telemetry \subseteq Available

ShownIsCoherent == \A o \in Observer : shown[o] # None => ListedOnce(o, shown[o])

(* A client that stays registered ends up seeing who has the servos, once that
   no longer changes, whatever was lost before and however often control and
   the registrations changed: the display does not stay with an earlier holder. *)
Settles(o, holder) ==
    <>[](/\ process = "running" /\ container[o] # None
         /\ holder = IF active = None THEN None ELSE addr[active])
Learns(o, holder) == <>[](shown[o] # None /\ shown[o].activeip = holder)

ClientsLearnWhoControls ==
    \A o \in Observer, holder \in Addr \cup {None} : Settles(o, holder) => Learns(o, holder)
=============================================================================
