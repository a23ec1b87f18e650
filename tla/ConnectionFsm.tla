--------------------------- MODULE ConnectionFsm ---------------------------
(***************************************************************************)
(* The protocol state machine of one connection (ConnectionFsm.c): the     *)
(* transition table that NewConnectionFsm fills in, and the way            *)
(* ExecuteEvent runs a row of it.  The module has no variables; the        *)
(* effects of the actions A1..A6 are callbacks that Connection.c passes    *)
(* in, and they are modelled in ServoController.                           *)
(***************************************************************************)
EXTENDS Integers, Sequences

ConnState == {"CONN_IDLE", "CONN_IDENTIFIED", "CONN_ACTIVE", "CONN_FAILSAFE"}

(* A connection in these states is in the container. *)
Registered == {"CONN_IDENTIFIED", "CONN_ACTIVE", "CONN_FAILSAFE"}

(* A connection in these states has the right to move the servos. *)
InControl == {"CONN_ACTIVE", "CONN_FAILSAFE"}

ConnEvent == {"HELLO", "CDC", "TIMEOUT", "INVALID"}

(* A row: the callbacks in the order of the array, and the next state. *)
Row(actions, next) == [actions |-> actions, next |-> next]

(* Mutant: an unregistered connection survives its timeout. *)
IdleRowKeepsOnTimeout(e) ==
    CASE e = "HELLO"   -> Row(<<"A1_Add">>, "CONN_IDENTIFIED")
      [] e = "TIMEOUT" -> Row(<<>>, "CONN_IDLE")
      [] OTHER         -> Row(<<"A5_Delete">>, "CONN_IDLE")

IdleRow(e) ==
    IF e = "HELLO" THEN Row(<<"A1_Add">>, "CONN_IDENTIFIED")
                   ELSE Row(<<"A5_Delete">>, "CONN_IDLE")

(* Mutant: A4 and A5 swapped. *)
IdentifiedRowDeletesFirst(e) ==
    CASE e = "HELLO" -> Row(<<>>, "CONN_IDENTIFIED")
      [] e = "CDC"   -> Row(<<"A2_SetActive">>, "CONN_ACTIVE")
      [] OTHER       -> Row(<<"A5_Delete", "A4_Remove">>, "CONN_IDLE")

IdentifiedRow(e) ==
    CASE e = "HELLO" -> Row(<<>>, "CONN_IDENTIFIED")
      [] e = "CDC"   -> Row(<<"A2_SetActive">>, "CONN_ACTIVE")
      [] OTHER       -> Row(<<"A4_Remove", "A5_Delete">>, "CONN_IDLE")

(* Mutant: the next state without A6. *)
ActiveRowForgetsFailsafe(e) ==
    CASE e = "HELLO"   -> Row(<<"A3_SetPassive">>, "CONN_IDENTIFIED")
      [] e = "CDC"     -> Row(<<>>, "CONN_ACTIVE")
      [] e = "TIMEOUT" -> Row(<<>>, "CONN_FAILSAFE")
      [] OTHER         -> Row(<<"A4_Remove", "A5_Delete">>, "CONN_IDLE")

(* Mutant: A6 without the next state. *)
ActiveRowStaysActive(e) ==
    CASE e = "HELLO"   -> Row(<<"A3_SetPassive">>, "CONN_IDENTIFIED")
      [] e = "CDC"     -> Row(<<>>, "CONN_ACTIVE")
      [] e = "TIMEOUT" -> Row(<<"A6_Failsafe">>, "CONN_ACTIVE")
      [] OTHER         -> Row(<<"A4_Remove", "A5_Delete">>, "CONN_IDLE")

ActiveRow(e) ==
    CASE e = "HELLO"   -> Row(<<"A3_SetPassive">>, "CONN_IDENTIFIED")
      [] e = "CDC"     -> Row(<<>>, "CONN_ACTIVE")
      [] e = "TIMEOUT" -> Row(<<"A6_Failsafe">>, "CONN_FAILSAFE")
      [] OTHER         -> Row(<<"A4_Remove", "A5_Delete">>, "CONN_IDLE")

(* Mutant: a hello in CONN_FAILSAFE without A3. *)
FailsafeRowKeepsControl(e) ==
    CASE e = "HELLO"   -> Row(<<>>, "CONN_IDENTIFIED")
      [] e = "CDC"     -> Row(<<>>, "CONN_ACTIVE")
      [] e = "TIMEOUT" -> Row(<<>>, "CONN_FAILSAFE")
      [] OTHER         -> Row(<<"A4_Remove", "A5_Delete">>, "CONN_IDLE")

(* Mutant: the silent client gives control back by itself. *)
FailsafeRowGivesUp(e) ==
    CASE e = "CDC"     -> Row(<<>>, "CONN_ACTIVE")
      [] e = "INVALID" -> Row(<<"A4_Remove", "A5_Delete">>, "CONN_IDLE")
      [] OTHER         -> Row(<<"A3_SetPassive">>, "CONN_IDENTIFIED")

FailsafeRow(e) ==
    CASE e = "HELLO"   -> Row(<<"A3_SetPassive">>, "CONN_IDENTIFIED")
      [] e = "CDC"     -> Row(<<>>, "CONN_ACTIVE")
      [] e = "TIMEOUT" -> Row(<<>>, "CONN_FAILSAFE")
      [] OTHER         -> Row(<<"A4_Remove", "A5_Delete">>, "CONN_IDLE")

Transition(s, e) ==
    CASE s = "CONN_IDLE"       -> IdleRow(e)
      [] s = "CONN_IDENTIFIED" -> IdentifiedRow(e)
      [] s = "CONN_ACTIVE"     -> ActiveRow(e)
      [] OTHER                 -> FailsafeRow(e)

(* The callback that frees the FSM object: ExecuteEvent returns after it. *)
TerminateAfterThisAction == "A5_Delete"

(* ExecuteEvent's loop calls callback a: it is in the row and no earlier
   entry has ended the loop. *)
Called(acts, a) ==
    \E i \in DOMAIN acts :
        /\ acts[i] = a
        /\ \A j \in 1 .. (i - 1) : acts[j] # TerminateAfterThisAction

Runs(s, e, a) == Called(Transition(s, e).actions, a)

(* The state ExecuteEvent leaves behind; "FREED" when the object is gone. *)
StateAfter(s, e) ==
    IF Runs(s, e, TerminateAfterThisAction) THEN "FREED"
                                            ELSE Transition(s, e).next
=============================================================================
