----------------------------- MODULE SystemFsm -----------------------------
(***************************************************************************)
(* The system state machine (SystemFsm.c): is anyone controlling the       *)
(* servos?  Its one action, SYS_Action_1_SetServosToPassiveMode, has an    *)
(* empty body (ConnectionContainer.c), so a row is only its next state.    *)
(***************************************************************************)

SysState == {"SYS_IDLE", "SYS_CONTROLLING"}

SysEvent == {"TRANS_ACTIV", "TRANS_PASSIV"}

SysNextState(s, e) ==
    CASE s = "SYS_IDLE" /\ e = "TRANS_ACTIV"         -> "SYS_CONTROLLING"
      [] s = "SYS_IDLE" /\ e = "TRANS_PASSIV"        -> "SYS_IDLE"
      [] s = "SYS_CONTROLLING" /\ e = "TRANS_ACTIV"  -> "SYS_CONTROLLING"
      [] s = "SYS_CONTROLLING" /\ e = "TRANS_PASSIV" -> "SYS_IDLE"
=============================================================================
