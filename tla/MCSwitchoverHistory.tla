------------------------ MODULE MCSwitchoverHistory ------------------------
(* A small instance of SwitchoverHistory for TLC. *)
EXTENDS SwitchoverHistory

TwoModes == {[mode |-> "active", noWait |-> FALSE],
             [mode |-> "standby", noWait |-> FALSE]}
=============================================================================
