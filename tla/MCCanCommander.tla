--------------------------- MODULE MCCanCommander ---------------------------
(* One motor with two modes, the commander on Linux or Windows; the other  *)
(* master sends what the panel's buttons chosen here do not.               *)
EXTENDS CanCommander

TwoModes == {"torque", "speed"}
AllInterfaces == {"socketcan", "pcan", "kvaser", "canable"}
PanelButtons == {"start", "selectTorque", "selectSpeed", "setSpeed"}
OtherMasters == {"stop", "emergencyStop", "clearFault", "identify", "encoder",
                 "speedPid"}
=============================================================================
