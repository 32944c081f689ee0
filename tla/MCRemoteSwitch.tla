--------------------------- MODULE MCRemoteSwitch ---------------------------
(* The instances of RemoteSwitch that TLC checks. *)
EXTENDS RemoteSwitch

CONSTANTS f, o, a1, a2, a3
==============================================================================
