------------------------- MODULE MCTunnelConnection -------------------------
(* Instances of TunnelConnection for TLC; the .cfg files give the values.   *)
EXTENDS TunnelConnection

(* Frames go one way in a behaviour, to keep it small: from the device or   *)
(* to it.                                                                   *)
OneWay == (dev.id = 0 /\ dev.mc = "NONE") \/ history.sends = 0
=============================================================================
