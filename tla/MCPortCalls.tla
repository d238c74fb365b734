---------------------------- MODULE MCPortCalls ----------------------------
(* Instances of PortCalls for TLC: the faults its ports may have.          *)
EXTENDS PortCalls

CompatiblePorts == {}
AllFaults == {"unhandled", "invalidResult"}
=============================================================================
