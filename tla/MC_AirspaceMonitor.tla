------------------------ MODULE MC_AirspaceMonitor ------------------------
(* Model-checking instance of AirspaceMonitor: one aircraft callsign and  *)
(* one valid designator.  Every handler of the monitor touches only the   *)
(* entries of its own callsign, except clear(), the situation pruning and *)
(* the plugin load, which treat all callsigns alike; what goes wrong for  *)
(* one aircraft across its incarnations (a stale timer, a parked ICAO      *)
(* reply, a removal racing a readiness check) goes wrong with one         *)
(* callsign.                                                              *)
EXTENDS AirspaceMonitor, TLC

CONSTANTS a1, i1

MC_Callsigns == {a1}
MC_Icaos     == {i1}
=============================================================================
