------------------------------- MODULE MCCall -------------------------------
(* What a call carries, side by side: its parameters, through the driver   *)
(* and the service, and the registers, through the monitor.  A behaviour   *)
(* is one of one of them; the other stands still.                          *)
(*                                                                         *)
(* Operations of two parameters over two buffers, that may be the same     *)
(* one, with sizes below and above the service's answer.                   *)
EXTENDS ParamPath, Monitor, TLC

CONSTANTS b1, b2
Symmetry == Permutations({b1, b2})

VARIABLE part
carriedVars == <<part, vars, monitorVars>>

ParamsStep == part = "params" /\ Next /\ UNCHANGED <<part, monitorVars>>
MonitorStep == part = "registers" /\ MonitorNext /\ UNCHANGED <<part, vars>>

(* The abort handler's endless loop.                                       *)
HandlerLoops == part = "registers" /\ halted /\ UNCHANGED carriedVars

CarriedInit ==
    /\ part \in {"params", "registers"} /\ Init /\ MonitorInit
    /\ part # "params" => Idle("unknown", [i \in Slots |-> NoParam], FALSE)
CarriedNext == ParamsStep \/ MonitorStep \/ HandlerLoops
CarriedSpec == CarriedInit /\ [][CarriedNext]_carriedVars
=============================================================================
