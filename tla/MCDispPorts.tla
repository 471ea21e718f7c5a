----------------------------- MODULE MCDispPorts ------------------------------
(* Values for TLC: a DL-1xx of unknown SKU and a T6 with few modes.        *)
EXTENDS DispPorts

CONSTANTS dl, t6

MCBuiltin  == <<5, 2, 1>>
MCMaxArea  == dl :> 0 @@ t6 :> 5
MCSmallSku == dl :> 4 @@ t6 :> 0
MCAccepts  == dl :> {2, 3, 4, 5} @@ t6 :> {1, 5}
MCReports  == dl :> {[pref |-> 3, listed |-> {2, 3, 4}]} @@ t6 :> {[pref |-> 0, listed |-> {2, 1}]}
MCCfg      == 0 :> [policy |-> "MAX", mode |-> 0] @@ 1 :> [policy |-> "PREFERRED", mode |-> 2]

\* One mode, for the run that is about the devices.
OneBuiltin == <<1>>
OneAccepts == dl :> {1} @@ t6 :> {1}
OneReports == dl :> {[pref |-> 1, listed |-> {1}]} @@ t6 :> {[pref |-> 1, listed |-> {1}]}
OneCfg     == 0 :> [policy |-> "MAX", mode |-> 0] @@ 1 :> [policy |-> "MAX", mode |-> 1]

=============================================================================
