------------------------------ MODULE MCConsole ------------------------------
(* The pages of the console.  They share nothing but the socket's events, of  *)
(* which each page reads its own, so one behaviour follows one page: the list *)
(* of alerts, the rules with their drawer, or the header and chart or the     *)
(* panels of a device.                                                        *)
EXTENDS AlertsView, DeviceView, TLC

CONSTANTS x, y

Symmetry == Permutations({x, y})

VARIABLE page

consoleVars == <<page, liveVars, alertsVars, deviceVars>>

ConsoleInit ==
    /\ page \in {"alerts", "rules", "header", "panels"}
    /\ LiveInit /\ AlertsInit /\ DeviceInit

ConsoleNext ==
    /\ UNCHANGED page
    /\ \/ page = "alerts" /\ AlertsNext /\ UNCHANGED deviceVars
       \/ page = "rules" /\ RulesNext /\ UNCHANGED deviceVars
       \/ page = "header" /\ HeaderNext /\ UNCHANGED alertsVars
       \/ page = "panels" /\ PanelsNext /\ UNCHANGED alertsVars

Spec == ConsoleInit /\ [][ConsoleNext]_consoleVars
==============================================================================
