------------------------------ MODULE MCOperators -------------------------------
(***************************************************************************)
(* The two consoles.  They share no variable and are looked at one at a    *)
(* time: each takes its steps while the other has not begun.               *)
(***************************************************************************)
EXTENDS MCPolicyStore, AdminConsole

PolicyStoreStep == ConsoleInit /\ Next /\ UNCHANGED vars
ConnectionsStep == Init /\ ConsoleNext /\ UNCHANGED storeVars

OperatorsInit == Init /\ ConsoleInit
OperatorsNext == PolicyStoreStep \/ ConnectionsStep

OperatorsSpec == OperatorsInit /\ [][OperatorsNext]_<<storeVars, vars>>
================================================================================
