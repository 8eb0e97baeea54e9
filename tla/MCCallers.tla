------------------------------- MODULE MCCallers --------------------------------
(***************************************************************************)
(* The programs on the callers' side and the path of what they send.  They *)
(* share no variable and are looked at one at a time: each takes its steps *)
(* while the other two have not begun.                                     *)
(***************************************************************************)
EXTENDS Clients, Bridge, MCDataPath

callersVars == <<vars, bridgeVars, dataVars>>

LibraryStep == BridgeInit /\ DataInit /\ Next /\ UNCHANGED <<bridgeVars, dataVars>>
BridgeStep == Init /\ DataInit /\ BridgeNext /\ UNCHANGED <<vars, dataVars>>
DataStep == Init /\ BridgeInit /\ DataNext /\ UNCHANGED <<vars, bridgeVars>>

CallersInit == Init /\ BridgeInit /\ DataInit
CallersNext == LibraryStep \/ BridgeStep \/ DataStep

\* The fairness of BridgeSpec and DataSpec, for the one that runs.
CallersSpec ==
    /\ CallersInit /\ [][CallersNext]_callersVars
    /\ WF_bridgeVars(Init /\ DataInit /\ LogIn) /\ WF_bridgeVars(Init /\ DataInit /\ Close)
    /\ \A q \in Requests : /\ WF_bridgeVars(Init /\ DataInit /\ Fetch(q))
                           /\ WF_bridgeVars(Init /\ DataInit /\ Answer(q))
    /\ WF_dataVars(Init /\ BridgeInit /\ Record) /\ WF_dataVars(Init /\ BridgeInit /\ LetGo /\ Capture)
================================================================================
