---------------------------- MODULE NodeRegistry ----------------------------
(***************************************************************************)
(* What the registry promises about its nodes, without mutex, handlers,    *)
(* temporary files or processes: clients see one map from node to record   *)
(* (served) and there is one durable map (saved).                          *)
(***************************************************************************)
CONSTANTS
    NodeID,
    Version,    \* the records a node may register
    Absent      \* the node is not registered

VARIABLES
    served,     \* what a request that finds the mutex free reads
    saved       \* what a restart would load

rvars == <<served, saved>>

Record == Version \cup {Absent}

Init ==
    /\ saved \in [NodeID -> Record]
    /\ served = saved

\* A registration or a removal that answers 200: it replaces one record,
\* and everything served becomes durable in the same step.
Commit(n, r) ==
    /\ served' = [served EXCEPT ![n] = r]
    /\ saved' = served'

\* One that answers 500: served nevertheless, not durable.
FailedSave(n, r) ==
    /\ served' = [served EXCEPT ![n] = r]
    /\ UNCHANGED saved

\* The server stops; after the restart it serves what is durable.
Recover ==
    /\ served' = saved
    /\ UNCHANGED saved

Next ==
    \/ \E n \in NodeID, r \in Record : Commit(n, r) \/ FailedSave(n, r)
    \/ Recover

Spec == Init /\ [][Next]_rvars
=============================================================================
