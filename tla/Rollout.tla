------------------------------- MODULE Rollout -------------------------------
(***************************************************************************)
(* A Cloudflare registry is set up (Deploy) and a node is installed that   *)
(* registers with it (NodeInstaller), both at their own pace.              *)
(***************************************************************************)
EXTENDS Deploy, NodeInstaller

ASSUME RolloutAssumption == Registry = Database

vars == <<deployVars, installerVars>>

TypeOK == DeployTypeOK /\ InstallerTypeOK

Init == DeployInit /\ InstallerInit

\* POST /register with a register token that the operator was shown: the
\* Worker looks it up in its own database and stores the row there.
registerWithWorker ==
    /\ worker \in migrated
    /\ \E id \in printed : id[2] = "register" /\ [id |-> id, db |-> worker] \in tokens
    /\ register_node(worker)

Next ==
    \/ DeployNext /\ UNCHANGED installerVars
    \/ (NodeNext \/ registerWithWorker) /\ UNCHANGED deployVars

Spec == Init /\ [][Next]_vars

-----------------------------------------------------------------------------
\* When an installation with registration has ended well, subscribers of the
\* deployed Worker are given the passwords that sing-box accepts, also if the
\* setup of the registry is run again meanwhile, until the next installation.
SubscribersServed ==
    step = "done" /\ REGISTER_CHOICE => rows[worker] = running
=============================================================================
