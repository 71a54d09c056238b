---------------------------- MODULE RolloutProofs ----------------------------
(***************************************************************************)
(* Theorems about the setup of a Cloudflare registry and the installation  *)
(* of a node, for any number of runs of both scripts.                      *)
(***************************************************************************)
EXTENDS Rollout, TLAPS

AfterSecret ==
    {"save", "migrate", "deploy", "register", "print register", "subscribe",
     "print subscribe", "complete"}
AfterMigrate == AfterSecret \ {"save", "migrate"}
AfterDeploy == AfterMigrate \ {"deploy"}
AfterRegister == AfterDeploy \ {"register", "print register"}

\* A run of the script that is under way, or complete, has been counted.
Counted == pc # "idle" => runs >= 1

\* Every admin token the script holds or has stored has been shown.
TokenShown ==
    /\ 0 \in known
    /\ token \in known
    /\ secret \in known \cup {NoID}

\* A deployed Worker's database is the one of wrangler.toml, which is not
\* being rewritten.
Bound == worker # NoID => worker = toml /\ pc \notin {"toml", "write"}

\* What has been shown, or is about to be, is in the Worker's database.
Shown ==
    /\ PrintedTokensWork
    /\ \A kind \in Kind :
          pc = answered[kind] => [id |-> <<runs, kind>>, db |-> worker] \in tokens
    /\ worker = NoID => printed = {} /\ tokens = {}

\* What each question answered yes has achieved.
Achieved ==
    ~declined =>
        /\ pc \in AfterSecret => secret \in known
        /\ pc \in AfterMigrate => toml \in migrated
        /\ pc \in AfterDeploy => worker = toml
        /\ pc \in AfterRegister => <<runs, "register">> \in printed
        /\ pc = "complete" => <<runs, "subscribe">> \in printed

DeployInv ==
    DeployTypeOK /\ Counted /\ TokenShown /\ Bound /\ Shown /\ Achieved

\* The passwords of a run on their way through the three places.
Through ==
    /\ step \in {"config", "check", "restart", "outputs"} => choice \in Passwords
    /\ step \in {"check", "restart", "outputs"} => config = written
    /\ step \in {"restart", "outputs", "register", "done"} => config # Broken
    /\ step \in {"outputs", "register", "done"} => running = config
    /\ step \in {"register", "done"} => node_json = config

\* Without a new password since, and with a portable one, whatever can be
\* registered next has the Trojan password that is registered.
Unchanged ==
    \A r \in Registry :
        rows[r] # Nothing /\ ~meant /\ portable(rows[r].trojan) =>
            /\ node_json \in Passwords => node_json.trojan = rows[r].trojan
            /\ step \in {"config", "check", "restart", "outputs"}
                  => choice.trojan = rows[r].trojan

InstallerInv == InstallerTypeOK /\ Through

\* The node is registered in the Worker's database only.
Served ==
    /\ \A r \in Registry : rows[r] # Nothing => r = worker
    /\ step = "done" /\ REGISTER_CHOICE
          => worker # NoID /\ rows[worker] = node_json

RolloutInv == DeployInv /\ InstallerInv /\ Unchanged /\ Served

-----------------------------------------------------------------------------
(* The setup.                                                              *)

LEMMA Answers ==
    /\ Kind = {"register", "subscribe"}
    /\ answered["register"] = "print register"
    /\ answered["subscribe"] = "print subscribe"
    /\ afterToken["register"] = "subscribe"
    /\ afterToken["subscribe"] = "complete"
BY DEF Kind, answered, afterToken

\* What is shown stays in the Worker's database if neither changes.
LEMMA ShownKept ==
    ASSUME Shown, UNCHANGED <<printed, tokens, worker>>,
           pc' \notin {"print register", "print subscribe"}
    PROVE  Shown'
BY Answers DEF Shown, PrintedTokensWork

LEMMA RowsKept ==
    ASSUME DeployTypeOK, UNCHANGED tokens, migrated \subseteq migrated'
    PROVE  tokens' \subseteq TokenRows'
BY DEF DeployTypeOK, TokenRows

LEMMA Bounds == 0 \in 0 .. MaxRuns /\ 0 \in AdminToken
BY DeployAssumption DEF AdminToken

LEMMA Counting ==
    ASSUME DeployTypeOK, Counted, pc # "idle"
    PROVE  runs \in 1 .. MaxRuns
BY DeployAssumption DEF DeployTypeOK, Counted

LEMMA DeployStarts == DeployInit => DeployInv
<1> USE DeployAssumption DEF DeployAssumption
<1> SUFFICES ASSUME DeployInit PROVE DeployInv
  OBVIOUS
<1>1. DeployTypeOK
  <2>1. pc \in Steps /\ declined \in BOOLEAN
    BY DEF DeployInit, Steps
  <2>2. account \subseteq Database /\ migrated \subseteq account
    BY DEF DeployInit, Database
  <2>3. runs \in 0 .. MaxRuns /\ token \in AdminToken /\ known \subseteq AdminToken
    BY Bounds DEF DeployInit
  <2> QED
    BY <2>1, <2>2, <2>3 DEF DeployInit, DeployTypeOK
<1>2. Shown
  BY Answers DEF DeployInit, Shown, PrintedTokensWork
<1> QED
  BY <1>1, <1>2 DEF DeployInit, DeployInv, Counted, TokenShown, Bound, Achieved,
     AfterSecret, AfterMigrate, AfterDeploy, AfterRegister

\* A step that only moves on, or ends the run, or skips a question.
LEMMA MovesKeep ==
    ASSUME DeployInv,
           \/ main \/ fail \/ prepare \/ useExistingDatabase
           \/ decline("secret", "migrate") \/ decline("migrate", "deploy")
           \/ decline("deploy", "register") \/ decline("register", "complete")
    PROVE  DeployInv' /\ UNCHANGED worker
<1> USE DeployAssumption DEF DeployAssumption, DeployInv, goto, decline, cloud, operator, locals,
        main, fail, prepare, useExistingDatabase
<1>1. /\ UNCHANGED <<toml, account, migrated, secret, worker, tokens, known, printed>>
      /\ databaseID' \in {databaseID, NoID} /\ token' \in {token, 0}
      /\ declined' \in BOOLEAN
      /\ pc' \in Steps \ {"toml", "write", "print register", "print subscribe"}
  BY DEF DeployTypeOK, Steps
<1>2. DeployTypeOK' /\ Counted'
  <2>1. tokens' \subseteq TokenRows'
    BY <1>1, RowsKept
  <2>2. runs' \in 0 .. MaxRuns /\ (pc' # "idle" => runs' >= 1)
    <3>1. CASE main
      BY <3>1 DEF DeployTypeOK
    <3>2. CASE ~main
      BY <3>2 DEF DeployTypeOK, Counted
    <3> QED
      BY <3>1, <3>2
  <2> QED
    BY <1>1, <2>1, <2>2, Bounds DEF DeployTypeOK, Counted
<1>3. TokenShown' /\ Bound'
  BY <1>1 DEF TokenShown, Bound
<1>4. Shown'
  BY <1>1, ShownKept
<1>5. Achieved'
  BY <1>1 DEF Achieved, AfterSecret, AfterMigrate, AfterDeploy, AfterRegister
<1> QED
  BY <1>1, <1>2, <1>3, <1>4, <1>5

\* ensureD1Database goes beyond its first test only while no Worker is deployed.
LEMMA DatabaseKeeps ==
    ASSUME DeployInv,
           \/ createDatabase \/ pasteDatabase \/ updateWranglerToml
           \/ writeWranglerToml \/ restoreWranglerToml
    PROVE  DeployInv' /\ UNCHANGED worker
<1> USE DeployAssumption DEF DeployAssumption, DeployInv, goto, cloud, operator, locals,
        createDatabase, pasteDatabase, updateWranglerToml, writeWranglerToml,
        restoreWranglerToml
<1>1. worker = NoID
  BY DEF currentID, Bound, DeployTypeOK, Database
<1>2. /\ UNCHANGED <<runs, token, declined, migrated, secret, worker, tokens, known, printed>>
      /\ account \subseteq account' /\ account' \subseteq Database
      /\ toml' \in Database \cup {Typo, NoID, Torn}
      /\ databaseID' \in Database \cup {Typo, NoID, Torn}
      /\ pc' \in {"idle", "toml", "write", "admin"}
      /\ pc' # "idle" => pc # "idle"
  BY DEF DeployTypeOK, Database
<1>3. DeployTypeOK' /\ Counted'
  <2>1. tokens' \subseteq TokenRows'
    BY <1>2, RowsKept
  <2> QED
    BY <1>2, <2>1 DEF DeployTypeOK, Counted, Steps
<1>4. TokenShown' /\ Bound'
  BY <1>1, <1>2 DEF TokenShown, Bound
<1>5. Shown'
  BY <1>2, ShownKept
<1>6. Achieved'
  BY <1>2 DEF Achieved, AfterSecret, AfterMigrate, AfterDeploy, AfterRegister
<1> QED
  BY <1>2, <1>3, <1>4, <1>5, <1>6

LEMMA SecretKeeps ==
    ASSUME DeployInv, ensureAdminToken \/ secretPut \/ showSecret \/ runMigrations
    PROVE  DeployInv' /\ UNCHANGED worker
<1> USE DeployAssumption DEF DeployAssumption, DeployInv, goto, cloud, operator, locals
<1>1. /\ UNCHANGED <<runs, toml, databaseID, declined, account, worker, tokens, printed>>
      /\ migrated \subseteq migrated'
      /\ known \subseteq known' /\ token' \in known' /\ secret' \in known' \cup {NoID}
      /\ secret \in known => secret' \in known'
      /\ pc' \in {"secret", "save", "migrate", "deploy"} /\ pc # "idle"
  BY DEF ensureAdminToken, secretPut, showSecret, runMigrations, TokenShown
<1>2. known' \subseteq AdminToken /\ migrated' \subseteq account
  BY DEF ensureAdminToken, secretPut, showSecret, runMigrations, DeployTypeOK,
     AdminToken
<1>3. DeployTypeOK' /\ Counted'
  <2>1. tokens' \subseteq TokenRows'
    BY <1>1, RowsKept
  <2> QED
    BY <1>1, <1>2, <2>1 DEF DeployTypeOK, Counted, Steps
<1>4. TokenShown' /\ Bound'
  BY <1>1 DEF TokenShown, Bound
<1>5. Shown'
  BY <1>1, ShownKept
<1>6. Achieved'
  <2>1. pc' = "save" => secret' \in known'
    BY DEF ensureAdminToken, secretPut, showSecret, runMigrations, TokenShown
  <2>2. pc' \in {"migrate", "deploy"} => pc \in {"save", "migrate"}
    BY DEF ensureAdminToken, secretPut, showSecret, runMigrations
  <2>3. pc' = "deploy" => toml' \in migrated'
    BY DEF ensureAdminToken, secretPut, showSecret, runMigrations
  <2> QED
    BY <1>1, <2>1, <2>2, <2>3 DEF Achieved, AfterSecret, AfterMigrate,
       AfterDeploy, AfterRegister
<1> QED
  BY <1>1, <1>3, <1>4, <1>5, <1>6

LEMMA DeployKeeps ==
    ASSUME DeployInv, deployWorker
    PROVE  DeployInv' /\ (worker # NoID => UNCHANGED worker)
<1> USE DeployAssumption DEF DeployAssumption, DeployInv, goto, cloud, operator, locals, deployWorker
<1>1. worker' = toml /\ worker' # NoID /\ (worker # NoID => worker' = worker)
  BY DEF DeployTypeOK, Database, Bound
<1>2. DeployTypeOK' /\ Counted'
  <2>1. tokens' \subseteq TokenRows'
    BY RowsKept
  <2> QED
    BY <1>1, <2>1 DEF DeployTypeOK, Counted, Steps
<1>3. TokenShown' /\ Bound'
  BY <1>1 DEF TokenShown, Bound
<1>4. Shown'
  BY <1>1, Answers DEF Shown, PrintedTokensWork
<1>5. Achieved'
  BY <1>1 DEF Achieved, AfterSecret, AfterMigrate, AfterDeploy, AfterRegister
<1> QED
  BY <1>1, <1>2, <1>3, <1>4, <1>5

LEMMA CreateTokenKeeps ==
    ASSUME DeployInv, NEW kind \in Kind, createToken(kind)
    PROVE  DeployInv' /\ UNCHANGED worker
<1> USE DeployAssumption DEF DeployAssumption, DeployInv, goto, cloud, operator, locals, createToken
<1> DEFINE row == [id |-> <<runs, kind>>, db |-> worker]
<1>1. worker # NoID /\ worker \in migrated /\ UNCHANGED <<worker, runs, printed>>
  BY DEF DeployTypeOK, Database
<1>2. \/ kind = "register" /\ pc = "register" /\ pc' = "print register"
      \/ kind = "subscribe" /\ pc = "subscribe" /\ pc' = "print subscribe"
  BY Answers
<1>3. DeployTypeOK' /\ Counted'
  <2>1. runs \in 1 .. MaxRuns
    BY <1>2, Counting
  <2>2. row \in TokenRows
    BY <1>1, <2>1 DEF TokenRows, TokenID
  <2>3. tokens' \subseteq TokenRows'
    BY <2>2 DEF DeployTypeOK, TokenRows
  <2> QED
    BY <1>1, <1>2, <2>1, <2>3 DEF DeployTypeOK, Counted, Steps
<1>4. TokenShown' /\ Bound'
  BY <1>1, <1>2 DEF TokenShown, Bound
<1>5. Shown'
  <2>1. tokens \subseteq tokens' /\ row \in tokens'
    OBVIOUS
  <2>2. \A k \in Kind : pc' = answered[k] => k = kind
    BY <1>2, Answers
  <2> QED
    BY <1>1, <2>1, <2>2 DEF Shown, PrintedTokensWork
<1>6. Achieved'
  BY <1>1, <1>2 DEF Achieved, AfterSecret, AfterMigrate, AfterDeploy, AfterRegister
<1> QED
  BY <1>1, <1>3, <1>4, <1>5, <1>6

LEMMA RunKeeps ==
    ASSUME DeployInv, NEW kind \in Kind, run(kind)
    PROVE  DeployInv' /\ UNCHANGED worker
<1> USE DeployAssumption DEF DeployAssumption, DeployInv, goto, cloud, operator, locals, run
<1>1. [id |-> <<runs, kind>>, db |-> worker] \in tokens /\ UNCHANGED <<worker, tokens, runs>>
  BY DEF Shown
<1>2. \/ kind = "register" /\ pc = "print register" /\ pc' = "subscribe"
      \/ kind = "subscribe" /\ pc = "print subscribe" /\ pc' = "complete"
  BY Answers
<1>3. DeployTypeOK' /\ Counted'
  <2>1. runs \in 1 .. MaxRuns
    BY <1>2, Counting
  <2>2. <<runs, kind>> \in TokenID
    BY <2>1 DEF TokenID
  <2>3. tokens' \subseteq TokenRows'
    BY RowsKept
  <2>4. printed' \subseteq TokenID
    BY <2>2 DEF DeployTypeOK
  <2> QED
    BY <1>2, <2>1, <2>3, <2>4 DEF DeployTypeOK, Counted, Steps
<1>4. TokenShown' /\ Bound'
  BY <1>2 DEF TokenShown, Bound
<1>5. Shown'
  <2>1. worker # NoID
    BY <1>1 DEF Shown
  <2>2. \A k \in Kind : pc' # answered[k]
    BY <1>2, Answers
  <2> QED
    BY <1>1, <2>1, <2>2 DEF Shown, PrintedTokensWork
<1>6. Achieved'
  <2>1. <<runs, kind>> \in printed' /\ printed \subseteq printed'
    OBVIOUS
  <2> QED
    BY <1>1, <1>2, <2>1 DEF Achieved, AfterSecret, AfterMigrate, AfterDeploy,
       AfterRegister
<1> QED
  BY <1>1, <1>3, <1>4, <1>5, <1>6

\* A deployed Worker keeps its database.
LEMMA DeployStep ==
    ASSUME DeployInv, DeployNext
    PROVE  DeployInv' /\ (worker # NoID => worker' = worker)
BY MovesKeep, DatabaseKeeps, SecretKeeps, DeployKeeps, CreateTokenKeeps, RunKeeps
   DEF DeployNext

LEMMA DeployStutter ==
    ASSUME DeployInv, UNCHANGED deployVars
    PROVE  DeployInv' /\ UNCHANGED worker
BY DEF deployVars, locals, cloud, operator, DeployInv, DeployTypeOK, TokenRows,
   Counted, TokenShown, Bound, Shown, PrintedTokensWork, Achieved

-----------------------------------------------------------------------------
(* The installation.                                                       *)

LEMMA Reused ==
    ASSUME NEW field \in {"trojan", "ss"}
    PROVE  existing_protocol_value(field) \subseteq Text
<1>1. \A t \in Text : firstLine[t] \in Text \cup {Nothing}
  BY InstallerAssumption
<1> QED
  BY <1>1 DEF existing_protocol_value

LEMMA Prompted ==
    ASSUME installs \in Nat, installs < MaxInstalls,
           NEW field \in {"trojan", "ss"},
           NEW typed \in [{"trojan", "ss"} -> Typed \cup {Nothing}]
    PROVE  prompt_secret(field, typed) \in Text
<1>1. installs + 1 \in 1 .. MaxInstalls
  BY InstallerAssumption
<1>2. random[installs + 1] \in Text
  BY <1>1, InstallerAssumption
<1>3. typed[field] # Nothing => typed[field] \in Text
  BY InstallerAssumption
<1>4. existing_protocol_value(field) # {} =>
         (CHOOSE p \in existing_protocol_value(field) : TRUE) \in existing_protocol_value(field)
  OBVIOUS
<1> QED
  BY <1>2, <1>3, <1>4, Reused DEF prompt_secret

\* Whatever becomes of the texts in JSON, there are two passwords or none.
LEMMA Written ==
    ASSUME choice \in Passwords
    PROVE  written \in Passwords \cup {Broken}
<1>1. \A t \in Text : parsed[t] \in Text \cup {Broken}
  BY InstallerAssumption
<1>2. choice.trojan \in Text /\ choice.ss \in Text \cup {Nothing}
  BY DEF Passwords
<1>3. pasted(choice.trojan) \in Text \cup {Broken}
  BY <1>1, <1>2, InstallerAssumption DEF pasted
<1>4. pasted(choice.ss) \in Text \cup {Broken, Nothing}
  BY <1>1, <1>2 DEF pasted
<1> QED
  BY <1>3, <1>4 DEF written, Passwords

LEMMA InstallerStarts == InstallerInit => InstallerInv
<1> SUFFICES ASSUME InstallerInit PROVE InstallerInv
  OBVIOUS
<1>1. 0 \in 0 .. MaxInstalls
  BY InstallerAssumption
<1> QED
  BY <1>1 DEF InstallerInit, InstallerInv, InstallerTypeOK, Through

LEMMA InstallNode ==
    ASSUME InstallerInv, install_node
    PROVE  InstallerInv'
<1>1. installs \in Nat /\ installs < MaxInstalls /\ installs' \in 0 .. MaxInstalls
  BY InstallerAssumption DEF InstallerInv, InstallerTypeOK, install_node
<1>2. choice' \in Passwords
  <2>1. PICK typed \in [{"trojan", "ss"} -> Typed \cup {Nothing}],
             ENABLE_SS \in BOOLEAN :
           choice' = [trojan |-> prompt_secret("trojan", typed),
                      ss |-> IF ENABLE_SS THEN prompt_secret("ss", typed) ELSE Nothing]
    BY DEF install_node
  <2>2. /\ prompt_secret("trojan", typed) \in Text
        /\ prompt_secret("ss", typed) \in Text
    BY <1>1, Prompted
  <2> QED
    BY <2>1, <2>2 DEF Passwords
<1>3. meant' \in BOOLEAN
  BY DEF install_node, InstallerInv, InstallerTypeOK
<1> QED
  BY <1>1, <1>2, <1>3 DEF install_node, nodeFiles, InstallerInv,
     InstallerTypeOK, Through

\* The other steps of a run, and what happens to the machine.
LEMMA NodeStep ==
    ASSUME InstallerInv, NodeNext
    PROVE  InstallerInv' /\ UNCHANGED rows
<1> USE DEF InstallerInv, nodeFiles, exit, forget, started
<1>a. choice \in Passwords => written \in Passwords \cup {Broken}
  BY Written
<1>b. UNCHANGED choice => UNCHANGED written
  BY DEF written, pasted
<1>1. CASE install_node
  BY <1>1, InstallNode DEF install_node
<1>2. CASE exit_early
  BY <1>2 DEF exit_early, InstallerTypeOK, Through
<1>3. CASE write_config
  BY <1>3, <1>a, <1>b DEF write_config, InstallerTypeOK, Through
<1>4. CASE cut_short
  BY <1>4 DEF cut_short, InstallerTypeOK, Through
<1>5. CASE sing_box_check
  BY <1>5, <1>a, <1>b DEF sing_box_check, InstallerTypeOK, Through
<1>6. CASE restart_sing_box
  BY <1>6, <1>a, <1>b DEF restart_sing_box, InstallerTypeOK, Through
<1>7. CASE renew
  BY <1>7, <1>a, <1>b DEF renew, InstallerTypeOK, Through
<1>8. CASE reboot
  BY <1>8, <1>a, <1>b DEF reboot, InstallerTypeOK, Through
<1>9. CASE write_outputs
  BY <1>9, <1>a, <1>b DEF write_outputs, InstallerTypeOK, Through
<1> QED
  BY <1>1, <1>2, <1>3, <1>4, <1>5, <1>6, <1>7, <1>8, <1>9 DEF NodeNext

LEMMA RegisterStep ==
    ASSUME InstallerInv, NEW r \in Registry, register_node(r)
    PROVE  InstallerInv'
<1>1. rows' \in [Registry -> Passwords \cup {Nothing}]
  BY DEF register_node, InstallerInv, InstallerTypeOK
<1> QED
  BY <1>1 DEF register_node, exit, forget, nodeFiles, InstallerInv,
     InstallerTypeOK, Through

LEMMA InstallerStutter ==
    ASSUME InstallerInv, UNCHANGED installerVars
    PROVE  InstallerInv'
BY DEF installerVars, nodeFiles, InstallerInv, InstallerTypeOK, Through, written, pasted

\* Without a password typed and with a readable node.json, a portable Trojan
\* password in it is taken again.
LEMMA TakenAgain ==
    ASSUME node_json \in Passwords, portable(node_json.trojan),
           NEW typed, typed.trojan = Nothing
    PROVE  prompt_secret("trojan", typed) = node_json.trojan
<1>1. node_json.trojan \in Text /\ firstLine[node_json.trojan] = node_json.trojan
  BY DEF Passwords, portable
<1>2. existing_protocol_value("trojan") = {node_json.trojan}
  BY <1>1, InstallerAssumption DEF existing_protocol_value
<1> QED
  BY <1>2 DEF prompt_secret

\* A portable password is written as it is.
LEMMA WrittenAsIs ==
    ASSUME choice \in Passwords, portable(choice.trojan), written # Broken
    PROVE  written.trojan = choice.trojan
<1>1. choice.trojan # Nothing /\ parsed[choice.trojan] = choice.trojan
  BY InstallerAssumption DEF Passwords, portable
<1> QED
  BY <1>1 DEF written, pasted

LEMMA UnchangedStep ==
    ASSUME InstallerInv, Unchanged, NodeNext
    PROVE  Unchanged'
<1> USE DEF Unchanged, nodeFiles, exit, forget
<1>1. CASE install_node
  <2> SUFFICES ASSUME NEW r \in Registry, rows'[r] # Nothing, ~meant',
                      portable(rows'[r].trojan)
               PROVE  /\ node_json' \in Passwords => node_json'.trojan = rows'[r].trojan
                      /\ choice'.trojan = rows'[r].trojan
    BY DEF Unchanged
  <2>1. PICK typed \in [{"trojan", "ss"} -> Typed \cup {Nothing}],
             ENABLE_SS \in BOOLEAN :
           /\ choice' = [trojan |-> prompt_secret("trojan", typed),
                         ss |-> IF ENABLE_SS THEN prompt_secret("ss", typed) ELSE Nothing]
           /\ meant' = (meant \/ typed.trojan # Nothing \/ node_json \notin Passwords)
    BY <1>1 DEF install_node
  <2>2. choice'.trojan = prompt_secret("trojan", typed)
    BY <2>1
  <2>3. ~meant /\ typed.trojan = Nothing /\ node_json \in Passwords
    BY <2>1
  <2>4. UNCHANGED <<node_json, rows>>
    BY <1>1 DEF install_node
  <2>5. node_json.trojan = rows[r].trojan
    BY <2>3, <2>4
  <2> QED
    BY <2>2, <2>3, <2>4, <2>5, TakenAgain
<1>2. CASE exit_early
  BY <1>2 DEF exit_early
<1>3. CASE write_config
  BY <1>3 DEF write_config
<1>4. CASE cut_short
  BY <1>4, InstallerAssumption DEF cut_short
<1>5. CASE sing_box_check
  BY <1>5 DEF sing_box_check
<1>6. CASE restart_sing_box
  BY <1>6 DEF restart_sing_box
<1>7. CASE renew
  BY <1>7 DEF renew
<1>8. CASE reboot
  BY <1>8 DEF reboot
<1>9. CASE write_outputs
  <2>1. choice \in Passwords /\ node_json' = written
    BY <1>9 DEF write_outputs, InstallerInv, Through
  <2>2. UNCHANGED <<rows, meant>> /\ step' \notin {"config", "check", "restart", "outputs"}
    BY <1>9 DEF write_outputs
  <2> SUFFICES ASSUME NEW r \in Registry, rows[r] # Nothing, ~meant,
                      portable(rows[r].trojan), written \in Passwords
               PROVE  written.trojan = rows[r].trojan
    BY <2>1, <2>2
  <2>3. choice.trojan = rows[r].trojan
    BY <1>9 DEF write_outputs
  <2> QED
    BY <2>1, <2>3, WrittenAsIs, InstallerAssumption
<1> QED
  BY <1>1, <1>2, <1>3, <1>4, <1>5, <1>6, <1>7, <1>8, <1>9 DEF NodeNext

LEMMA ServedStep ==
    ASSUME Served, NodeNext, UNCHANGED worker
    PROVE  Served'
<1>1. UNCHANGED rows
  BY DEF NodeNext, nodeFiles, install_node, exit_early, write_config, cut_short,
     sing_box_check, restart_sing_box, renew, reboot, write_outputs
<1>2. step' = "done" /\ REGISTER_CHOICE' =>
         step = "done" /\ UNCHANGED <<REGISTER_CHOICE, node_json>>
  BY DEF NodeNext, nodeFiles, exit, install_node, exit_early, write_config,
     cut_short, sing_box_check, restart_sing_box, renew, reboot, write_outputs
<1> QED
  BY <1>1, <1>2 DEF Served

-----------------------------------------------------------------------------
(* Both.                                                                   *)

LEMMA RolloutStarts == Init => RolloutInv
<1> SUFFICES ASSUME Init PROVE RolloutInv
  OBVIOUS
<1>1. DeployInv /\ InstallerInv
  BY DeployStarts, InstallerStarts DEF Init
<1>2. Unchanged /\ Served
  BY DEF Init, InstallerInit, Unchanged, Served
<1> QED
  BY <1>1, <1>2 DEF RolloutInv

LEMMA Registers ==
    ASSUME RolloutInv, registerWithWorker, UNCHANGED deployVars
    PROVE  RolloutInv'
<1>1. worker \in Registry /\ worker # NoID /\ register_node(worker) /\ UNCHANGED worker
  BY DeployAssumption, RolloutAssumption DEF DeployAssumption, RolloutAssumption,
     registerWithWorker, RolloutInv, DeployInv, DeployTypeOK, Database,
     deployVars, cloud
<1>2. DeployInv' /\ InstallerInv'
  BY <1>1, DeployStutter, RegisterStep DEF RolloutInv
<1>3. rows' = [rows EXCEPT ![worker] = node_json] /\ UNCHANGED node_json
  BY <1>1 DEF register_node, nodeFiles
<1>4. rows \in [Registry -> Passwords \cup {Nothing}]
  BY DEF RolloutInv, InstallerInv, InstallerTypeOK
<1>5. \A r \in Registry : rows'[r] = IF r = worker THEN node_json ELSE Nothing
  BY <1>1, <1>3, <1>4 DEF RolloutInv, Served
<1>6. Unchanged'
  BY <1>1, <1>3, <1>5 DEF register_node, exit, Unchanged
<1>7. Served'
  BY <1>1, <1>3, <1>5 DEF Served
<1> QED
  BY <1>2, <1>6, <1>7 DEF RolloutInv

LEMMA RolloutStep == RolloutInv /\ [Next]_vars => RolloutInv'
<1> SUFFICES ASSUME RolloutInv, [Next]_vars PROVE RolloutInv'
  OBVIOUS
<1> USE DEF RolloutInv
<1>1. CASE DeployNext /\ UNCHANGED installerVars
  <2>1. DeployInv' /\ InstallerInv' /\ (worker # NoID => worker' = worker)
    BY <1>1, DeployStep, InstallerStutter
  <2>2. UNCHANGED <<step, choice, REGISTER_CHOICE, node_json, rows, meant>>
    BY <1>1 DEF installerVars, nodeFiles
  <2>3. NoID \notin Registry
    BY DeployAssumption, RolloutAssumption DEF DeployAssumption,
       RolloutAssumption, Database
  <2> QED
    BY <2>1, <2>2, <2>3 DEF Unchanged, Served
<1>2. CASE NodeNext /\ UNCHANGED deployVars
  <2>1. DeployInv' /\ UNCHANGED worker
    BY <1>2, DeployStutter
  <2> QED
    BY <1>2, <2>1, NodeStep, UnchangedStep, ServedStep
<1>3. CASE registerWithWorker /\ UNCHANGED deployVars
  BY <1>3, Registers
<1>4. CASE UNCHANGED vars
  <2>1. UNCHANGED deployVars /\ UNCHANGED installerVars
    BY <1>4 DEF vars
  <2>2. DeployInv' /\ UNCHANGED worker /\ InstallerInv'
    BY <2>1, DeployStutter, InstallerStutter
  <2> QED
    BY <2>1, <2>2 DEF installerVars, nodeFiles, Unchanged, Served
<1> QED
  BY <1>1, <1>2, <1>3, <1>4 DEF Next

LEMMA RolloutAlways == Spec => []RolloutInv
BY RolloutStarts, RolloutStep, PTL DEF Spec

-----------------------------------------------------------------------------
(* Theorems.                                                               *)

\* Both scripts, the account, the machine and the tables keep their types.
THEOREM TypeCorrect == Spec => []TypeOK
<1>1. RolloutInv => TypeOK
  BY DEF RolloutInv, DeployInv, InstallerInv, TypeOK
<1> QED
  BY <1>1, RolloutAlways, PTL

\* The operator can always administer the Worker (ensureAdminToken).
THEOREM SecretAlwaysKnown == Spec => []SecretKnown
<1>1. RolloutInv => SecretKnown
  BY DEF RolloutInv, DeployInv, TokenShown, SecretKnown
<1> QED
  BY <1>1, RolloutAlways, PTL

\* A setup that reports completion with every question answered yes works
\* (main of deploy-interactive.js).
THEOREM CompletionIsTrue == Spec => []CompleteMeansWorking
<1>1. RolloutInv => CompleteMeansWorking
  BY Answers DEF RolloutInv, DeployInv, Achieved, Shown, PrintedTokensWork,
     CompleteMeansWorking, AfterSecret, AfterMigrate, AfterDeploy, AfterRegister
<1> QED
  BY <1>1, RolloutAlways, PTL

\* Whatever later runs do, tokens that were handed out stay in the Worker's
\* database (ensureD1Database).
THEOREM TokensKeepWorking == Spec => []PrintedTokensWork
<1>1. RolloutInv => PrintedTokensWork
  BY DEF RolloutInv, DeployInv, Shown
<1> QED
  BY <1>1, RolloutAlways, PTL

\* No run moves a deployed Worker to another database (ensureD1Database).
THEOREM WorkerKeepsDatabase == Spec => DataKept
<1>1. RolloutInv /\ [Next]_vars => [worker # NoID => worker' = worker]_deployVars
  <2> SUFFICES ASSUME RolloutInv, [Next]_vars, worker # NoID
               PROVE  worker' = worker \/ UNCHANGED deployVars
    OBVIOUS
  <2>1. CASE DeployNext
    BY <2>1, DeployStep DEF RolloutInv
  <2>2. CASE ~DeployNext
    BY <2>2 DEF Next, vars
  <2> QED
    BY <2>1, <2>2
<1> QED
  BY <1>1, RolloutAlways, PTL DEF Spec, DataKept

\* After a run of the installer that ended well, sing-box accepts what
\* node.json says (configure_sing_box, write_outputs).
THEOREM DoneIsTrue == Spec => []DoneMeansServing
<1>1. RolloutInv => DoneMeansServing
  BY DEF RolloutInv, InstallerInv, Through, DoneMeansServing
<1> QED
  BY <1>1, RolloutAlways, PTL

\* After one that registered, the Worker serves it too (register_node).
THEOREM SubscribersAreServed == Spec => []SubscribersServed
<1>1. RolloutInv => SubscribersServed
  BY DEF RolloutInv, InstallerInv, Through, Served, SubscribersServed
<1> QED
  BY <1>1, RolloutAlways, PTL

\* Clients keep a Trojan password that JSON leaves as it is over any number of
\* repeated runs that are given no new one (existing_protocol_value, written).
THEOREM PublishedStaysStable == Spec => PublishedStable
<1>1. RolloutInv /\ [Next]_vars =>
         [\A r \in Registry :
             rows'[r] # rows[r] /\ rows[r] # Nothing
                 => \/ meant \/ ~portable(rows[r].trojan)
                    \/ rows'[r].trojan = rows[r].trojan]_installerVars
  <2> SUFFICES ASSUME RolloutInv, [Next]_vars, NEW r \in Registry,
                      rows'[r] # rows[r], rows[r] # Nothing, ~meant,
                      portable(rows[r].trojan)
               PROVE  rows'[r].trojan = rows[r].trojan
    OBVIOUS
  <2>1. r = worker
    BY DEF RolloutInv, Served
  <2>2. registerWithWorker
    BY NodeStep DEF RolloutInv, Next, vars, installerVars
  <2>3. node_json \in Passwords /\ rows' = [rows EXCEPT ![worker] = node_json]
    BY <2>2 DEF registerWithWorker, register_node
  <2>4. rows'[r] = node_json
    BY <2>1, <2>3 DEF RolloutInv, InstallerInv, InstallerTypeOK
  <2> QED
    BY <2>3, <2>4 DEF RolloutInv, Unchanged
<1> QED
  BY <1>1, RolloutAlways, PTL DEF Spec, PublishedStable
=============================================================================
