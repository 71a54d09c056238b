------------------------------- MODULE Deploy -------------------------------
(***************************************************************************)
(* cloudflare-registry/scripts/deploy-interactive.js: the operator's setup *)
(* of a Cloudflare registry, with create-token.js and admin-client.js.     *)
(* The script may be interrupted, refused or failed by a command at every  *)
(* prompt, and is then run again.                                          *)
(*                                                                         *)
(* External, modelled from how the script uses them: Cloudflare's account  *)
(* (databases, the Worker, its secret) and the commands of wrangler.  A    *)
(* command that takes effect and then reports failure is its action        *)
(* followed by fail.                                                       *)
(***************************************************************************)
EXTENDS Naturals

CONSTANTS
    Own,        \* the database that d1 create makes; names are unique
    Foreign,    \* another database of the account
    Typo,       \* an id of no database
    NoID,       \* the placeholder of wrangler.toml; also: none
    Torn,       \* wrangler.toml is empty: writeFileSync truncates first
    MaxRuns     \* bound: runs of the script

ASSUME DeployAssumption ==
    /\ MaxRuns \in Nat
    /\ {Own, Foreign} \cap {Typo, NoID, Torn} = {}
    /\ Own # Foreign /\ NoID \notin {Typo, Torn} /\ Typo # Torn
    /\ NoID \notin 0 .. MaxRuns

VARIABLES
    pc,         \* the step of the script, "idle" when it is not running
    runs,       \* how often it has been started
    toml,       \* database_id in wrangler.toml
    databaseID, \* locals of ensureD1Database and updateWranglerToml
    token,      \* local of ensureAdminToken
    declined,   \* some question of this run was answered no
    account,    \* databases of the account
    migrated,   \* databases whose migrations have been applied
    secret,     \* ADMIN_TOKEN of the Worker
    worker,     \* the database of the deployed Worker
    tokens,     \* rows of table tokens: in which database
    known,      \* admin tokens the operator has seen or made up
    printed     \* tokens create-token.js has shown

cloud == <<account, migrated, secret, worker, tokens>>
operator == <<known, printed>>
locals == <<databaseID, token>>
deployVars == <<pc, runs, toml, locals, declined, cloud, operator>>

Kind == {"register", "subscribe"}
Database == {Own, Foreign}

\* Run i generates the admin token i; 0 is one the operator made up.  A run
\* creates at most one token of each kind.
AdminToken == 0 .. MaxRuns
TokenID == (1 .. MaxRuns) \X Kind

\* Rows of table tokens, which migrations create.
TokenRows == [id : TokenID, db : migrated]

Steps == {"idle", "prepare", "database", "toml", "write", "admin", "secret",
          "save", "migrate", "deploy", "register", "print register",
          "subscribe", "print subscribe", "complete"}

DeployTypeOK ==
    /\ pc \in Steps
    /\ runs \in 0 .. MaxRuns
    /\ toml \in Database \cup {Typo, NoID, Torn}
    /\ databaseID \in Database \cup {Typo, NoID, Torn}
    /\ token \in AdminToken
    /\ declined \in BOOLEAN
    /\ account \subseteq Database
    /\ migrated \subseteq account
    /\ secret \in AdminToken \cup {NoID}
    /\ worker \in account \cup {NoID}
    /\ tokens \subseteq TokenRows
    /\ known \subseteq AdminToken
    /\ printed \subseteq TokenID

DeployInit ==
    /\ pc = "idle" /\ runs = 0
    /\ toml = NoID
    /\ databaseID = NoID /\ token = 0
    /\ declined = FALSE
    /\ account = {Foreign}
    /\ migrated = {}
    /\ secret = NoID
    /\ worker = NoID
    /\ tokens = {}
    /\ known = {0} /\ printed = {}

-----------------------------------------------------------------------------
goto(from, to) == pc = from /\ pc' = to

\* A question of the script or of wrangler is answered no, and it goes on.
decline(from, to) ==
    /\ goto(from, to)
    /\ declined' = TRUE
    /\ token' = 0
    /\ UNCHANGED <<runs, toml, databaseID, cloud, operator>>

main ==
    /\ pc \in {"idle", "complete"} /\ pc' = "prepare"
    /\ runs < MaxRuns /\ runs' = runs + 1
    /\ declined' = FALSE
    /\ UNCHANGED <<toml, locals, cloud, operator>>

\* The operator interrupts the script, a required answer is missing or no, or
\* a command fails: process.exit.
fail ==
    /\ pc \notin {"idle", "complete"} /\ pc' = "idle"
    /\ databaseID' = NoID /\ token' = 0 /\ declined' = FALSE
    /\ UNCHANGED <<runs, toml, cloud, operator>>

\* ensurePnpmInstall and ensureWranglerLogin: without wrangler and a login
\* the script ends here.
prepare ==
    /\ goto("prepare", "database")
    /\ UNCHANGED <<runs, toml, locals, declined, cloud, operator>>

-----------------------------------------------------------------------------
(* ensureD1Database.                                                       *)

\* A plausible bug: the id in wrangler.toml is not looked at.
currentIDUnread == NoID

\* matchValue finds nothing in an empty file.
currentID == IF toml = Torn THEN NoID ELSE toml

useExistingDatabase ==
    /\ goto("database", "admin")
    /\ currentID # NoID
    /\ UNCHANGED <<runs, toml, locals, declined, cloud, operator>>

\* d1 create refuses a name that exists.  The id is parsed from its output or,
\* if that fails, pasted.
createDatabase ==
    /\ goto("database", "toml")
    /\ currentID = NoID
    /\ Own \notin account /\ account' = account \cup {Own}
    /\ databaseID' \in {Own, Foreign, Typo}
    /\ UNCHANGED <<runs, toml, token, declined, migrated, secret, worker,
                   tokens, operator>>

pasteDatabase ==
    /\ goto("database", "toml")
    /\ currentID = NoID
    /\ databaseID' \in account \cup {Typo}
    /\ UNCHANGED <<runs, toml, token, declined, cloud, operator>>

\* next.replace finds no line to replace in an empty file.
updateWranglerToml ==
    /\ goto("toml", "write")
    /\ databaseID' = IF toml = Torn THEN Torn ELSE databaseID
    /\ toml' = Torn
    /\ UNCHANGED <<runs, token, declined, cloud, operator>>

writeWranglerToml ==
    /\ goto("write", "admin")
    /\ toml' = databaseID
    /\ databaseID' = NoID
    /\ UNCHANGED <<runs, token, declined, cloud, operator>>

\* The operator restores an empty wrangler.toml from the repository.
restoreWranglerToml ==
    /\ pc = "idle"
    /\ toml = Torn /\ toml' = NoID
    /\ UNCHANGED <<pc, runs, locals, declined, cloud, operator>>

-----------------------------------------------------------------------------
(* ensureAdminToken, runMigrations, deployWorker.                          *)

\* A plausible bug: the token is shown only when it has been stored.
ensureAdminTokenSilent ==
    /\ goto("admin", "secret")
    /\ token' \in {runs} \cup known
    /\ UNCHANGED <<runs, toml, databaseID, declined, cloud, operator>>

\* The generated token is shown before anything is stored; the operator may
\* type another.
ensureAdminToken ==
    /\ goto("admin", "secret")
    /\ known' = known \cup {runs}
    /\ token' \in known'
    /\ UNCHANGED <<runs, toml, databaseID, declined, cloud, printed>>

\* wrangler needs the name of the Worker from wrangler.toml.
secretPut ==
    /\ goto("secret", "save")
    /\ toml # Torn
    /\ secret' = token
    /\ UNCHANGED <<runs, toml, locals, declined, account, migrated, worker,
                   tokens, operator>>

showSecret ==
    /\ goto("save", "migrate")
    /\ known' = known \cup {token}
    /\ token' = 0
    /\ UNCHANGED <<runs, toml, databaseID, declined, cloud, printed>>

runMigrations ==
    /\ goto("migrate", "deploy")
    /\ toml \in account
    /\ migrated' = migrated \cup {toml}
    /\ UNCHANGED <<runs, toml, locals, declined, account, secret, worker,
                   tokens, operator>>

deployWorker ==
    /\ goto("deploy", "register")
    /\ toml \in account
    /\ worker' = toml
    /\ UNCHANGED <<runs, toml, locals, declined, account, migrated, secret,
                   tokens, operator>>

-----------------------------------------------------------------------------
(* maybeCreateInitialTokens.                                               *)

answered == [register |-> "print register", subscribe |-> "print subscribe"]
afterToken == [register |-> "subscribe", subscribe |-> "complete"]

\* POST /admin/tokens/create, with an admin token the operator types.
createToken(kind) ==
    /\ goto(kind, answered[kind])
    /\ worker \in migrated
    /\ secret \in known
    /\ tokens' = tokens \cup {[id |-> <<runs, kind>>, db |-> worker]}
    /\ UNCHANGED <<runs, toml, locals, declined, account, migrated, secret,
                   worker, operator>>

\* A plausible bug: run ignores the status of create-token.js.
runUnchecked(kind) ==
    /\ \/ goto(kind, afterToken[kind]) /\ UNCHANGED printed
       \/ /\ goto(answered[kind], afterToken[kind])
          /\ printed' = printed \cup {<<runs, kind>>}
    /\ UNCHANGED <<runs, toml, locals, declined, cloud, known>>

\* create-token.js shows the answer, and run goes on if it exits with 0.
run(kind) ==
    /\ goto(answered[kind], afterToken[kind])
    /\ printed' = printed \cup {<<runs, kind>>}
    /\ UNCHANGED <<runs, toml, locals, declined, cloud, known>>

DeployNext ==
    \/ main \/ fail \/ prepare
    \/ useExistingDatabase \/ createDatabase \/ pasteDatabase
    \/ updateWranglerToml \/ writeWranglerToml \/ restoreWranglerToml
    \/ ensureAdminToken \/ secretPut \/ showSecret
    \/ runMigrations \/ deployWorker
    \/ \E kind \in Kind : createToken(kind) \/ run(kind)
    \/ decline("secret", "migrate") \/ decline("migrate", "deploy")
    \/ decline("deploy", "register") \/ decline("register", "complete")

-----------------------------------------------------------------------------
(* Properties.                                                             *)

\* However often the setup was cut short, the operator knows the ADMIN_TOKEN
\* that is stored, which Cloudflare never shows again (ensureAdminToken).
SecretKnown == secret \in known \cup {NoID}

\* A flow that reports completion, with no question answered no, leaves a
\* Worker on the migrated database of wrangler.toml, a known admin token and
\* one shown token of each kind that this Worker accepts (main).
CompleteMeansWorking ==
    pc = "complete" /\ ~declined =>
        /\ worker = toml /\ worker \in migrated
        /\ secret \in known
        /\ \A kind \in Kind :
              /\ <<runs, kind>> \in printed
              /\ [id |-> <<runs, kind>>, db |-> worker] \in tokens

\* Every token the operator was ever shown is in the database that the Worker
\* uses now: no later run moves the Worker (ensureD1Database, line 68).
PrintedTokensWork ==
    \A id \in printed : [id |-> id, db |-> worker] \in tokens

\* A deployed Worker keeps its database, whatever later runs do (line 68).
DataKept == [][worker # NoID => worker' = worker]_deployVars
=============================================================================
