---------------------------- MODULE NodeInstaller ----------------------------
(***************************************************************************)
(* install-node.sh: the passwords of one node in sing-box's configuration, *)
(* in the running sing-box, in node.json and in a registry, across runs    *)
(* that the operator repeats and that fail or are killed at any step.      *)
(*                                                                         *)
(* External: sing-box, systemd and the renewal hook, which restarts        *)
(* sing-box; the registry that is registered with.                         *)
(***************************************************************************)
EXTENDS Naturals

CONSTANTS
    Registry,      \* where nodes may be registered
    Nothing,       \* no file, no service, no row
    Broken,        \* a file cut short, or not JSON
    Text,          \* passwords
    parsed,        \* what a text pasted between quotes is to a JSON parser
    firstLine,     \* of a text, Nothing when that is empty
    random,        \* what random_secret makes up in each run
    Typed,         \* bound: what the operator may type
    MaxInstalls    \* bound: runs of the installer

VARIABLES
    step,         \* of the run, "idle" when none is running
    installs,     \* runs so far
    choice,       \* TROJAN_PASSWORD and SS_PASSWORD of the run
    REGISTER_CHOICE,
    config,       \* /etc/sing-box/config.json
    running,      \* what sing-box was last started with
    node_json,    \* $WORK_DIR/node.json
    rows,         \* the node's row in each registry
    meant         \* some run since the last registration had a new password

nodeFiles == <<config, running, node_json>>
installerVars == <<step, installs, choice, REGISTER_CHOICE, nodeFiles,
                   rows, meant>>

Passwords == [trojan : Text, ss : Text \cup {Nothing}]

ASSUME InstallerAssumption ==
    /\ MaxInstalls \in Nat
    /\ parsed \in [Text -> Text \cup {Broken}]
    /\ firstLine \in [Text -> Text \cup {Nothing}]
    /\ \A i \in 1 .. MaxInstalls : random[i] \in Text
    /\ Typed \subseteq Text
    /\ Nothing \notin Text /\ Broken \notin Text
    /\ Nothing \notin Passwords
    /\ Broken \notin Passwords \cup {Nothing}

InstallerTypeOK ==
    /\ step \in {"idle", "config", "check", "restart", "outputs", "register",
                 "done"}
    /\ installs \in 0 .. MaxInstalls
    /\ choice \in Passwords \cup {Nothing}
    /\ REGISTER_CHOICE \in BOOLEAN
    /\ config \in Passwords \cup {Nothing, Broken}
    /\ running \in Passwords \cup {Nothing}
    /\ node_json \in Passwords \cup {Nothing, Broken}
    /\ rows \in [Registry -> Passwords \cup {Nothing}]
    /\ meant \in BOOLEAN

InstallerInit ==
    /\ step = "idle" /\ installs = 0
    /\ choice = Nothing /\ REGISTER_CHOICE = FALSE
    /\ config = Nothing /\ running = Nothing /\ node_json = Nothing
    /\ rows = [r \in Registry |-> Nothing]
    /\ meant = FALSE

-----------------------------------------------------------------------------
\* A plausible bug: node.json is looked for in the wrong place.
existing_protocol_valueNone(field) == {}

\* jq -r decodes what was written, and head keeps a line of it.  It reads
\* nothing from a file that is missing or broken.
existing_protocol_value(field) ==
    {firstLine[p[field]] : p \in {q \in {node_json} \cap Passwords : q[field] \in Text}}
        \ {Nothing}

\* A plausible bug: an empty password when there is none to reuse.
prompt_secretEmpty(field, typed) ==
    IF typed[field] # Nothing THEN typed[field]
    ELSE IF existing_protocol_value(field) = {} THEN Nothing
    ELSE CHOOSE p \in existing_protocol_value(field) : TRUE

\* A password that is typed, else the one of node.json, else a random one.
prompt_secret(field, typed) ==
    IF typed[field] # Nothing THEN typed[field]
    ELSE IF existing_protocol_value(field) = {} THEN random[installs + 1]
    ELSE CHOOSE p \in existing_protocol_value(field) : TRUE

\* The questions up to REGISTER_CHOICE.
install_node ==
    /\ step \in {"idle", "done"} /\ step' = "config"
    /\ installs < MaxInstalls /\ installs' = installs + 1
    /\ \E typed \in [{"trojan", "ss"} -> Typed \cup {Nothing}],
          ENABLE_SS \in BOOLEAN :
          /\ choice' = [trojan |-> prompt_secret("trojan", typed),
                        ss |-> IF ENABLE_SS THEN prompt_secret("ss", typed)
                               ELSE Nothing]
          /\ meant' = (meant \/ typed.trojan # Nothing \/ node_json \notin Passwords)
    /\ REGISTER_CHOICE' \in BOOLEAN
    /\ UNCHANGED <<nodeFiles, rows>>

\* The run's variables are gone.
forget == choice' = Nothing /\ REGISTER_CHOICE' = FALSE
exit == step' = "idle" /\ forget

\* set -e, fail, a signal.
exit_early ==
    /\ step \notin {"idle", "done"} /\ exit
    /\ UNCHANGED <<installs, nodeFiles, rows, meant>>

pasted(password) == IF password = Nothing THEN Nothing ELSE parsed[password]

\* The passwords are pasted between the quotes of the JSON as they are: a
\* backslash makes it another password, or no JSON.
written ==
    IF Broken \in {pasted(choice.trojan), pasted(choice.ss)} THEN Broken
    ELSE [trojan |-> pasted(choice.trojan), ss |-> pasted(choice.ss)]

\* configure_sing_box: install replaces the file, sing-box checks it and is
\* restarted.
write_config ==
    /\ step = "config" /\ step' = "check"
    /\ config' = written
    /\ UNCHANGED <<installs, choice, REGISTER_CHOICE, running,
                   node_json, rows, meant>>

\* A kill inside of install, for either file.
cut_short ==
    /\ step \in {"config", "outputs"} /\ exit
    /\ config' = IF step = "config" THEN Broken ELSE config
    /\ node_json' = IF step = "outputs" THEN Broken ELSE node_json
    /\ UNCHANGED <<installs, running, rows, meant>>

sing_box_check ==
    /\ step = "check" /\ step' = "restart"
    /\ config # Broken
    /\ UNCHANGED <<installs, choice, REGISTER_CHOICE, nodeFiles, rows,
                   meant>>

started == IF config = Broken THEN Nothing ELSE config

restart_sing_box ==
    /\ step = "restart" /\ step' = "outputs"
    /\ running' = started
    /\ UNCHANGED <<installs, choice, REGISTER_CHOICE, config,
                   node_json, rows, meant>>

\* The renewal hook, at any time.
renew ==
    /\ running' = started
    /\ UNCHANGED <<step, installs, choice, REGISTER_CHOICE, config,
                   node_json, rows, meant>>

\* The machine restarts: a run ends, sing-box starts.
reboot ==
    /\ IF step = "done" THEN UNCHANGED <<step, choice, REGISTER_CHOICE>>
       ELSE exit
    /\ running' = started
    /\ UNCHANGED <<installs, config, node_json, rows, meant>>

\* A plausible bug: a node.json that is already there is kept.
write_outputsKept ==
    /\ step = "outputs"
    /\ node_json' = IF node_json \in Passwords THEN node_json ELSE written
    /\ \/ exit
       \/ /\ running # Nothing
          /\ step' = IF REGISTER_CHOICE THEN "register" ELSE "done"
          /\ UNCHANGED <<choice, REGISTER_CHOICE>>
    /\ UNCHANGED <<installs, config, running, rows, meant>>

\* node.json, then the client files; verify_services may fail.
write_outputs ==
    /\ step = "outputs"
    /\ node_json' = written
    /\ \/ exit
       \/ /\ running # Nothing
          /\ step' = IF REGISTER_CHOICE THEN "register" ELSE "done"
          /\ UNCHANGED <<choice, REGISTER_CHOICE>>
    /\ UNCHANGED <<installs, config, running, rows, meant>>

\* A plausible bug: curl without --fail, a refusal looks like success.
register_nodeUnchecked(r) ==
    /\ step = "register" /\ step' = "done"
    /\ rows' \in {rows, [rows EXCEPT ![r] = node_json]}
    /\ meant' = FALSE
    /\ UNCHANGED <<installs, choice, REGISTER_CHOICE, nodeFiles>>

\* curl sends node.json; registry r stores what passes its validator.  The
\* answer may be lost, and the run then fails.
register_node(r) ==
    /\ step = "register"
    /\ node_json \in Passwords
    /\ rows' = [rows EXCEPT ![r] = node_json]
    /\ meant' = FALSE
    /\ \/ exit
       \/ step' = "done" /\ UNCHANGED <<choice, REGISTER_CHOICE>>
    /\ UNCHANGED <<installs, nodeFiles>>

NodeNext ==
    \/ install_node \/ exit_early \/ write_config \/ cut_short
    \/ sing_box_check \/ restart_sing_box \/ renew \/ reboot \/ write_outputs

\* A registry that accepts whatever passes its validator.
InstallerNext == NodeNext \/ \E r \in Registry : register_node(r)

InstallerSpec == InstallerInit /\ [][InstallerNext]_installerVars

-----------------------------------------------------------------------------
(* Properties.                                                             *)

\* A run that ends well leaves the same passwords in the configuration, the
\* running sing-box and node.json, whatever earlier runs left behind and
\* however often sing-box is restarted (configure_sing_box, write_outputs).
DoneMeansServing ==
    step = "done" => config = running /\ running = node_json /\ config # Broken

\* A text that survives being pasted into JSON and read back, as all hexadecimal
\* ones do.
portable(password) == parsed[password] = password /\ firstLine[password] = password

\* The Trojan password in a registry changes only if some run since the last
\* registration was given a new one or found no readable node.json, or if the
\* registered one is not portable: links that clients hold survive repeated,
\* failed and killed runs (existing_protocol_value, register_node).
PublishedStable ==
    [][\A r \in Registry :
          rows'[r] # rows[r] /\ rows[r] # Nothing
              => \/ meant \/ ~portable(rows[r].trojan)
                 \/ rows'[r].trojan = rows[r].trojan]_installerVars

\* README.md:161 says so of every password: "If /root/vpn-sub-kit/node.json
\* already exists, existing Trojan and Shadowsocks passwords are reused by
\* default unless explicitly supplied."
PasswordsReused ==
    [][\A r \in Registry :
          rows'[r] # rows[r] /\ rows[r] # Nothing
              => meant \/ rows'[r].trojan = rows[r].trojan]_installerVars
=============================================================================
