------------------------------ MODULE GoTokens ------------------------------
(***************************************************************************)
(* The Go registry's config.json: the server that generates it on its      *)
(* first start and afterwards only reads it, once per start, and the       *)
(* commands `token create` and `token delete` that load, change and save   *)
(* it from processes of their own, with no lock between them.              *)
(*                                                                         *)
(* A configuration is its two token lists; they hold no duplicates (24     *)
(* random bytes each), and only membership matters to `contains`, so they  *)
(* are sets.  randomToken returns tokens nobody holds: a token that was    *)
(* drawn and has left no trace may stand for a new one.                    *)
(***************************************************************************)
EXTENDS Naturals, FiniteSets

CONSTANTS
    Cli,          \* processes running a token command
    Server,       \* the server process
    Faults,       \* "save": a system call of saveConfigAtomic may fail
    MaxTokens     \* bound on the tokens held anywhere

ASSUME TokenAssumption ==
    /\ Server \notin Cli
    /\ Faults \subseteq {"save"}
    /\ MaxTokens \in Nat

VARIABLES
    file, tmp, fd,  \* config.json, config.json.tmp and who has it open
    spc,            \* where the server is
    scfg,           \* the server's s.cfg
    cpc,            \* cpc[c]: where command c is
    cop,            \* cop[c]: "create" or "delete"
    ctok,           \* ctok[c]: the token it creates or deletes
    ccfg,           \* ccfg[c]: the configuration it will save
    printed,        \* subscribe tokens the operator was shown
    revoking,       \* tokens some `token delete` found in the file
    revoked,        \* tokens whose `token delete` ended with status 0
    seen,           \* printed and revoked, as they were at the server's load
    reg0            \* register tokens of the first configuration saved

jsonVars == <<file, tmp, fd>>
cliVars == <<cpc, cop, ctok, ccfg>>
vars == <<file, tmp, fd, spc, scfg, cpc, cop, ctok, ccfg, printed, revoking, revoked, seen, reg0>>

Token == 1 .. MaxTokens
Config == [reg : SUBSET Token, sub : SUBSET Token]
NoConfig == [reg |-> {}, sub |-> {}]
Proc == Cli \cup {Server}

ConfigFile == INSTANCE JsonFile WITH Doc <- Config, Blank <- NoConfig

Saving == {"open", "write", "rename"}

TypeOK ==
    /\ ConfigFile!JsonTypeOK
    /\ spc \in {"down", "print", "up"} \cup Saving
    /\ scfg \in Config
    /\ cpc \in [Cli -> {"idle", "exit"} \cup Saving]
    /\ cop \in [Cli -> {"none", "create", "delete"}]
    /\ ctok \in [Cli -> Token \cup {0}]
    /\ ccfg \in [Cli -> Config]
    /\ printed \subseteq Token
    /\ revoking \subseteq Token
    /\ revoked \subseteq Token
    /\ seen \in [printed : SUBSET Token, revoked : SUBSET Token]
    /\ reg0 \subseteq Token

Init ==
    /\ file = ConfigFile!Missing
    /\ tmp = ConfigFile!Missing
    /\ fd = [p \in Proc |-> "none"]
    /\ spc = "down"
    /\ scfg = NoConfig
    /\ cpc = [c \in Cli |-> "idle"]
    /\ cop = [c \in Cli |-> "none"]
    /\ ctok = [c \in Cli |-> 0]
    /\ ccfg = [c \in Cli |-> NoConfig]
    /\ printed = {}
    /\ revoking = {}
    /\ revoked = {}
    /\ seen = [printed |-> {}, revoked |-> {}]
    /\ reg0 = {}

\* The first configuration that reaches config.json.
RememberReg == reg0' = IF reg0 = {} THEN file'.doc.reg ELSE reg0

\* Somebody is inside saveConfigAtomic.
SaveInProgress == spc \in Saving \/ \E c \in Cli : cpc[c] \in Saving

\* Tokens in a file, in a process or in the operator's hands.  What an
\* interrupted save left in config.json.tmp is truncated before any rename.
InUse ==
    LET configs == {file.doc, scfg} \cup {ccfg[c] : c \in Cli}
                   \cup (IF SaveInProgress THEN {tmp.doc} ELSE {})
    IN  (UNION {cfg.reg \cup cfg.sub : cfg \in configs})
        \cup {ctok[c] : c \in Cli} \cup printed \cup revoking \cup reg0

Unused == Token \ InUse

\* What k calls of randomToken return: the k least, since nothing depends on
\* a token's value.
randomToken(k) == {t \in Unused : Cardinality({u \in Unused : u < t}) < k}

-----------------------------------------------------------------------------
(* The server: commandServer.                                              *)

SeenNow == seen' = [printed |-> printed, revoked |-> revoked]

\* ensureConfig finds a configuration and the server starts with it.
ensureConfigLoads ==
    /\ spc = "down"
    /\ file.kind = "doc"
    /\ scfg' = file.doc
    /\ spc' = "up"
    /\ SeenNow
    /\ UNCHANGED <<jsonVars, cliVars, printed, revoking, revoked, reg0>>

\* ensureConfig finds none (os.ErrNotExist), draws three tokens and saves.
\* A file that does not parse ends the server with an error instead.
ensureConfigGenerates ==
    /\ spc = "down"
    /\ file.kind = "missing"
    /\ Cardinality(Unused) >= 3
    /\ scfg' = [reg |-> randomToken(1), sub |-> randomToken(3) \ randomToken(1)]
    /\ spc' = "open"
    /\ SeenNow
    /\ UNCHANGED <<jsonVars, cliVars, printed, revoking, revoked, reg0>>

serverSaves ==
    /\ \/ spc = "open" /\ ConfigFile!OpenTmp(Server) /\ spc' = "write"
       \/ spc = "write" /\ ConfigFile!WriteTmp(Server, scfg) /\ spc' = "rename"
       \/ spc = "rename" /\ ConfigFile!RenameTmp /\ spc' = "print"
    /\ RememberReg
    /\ UNCHANGED <<scfg, cliVars, printed, revoking, revoked, seen>>

\* printGeneratedConfig, then the server listens.
printGeneratedConfig ==
    /\ spc = "print"
    /\ printed' = printed \cup scfg.sub
    /\ spc' = "up"
    /\ UNCHANGED <<jsonVars, scfg, cliVars, revoking, revoked, seen,
                   reg0>>

\* The process ends: killed, stopped, or by an error of saveConfigAtomic.
Crash ==
    /\ spc # "down"
    /\ \/ ConfigFile!Quit({Server})
       \/ /\ spc = "write"
          /\ "save" \in Faults
          /\ ConfigFile!WriteFails(Server, scfg)
    /\ spc' = "down"
    /\ scfg' = NoConfig
    /\ seen' = [printed |-> {}, revoked |-> {}]
    /\ UNCHANGED <<cliVars, printed, revoking, revoked, reg0>>

-----------------------------------------------------------------------------
(* The token commands.                                                     *)

Begin(c, op, t, cfg) ==
    /\ cpc' = [cpc EXCEPT ![c] = "open"]
    /\ cop' = [cop EXCEPT ![c] = op]
    /\ ctok' = [ctok EXCEPT ![c] = t]
    /\ ccfg' = [ccfg EXCEPT ![c] = cfg]
    /\ UNCHANGED <<jsonVars, spc, scfg, printed, revoked, seen, reg0>>

\* A plausible bug: an error of randomToken is ignored and the empty token
\* is appended.
runTokenCreateEmpty(c) ==
    /\ cpc[c] = "idle"
    /\ file.kind = "doc"
    /\ Begin(c, "create", 0, [file.doc EXCEPT !.sub = @ \cup {0}])
    /\ UNCHANGED revoking

\* A plausible bug: the new token replaces the list instead of joining it.
runTokenCreateReplaces(c) ==
    /\ cpc[c] = "idle"
    /\ file.kind = "doc"
    /\ \E t \in randomToken(1) :
          Begin(c, "create", t, [file.doc EXCEPT !.sub = {t}])
    /\ UNCHANGED revoking

\* runTokenCreate up to saveConfigAtomic.  Without a readable configuration
\* the command ends with an error and changes nothing.
runTokenCreate(c) ==
    /\ cpc[c] = "idle"
    /\ file.kind = "doc"
    /\ \E t \in randomToken(1) :
          Begin(c, "create", t, [file.doc EXCEPT !.sub = @ \cup {t}])
    /\ UNCHANGED revoking

\* A plausible bug: the saved Config is built anew, without RegisterTokens.
runTokenDeleteRebuilds(c, t) ==
    /\ cpc[c] = "idle"
    /\ file.kind = "doc"
    /\ t \in file.doc.sub
    /\ revoking' = revoking \cup {t}
    /\ Begin(c, "delete", t, [reg |-> {}, sub |-> file.doc.sub \ {t}])

\* A plausible bug: the filtered list is not assigned back to cfg.
runTokenDeleteForgets(c, t) ==
    /\ cpc[c] = "idle"
    /\ file.kind = "doc"
    /\ t \in file.doc.sub
    /\ revoking' = revoking \cup {t}
    /\ Begin(c, "delete", t, file.doc)

\* runTokenDelete up to saveConfigAtomic; a token that is not in the list is
\* an error.
runTokenDelete(c, t) ==
    /\ cpc[c] = "idle"
    /\ file.kind = "doc"
    /\ t \in file.doc.sub
    /\ revoking' = revoking \cup {t}
    /\ Begin(c, "delete", t, [file.doc EXCEPT !.sub = @ \ {t}])

cliSaves(c) ==
    /\ \/ /\ cpc[c] = "open"
          /\ ConfigFile!OpenTmp(c)
          /\ cpc' = [cpc EXCEPT ![c] = "write"]
       \/ /\ cpc[c] = "write"
          /\ ConfigFile!WriteTmp(c, ccfg[c])
          /\ cpc' = [cpc EXCEPT ![c] = "rename"]
       \/ /\ cpc[c] = "rename"
          /\ ConfigFile!RenameTmp
          /\ cpc' = [cpc EXCEPT ![c] = "exit"]
    /\ RememberReg
    /\ UNCHANGED <<spc, scfg, cop, ctok, ccfg, printed, revoking,
                   revoked, seen>>

Gone(c) ==
    /\ cpc' = [cpc EXCEPT ![c] = "idle"]
    /\ cop' = [cop EXCEPT ![c] = "none"]
    /\ ctok' = [ctok EXCEPT ![c] = 0]
    /\ ccfg' = [ccfg EXCEPT ![c] = NoConfig]
    /\ UNCHANGED <<spc, scfg, revoking, seen, reg0>>

\* `token create` prints the token once; either command ends with status 0.
cliExits(c) ==
    /\ cpc[c] = "exit"
    /\ printed' = IF cop[c] = "create" THEN printed \cup {ctok[c]} ELSE printed
    /\ revoked' = IF cop[c] = "delete" THEN revoked \cup {ctok[c]} ELSE revoked
    /\ Gone(c)
    /\ UNCHANGED jsonVars

\* saveConfigAtomic returns an error (at the rename also because another
\* process has renamed the temporary file), or the process is killed.
cliFails(c) ==
    /\ cpc[c] # "idle"
    /\ \/ ConfigFile!Quit({c})
       \/ /\ cpc[c] = "write"
          /\ "save" \in Faults
          /\ ConfigFile!WriteFails(c, ccfg[c])
    /\ Gone(c)
    /\ UNCHANGED <<printed, revoked>>

-----------------------------------------------------------------------------
serverStep ==
    \/ ensureConfigLoads
    \/ ensureConfigGenerates
    \/ serverSaves
    \/ printGeneratedConfig

cliStep(c) ==
    \/ runTokenCreate(c)
    \/ \E t \in Token : runTokenDelete(c, t)
    \/ cliSaves(c)
    \/ cliExits(c)
    \/ cliFails(c)

Next ==
    \/ serverStep
    \/ Crash
    \/ \E c \in Cli : cliStep(c)

Spec == Init /\ [][Next]_vars

\* systemd restarts the service and the process runs.
FairSpec == Spec /\ WF_vars(serverStep)

-----------------------------------------------------------------------------
(* Properties.                                                             *)

\* handleSub accepts t.
accepts(t) == spc = "up" /\ t \in scfg.sub

\* A subscribe token the operator was shown, and has not asked to delete, is
\* in config.json: no crash, failed save or later command loses it
\* (runTokenCreate, printGeneratedConfig).
PrintedKept == printed \ revoking \subseteq file.doc.sub

\* A token that `token delete` reported deleted never comes back to
\* config.json (runTokenDelete).
RevokedStays == revoked \cap file.doc.sub = {}

\* config.json is missing or one complete document at every moment, so the
\* next start or command can load it (writeJSONAtomic).
ConfigLoads == ConfigFile!Loads(file)

\* A server started after a token was printed or revoked honours that,
\* although it reads config.json once and caches it (commandServer,
\* handleSub); only a server that was already running may be out of date.
RestartHonours ==
    spc = "up" =>
        /\ \A t \in seen.printed \ revoking : accepts(t)
        /\ \A t \in seen.revoked : ~accepts(t)

\* The register token the nodes were given is never replaced: whatever
\* crashes, failed saves and concurrent commands do to config.json, every
\* configuration in it or in a running server has the first one's register
\* tokens (ensureConfig).
ConfigReused ==
    reg0 # {} =>
        /\ file.kind = "doc" => file.doc.reg = reg0
        /\ spc = "up" => scfg.reg = reg0

\* Once the service is no longer stopped it comes up, with whatever an
\* interrupted first start or save left behind (ensureConfig,
\* writeJSONAtomic).
ServiceComesUp == <>[][~Crash]_vars => <>[](spc = "up")
=============================================================================
