--------------------------- MODULE GoTokensProofs ---------------------------
(***************************************************************************)
(* Theorems about the Go registry's config.json, for any number of token   *)
(* commands that race with each other and with the server's starts.        *)
(***************************************************************************)
EXTENDS GoTokens, TLAPS

\* A command on its way has a token.
TypeInv ==
    /\ TypeOK
    /\ \A c \in Cli : cpc[c] # "idle" => ctok[c] \in Token

\* A document that is there has the register tokens of the first one saved.
Agrees(c) == c.kind = "doc" => c.doc.reg = reg0

\* Before the first rename only the server writes: no command has anything to
\* load, and what the server is about to rename is what it has drawn.
BeforeFirst ==
    /\ reg0 = {}
    /\ spc \in {"down"} \cup Saving
    /\ \A c \in Cli : cpc[c] = "idle"
    /\ \A p \in Proc : fd[p] \in {"none", "tmp"}
    /\ spc = "write" => tmp = ConfigFile!Truncated /\ fd[Server] = "tmp"
    /\ spc = "rename" => tmp = ConfigFile!Holding(scfg)

\* From then on the server never saves, and commands save what they loaded,
\* with the register tokens unchanged, in whatever order and file it lands.
AfterFirst ==
    /\ Agrees(file)
    /\ Agrees(tmp)
    /\ spc \in {"down", "print", "up"}
    /\ spc # "down" => scfg.reg = reg0
    /\ \A c \in Cli : cpc[c] # "idle" => ccfg[c].reg = reg0

ReuseInv ==
    /\ TypeInv
    /\ file.kind = "missing" => BeforeFirst
    /\ file.kind # "missing" => AfterFirst

-----------------------------------------------------------------------------
(* Types.                                                                  *)

LEMMA BlankConfig == NoConfig \in Config
BY DEF NoConfig, Config

LEMMA Contents ==
    /\ ConfigFile!IsContent(ConfigFile!Truncated)
    /\ ConfigFile!IsContent(ConfigFile!Torn)
    /\ ConfigFile!IsContent(ConfigFile!Missing)
    /\ \A d \in Config : ConfigFile!IsContent(ConfigFile!Holding(d))
BY BlankConfig DEF ConfigFile!IsContent, ConfigFile!Missing,
   ConfigFile!Truncated, ConfigFile!Torn, ConfigFile!Holding

\* The system calls keep the files' contents and the descriptors' places.
LEMMA JsonTyped ==
    ASSUME ConfigFile!JsonTypeOK,
           \/ \E p \in Proc : ConfigFile!OpenTmp(p)
           \/ \E p \in Proc, d \in Config :
                  ConfigFile!WriteTmp(p, d) \/ ConfigFile!WriteFails(p, d)
           \/ ConfigFile!RenameTmp
           \/ \E P \in SUBSET Proc : ConfigFile!Quit(P)
           \/ UNCHANGED jsonVars
    PROVE  ConfigFile!JsonTypeOK'
<1> USE DEF ConfigFile!JsonTypeOK, ConfigFile!Place
<1>b. \A p : ConfigFile!IsContent(ConfigFile!Target(p))
  BY Contents DEF ConfigFile!Target
<1>c. ASSUME NEW p \in Proc, NEW c, ConfigFile!IsContent(c), ConfigFile!Land(p, c)
      PROVE  ConfigFile!JsonTypeOK'
  BY <1>c DEF ConfigFile!Land
<1>1. ASSUME NEW p \in Proc, ConfigFile!OpenTmp(p)
      PROVE  ConfigFile!JsonTypeOK'
  BY <1>1, Contents DEF ConfigFile!OpenTmp
<1>2. ASSUME NEW p \in Proc, NEW d \in Config, ConfigFile!WriteTmp(p, d)
      PROVE  ConfigFile!JsonTypeOK'
  BY <1>2, Contents, <1>c DEF ConfigFile!WriteTmp, ConfigFile!Overlay
<1>3. ASSUME NEW p \in Proc, NEW d \in Config, ConfigFile!WriteFails(p, d)
      PROVE  ConfigFile!JsonTypeOK'
  BY <1>3, Contents, <1>b, <1>c DEF ConfigFile!WriteFails
<1>4. ASSUME ConfigFile!RenameTmp
      PROVE  ConfigFile!JsonTypeOK'
  BY <1>4, Contents DEF ConfigFile!RenameTmp
<1>5. ASSUME NEW P \in SUBSET Proc, ConfigFile!Quit(P)
      PROVE  ConfigFile!JsonTypeOK'
  BY <1>5, Contents DEF ConfigFile!Quit
<1>6. ASSUME UNCHANGED jsonVars
      PROVE  ConfigFile!JsonTypeOK'
  BY <1>6 DEF jsonVars, ConfigFile!IsContent
<1> QED
  BY <1>1, <1>2, <1>3, <1>4, <1>5, <1>6

LEMMA RandomTokens == \A k : randomToken(k) \subseteq Token
BY DEF randomToken, Unused

LEMMA DocTyped ==
    ASSUME TypeOK
    PROVE  file.doc \in Config /\ file.doc.reg \subseteq Token /\ file.doc.sub \subseteq Token
BY DEF TypeOK, ConfigFile!JsonTypeOK, ConfigFile!IsContent, Config

LEMMA InitTyped == Init => TypeInv
<1> SUFFICES ASSUME Init PROVE TypeInv
  OBVIOUS
<1>1. ConfigFile!JsonTypeOK
  BY Contents DEF Init, ConfigFile!JsonTypeOK, ConfigFile!Place
<1> QED
  BY <1>1, BlankConfig DEF Init, TypeInv, TypeOK, Saving

LEMMA RegTyped ==
    ASSUME TypeOK, ConfigFile!JsonTypeOK', RememberReg
    PROVE  reg0' \subseteq Token
BY DEF TypeOK, RememberReg, ConfigFile!JsonTypeOK, ConfigFile!IsContent, Config

LEMMA ServerTyped ==
    ASSUME TypeInv, serverStep
    PROVE  TypeInv'
<1> USE DEF TypeInv, TypeOK
<1>1. CASE ensureConfigLoads
  <2>1. ConfigFile!JsonTypeOK'
    BY <1>1, JsonTyped DEF ensureConfigLoads
  <2> QED
    BY <1>1, <2>1, DocTyped DEF ensureConfigLoads, SeenNow, cliVars, Saving
<1>2. CASE ensureConfigGenerates
  <2>1. ConfigFile!JsonTypeOK'
    BY <1>2, JsonTyped DEF ensureConfigGenerates
  <2>2. scfg' \in Config
    BY <1>2, RandomTokens DEF ensureConfigGenerates, Config
  <2> QED
    BY <1>2, <2>1, <2>2 DEF ensureConfigGenerates, SeenNow, cliVars, Saving
<1>3. CASE serverSaves
  <2>1. ConfigFile!JsonTypeOK'
    BY <1>3, JsonTyped DEF serverSaves, Proc
  <2>2. reg0' \subseteq Token
    BY <1>3, <2>1, RegTyped DEF serverSaves
  <2>3. spc' \in {"write", "rename", "print"}
    BY <1>3 DEF serverSaves
  <2> QED
    BY <1>3, <2>1, <2>2, <2>3 DEF serverSaves, cliVars, Saving
<1>4. CASE printGeneratedConfig
  <2>1. ConfigFile!JsonTypeOK'
    BY <1>4, JsonTyped DEF printGeneratedConfig
  <2>2. printed' \subseteq Token
    BY <1>4 DEF printGeneratedConfig, Config
  <2> QED
    BY <1>4, <2>1, <2>2 DEF printGeneratedConfig, cliVars, Saving
<1> QED
  BY <1>1, <1>2, <1>3, <1>4 DEF serverStep

LEMMA CrashTyped ==
    ASSUME TypeInv, Crash
    PROVE  TypeInv'
<1> USE DEF TypeInv, TypeOK
<1>1. {Server} \in SUBSET Proc /\ Server \in Proc
  BY DEF Proc
<1>2. ConfigFile!JsonTypeOK'
  BY <1>1, JsonTyped DEF Crash
<1> QED
  BY <1>2, BlankConfig DEF Crash, cliVars, Saving

LEMMA BeginTyped ==
    ASSUME TypeInv, NEW c \in Cli, NEW op \in {"create", "delete"},
           NEW t \in Token, NEW cfg \in Config, Begin(c, op, t, cfg),
           revoking' \subseteq Token
    PROVE  TypeInv'
<1> USE DEF TypeInv, TypeOK
<1>1. ConfigFile!JsonTypeOK'
  BY JsonTyped DEF Begin
<1> QED
  BY <1>1 DEF Begin, Saving

LEMMA GoneTyped ==
    ASSUME TypeInv, NEW c \in Cli, Gone(c), ConfigFile!JsonTypeOK',
           printed' \subseteq Token, revoked' \subseteq Token
    PROVE  TypeInv'
BY BlankConfig DEF Gone, TypeInv, TypeOK, Saving

LEMMA CliTyped ==
    ASSUME TypeInv, NEW c \in Cli, cliStep(c)
    PROVE  TypeInv'
<1> USE DEF TypeInv, TypeOK
<1>p. c \in Proc /\ {c} \in SUBSET Proc
  BY DEF Proc
<1>1. CASE runTokenCreate(c)
  <2>1. PICK t \in randomToken(1) :
            Begin(c, "create", t, [file.doc EXCEPT !.sub = @ \cup {t}])
    BY <1>1 DEF runTokenCreate
  <2>2. t \in Token
    BY RandomTokens
  <2>3. [file.doc EXCEPT !.sub = @ \cup {t}] \in Config
    BY <2>2, DocTyped DEF Config
  <2> QED
    BY <1>1, <2>1, <2>2, <2>3, BeginTyped DEF runTokenCreate
<1>2. CASE \E t \in Token : runTokenDelete(c, t)
  <2>1. PICK t \in Token : runTokenDelete(c, t)
    BY <1>2
  <2>2. [file.doc EXCEPT !.sub = @ \ {t}] \in Config
    BY DocTyped DEF Config
  <2> QED
    BY <2>1, <2>2, BeginTyped DEF runTokenDelete
<1>3. CASE cliSaves(c)
  <2>1. ConfigFile!JsonTypeOK'
    BY <1>3, <1>p, JsonTyped DEF cliSaves
  <2>2. reg0' \subseteq Token
    BY <1>3, <2>1, RegTyped DEF cliSaves
  <2>3. \E label \in {"write", "rename", "exit"} : cpc' = [cpc EXCEPT ![c] = label]
    BY <1>3 DEF cliSaves
  <2>4. cpc[c] # "idle"
    BY <1>3 DEF cliSaves
  <2> QED
    BY <1>3, <2>1, <2>2, <2>3, <2>4 DEF cliSaves, Saving
<1>4. CASE cliExits(c)
  <2>1. ConfigFile!JsonTypeOK'
    BY <1>4, JsonTyped DEF cliExits
  <2>2. ctok[c] \in Token
    BY <1>4 DEF cliExits
  <2> QED
    BY <1>4, <2>1, <2>2, GoneTyped DEF cliExits
<1>5. CASE cliFails(c)
  <2>1. ConfigFile!JsonTypeOK'
    BY <1>5, <1>p, JsonTyped DEF cliFails
  <2> QED
    BY <1>5, <2>1, GoneTyped DEF cliFails
<1> QED
  BY <1>1, <1>2, <1>3, <1>4, <1>5 DEF cliStep

LEMMA StepTyped == TypeInv /\ [Next]_vars => TypeInv'
<1> SUFFICES ASSUME TypeInv, [Next]_vars PROVE TypeInv'
  OBVIOUS
<1>1. CASE UNCHANGED vars
  <2>1. ConfigFile!JsonTypeOK'
    BY <1>1, JsonTyped DEF vars, jsonVars, TypeInv, TypeOK
  <2> QED
    BY <1>1, <2>1 DEF vars, TypeInv, TypeOK
<1> QED
  BY <1>1, ServerTyped, CrashTyped, CliTyped DEF Next

\* config.json and config.json.tmp hold what the code can tell apart, and the
\* server and every command are at a step of theirs, with tokens in hand.
THEOREM TypeCorrect == Spec => []TypeOK
<1>1. TypeInv => TypeOK
  BY DEF TypeInv
<1> QED
  BY <1>1, InitTyped, StepTyped, PTL DEF Spec

-----------------------------------------------------------------------------
(* The register tokens.                                                    *)

\* What a step may do to the file, the temporary file and reg0 once the first
\* configuration is in place.
Keeps ==
    /\ file'.kind # "missing"
    /\ reg0' = reg0
    /\ file'.kind = "doc" => file'.doc.reg = reg0
    /\ tmp'.kind = "doc" => tmp'.doc.reg = reg0

LEMMA InitReuse == Init => ReuseInv
<1> SUFFICES ASSUME Init PROVE ReuseInv
  OBVIOUS
<1>1. file.kind = "missing"
  BY DEF Init, ConfigFile!Missing
<1>2. BeforeFirst
  BY DEF Init, BeforeFirst, Saving
<1> QED
  BY <1>1, <1>2, InitTyped DEF ReuseInv

\* reg0 is set once; a first configuration without register tokens would
\* leave it empty, and equal to theirs.
LEMMA RegFixed ==
    ASSUME TypeOK, ConfigFile!JsonTypeOK', RememberReg,
           file'.kind = "doc" => file'.doc.reg = reg0
    PROVE  reg0' = reg0
<1>1. file'.kind # "doc" => file'.doc.reg = {}
  BY DEF ConfigFile!JsonTypeOK, ConfigFile!IsContent, NoConfig
<1> QED
  BY <1>1 DEF RememberReg

\* System calls after the first rename.
LEMMA CallsKeep ==
    ASSUME ReuseInv, file.kind # "missing",
           \/ \E p \in Proc : ConfigFile!OpenTmp(p)
           \/ \E p \in Proc, d \in Config :
                  /\ d.reg = reg0
                  /\ ConfigFile!WriteTmp(p, d) \/ ConfigFile!WriteFails(p, d)
           \/ ConfigFile!RenameTmp
           \/ \E P \in SUBSET Proc : ConfigFile!Quit(P)
           \/ UNCHANGED jsonVars,
           RememberReg \/ reg0' = reg0
    PROVE  Keeps
<1> DEFINE Good(c) == c.kind # "missing" /\ (c.kind = "doc" => c.doc.reg = reg0)
           Fine(c) == c.kind = "doc" => c.doc.reg = reg0
<1>1. Good(file) /\ Fine(tmp)
  BY DEF ReuseInv, AfterFirst, Agrees
<1>2. /\ Good(ConfigFile!Truncated) /\ Good(ConfigFile!Torn)
      /\ Fine(ConfigFile!Missing)
      /\ \A d : d.reg = reg0 => Good(ConfigFile!Holding(d))
  BY DEF ConfigFile!Truncated, ConfigFile!Torn, ConfigFile!Missing,
     ConfigFile!Holding
<1>3. ASSUME NEW p, NEW c, Good(c), ConfigFile!Land(p, c)
      PROVE  Good(file') /\ Fine(tmp')
  BY <1>1, <1>3 DEF ConfigFile!Land
<1>4. ASSUME NEW p, ConfigFile!OpenTmp(p) PROVE Good(file') /\ Fine(tmp')
  BY <1>1, <1>2, <1>4 DEF ConfigFile!OpenTmp
<1>5. ASSUME NEW p, NEW d, d.reg = reg0, ConfigFile!WriteTmp(p, d)
      PROVE  Good(file') /\ Fine(tmp')
  BY <1>2, <1>3, <1>5 DEF ConfigFile!WriteTmp, ConfigFile!Overlay
<1>6. ASSUME NEW p, NEW d, d.reg = reg0, ConfigFile!WriteFails(p, d)
      PROVE  Good(file') /\ Fine(tmp')
  <2>1. PICK c \in {ConfigFile!Target(p), ConfigFile!Torn, ConfigFile!Holding(d)} :
            ConfigFile!Land(p, c)
    BY <1>6 DEF ConfigFile!WriteFails
  <2>2. CASE c \in {ConfigFile!Torn, ConfigFile!Holding(d)}
    BY <1>2, <1>3, <1>6, <2>1, <2>2
  <2>3. CASE c = ConfigFile!Target(p)
    BY <1>1, <2>1, <2>3 DEF ConfigFile!Target, ConfigFile!Land
  <2> QED
    BY <2>1, <2>2, <2>3
<1>7. ASSUME ConfigFile!RenameTmp PROVE Good(file') /\ Fine(tmp')
  <2>1. tmp.kind = "missing" => tmp = ConfigFile!Missing
    BY DEF ReuseInv, TypeInv, TypeOK, ConfigFile!JsonTypeOK,
       ConfigFile!IsContent, ConfigFile!Missing
  <2> QED
    BY <1>1, <1>2, <1>7, <2>1 DEF ConfigFile!RenameTmp
<1>8. ASSUME NEW P, ConfigFile!Quit(P) PROVE Good(file') /\ Fine(tmp')
  BY <1>1, <1>2, <1>8 DEF ConfigFile!Quit
<1>9. ASSUME UNCHANGED jsonVars PROVE Good(file') /\ Fine(tmp')
  BY <1>1, <1>9 DEF jsonVars
<1>10. Good(file') /\ Fine(tmp')
  BY <1>4, <1>5, <1>6, <1>7, <1>8, <1>9
<1>11. ConfigFile!JsonTypeOK'
  BY JsonTyped DEF ReuseInv, TypeInv, TypeOK
<1>12. reg0' = reg0
  BY <1>10, <1>11, RegFixed DEF ReuseInv, TypeInv
<1> QED
  BY <1>10, <1>12 DEF Keeps

\* The server, before and after.
LEMMA ServerReuse ==
    ASSUME ReuseInv, serverStep
    PROVE  ReuseInv'
<1> USE DEF ReuseInv
<1>t. TypeInv'
  BY ServerTyped
<1>1. CASE ensureConfigLoads
  <2>1. file.kind # "missing" /\ Keeps
    BY <1>1, CallsKeep DEF ensureConfigLoads
  <2>2. AfterFirst'
    BY <1>1, <2>1 DEF ensureConfigLoads, AfterFirst, Keeps, Agrees, cliVars
  <2> QED
    BY <1>t, <2>1, <2>2 DEF Keeps
<1>2. CASE ensureConfigGenerates
  <2>1. file'.kind = "missing" /\ BeforeFirst'
    BY <1>2 DEF ensureConfigGenerates, BeforeFirst, Saving, jsonVars, cliVars
  <2> QED
    BY <1>t, <2>1
<1>3. CASE serverSaves
  <2>1. file.kind = "missing" /\ BeforeFirst
    BY <1>3 DEF serverSaves, AfterFirst
  <2>r. file'.kind = "missing" => reg0' = {}
    BY <1>3, <1>t, <2>1 DEF serverSaves, BeforeFirst, RememberReg, TypeInv,
       TypeOK, ConfigFile!JsonTypeOK, ConfigFile!IsContent, NoConfig
  <2>2. CASE spc = "open"
    <3>1. ConfigFile!OpenTmp(Server) /\ spc' = "write"
      BY <1>3, <2>2 DEF serverSaves
    <3>2. \A p \in Proc : fd'[p] \in {"none", "tmp"}
      BY <2>1, <3>1 DEF ConfigFile!OpenTmp, BeforeFirst, TypeInv, TypeOK,
         ConfigFile!JsonTypeOK
    <3>3. fd'[Server] = "tmp" /\ tmp' = ConfigFile!Truncated /\ file' = file
      BY <3>1 DEF ConfigFile!OpenTmp, TypeInv, TypeOK, ConfigFile!JsonTypeOK, Proc
    <3>4. BeforeFirst'
      BY <1>3, <2>1, <2>r, <3>1, <3>2, <3>3 DEF serverSaves, BeforeFirst, Saving, cliVars
    <3> QED
      BY <1>t, <2>1, <3>3, <3>4
  <2>3. CASE spc = "write"
    <3>1. /\ ConfigFile!WriteTmp(Server, scfg) /\ spc' = "rename"
          /\ tmp = ConfigFile!Truncated /\ fd[Server] = "tmp"
      BY <1>3, <2>1, <2>3 DEF serverSaves, BeforeFirst
    <3>2. ConfigFile!Land(Server, ConfigFile!Holding(scfg))
      BY <3>1 DEF ConfigFile!WriteTmp, ConfigFile!Overlay, ConfigFile!Target
    <3>3. /\ tmp' = ConfigFile!Holding(scfg) /\ file' = file
          /\ \A p \in Proc : fd'[p] \in {"none", "tmp"}
      BY <2>1, <3>1, <3>2 DEF ConfigFile!Land, BeforeFirst, TypeInv, TypeOK,
         ConfigFile!JsonTypeOK
    <3>4. BeforeFirst'
      BY <1>3, <2>1, <2>r, <3>1, <3>3
         DEF serverSaves, BeforeFirst, Saving, cliVars, ConfigFile!Holding
    <3> QED
      BY <1>t, <2>1, <3>3, <3>4
  <2>4. CASE spc = "rename"
    <3>1. ConfigFile!RenameTmp /\ spc' = "print" /\ tmp = ConfigFile!Holding(scfg)
      BY <1>3, <2>1, <2>4 DEF serverSaves, BeforeFirst
    <3>2. file' = ConfigFile!Holding(scfg) /\ tmp' = ConfigFile!Missing
      BY <3>1 DEF ConfigFile!RenameTmp
    <3>3. reg0' = scfg.reg /\ scfg' = scfg
      BY <1>3, <2>1, <3>2 DEF serverSaves, BeforeFirst, RememberReg, ConfigFile!Holding
    <3>4. file'.kind # "missing" /\ AfterFirst'
      BY <1>3, <2>1, <3>1, <3>2, <3>3 DEF serverSaves, BeforeFirst, AfterFirst,
         Agrees, ConfigFile!Holding, ConfigFile!Missing, cliVars
    <3> QED
      BY <1>t, <3>4
  <2> QED
    BY <1>3, <2>2, <2>3, <2>4 DEF serverSaves
<1>4. CASE printGeneratedConfig
  <2>1. file.kind # "missing"
    BY <1>4 DEF printGeneratedConfig, BeforeFirst, Saving
  <2>2. Keeps
    BY <1>4, <2>1, CallsKeep DEF printGeneratedConfig
  <2>3. AfterFirst'
    BY <1>4, <2>1, <2>2 DEF printGeneratedConfig, AfterFirst, Keeps, Agrees, cliVars
  <2> QED
    BY <1>t, <2>2, <2>3 DEF Keeps
<1> QED
  BY <1>1, <1>2, <1>3, <1>4 DEF serverStep

LEMMA CrashReuse ==
    ASSUME ReuseInv, Crash
    PROVE  ReuseInv'
<1> USE DEF ReuseInv
<1>t. TypeInv'
  BY CrashTyped
<1>s. Server \in Proc /\ {Server} \in SUBSET Proc
  BY DEF Proc
<1>1. CASE file.kind = "missing"
  <2>1. \A p \in Proc : fd[p] # "file"
    BY <1>1 DEF BeforeFirst
  <2>2. /\ file' = file
        /\ \A p \in Proc : fd'[p] \in {"none", "tmp"}
    <3>1. CASE ConfigFile!Quit({Server})
      BY <1>1, <1>s, <2>1, <3>1 DEF ConfigFile!Quit, BeforeFirst
    <3>2. CASE ConfigFile!WriteFails(Server, scfg)
      BY <1>1, <1>s, <2>1, <3>2 DEF ConfigFile!WriteFails, ConfigFile!Land,
         BeforeFirst, TypeInv, TypeOK, ConfigFile!JsonTypeOK
    <3> QED
      BY <3>1, <3>2 DEF Crash
  <2>3. BeforeFirst'
    BY <1>1, <2>2 DEF Crash, BeforeFirst, cliVars
  <2> QED
    BY <1>1, <1>t, <2>2, <2>3
<1>2. CASE file.kind # "missing"
  <2>1. scfg \in Config /\ (spc # "down" => scfg.reg = reg0)
    BY <1>2 DEF AfterFirst, TypeInv, TypeOK
  <2>2. Keeps
    BY <1>2, <1>s, <2>1, CallsKeep DEF Crash
  <2>3. AfterFirst'
    BY <1>2, <2>2 DEF Crash, AfterFirst, Keeps, Agrees, cliVars
  <2> QED
    BY <1>t, <2>2, <2>3 DEF Keeps
<1> QED
  BY <1>1, <1>2

\* A command runs only when there is a file.
LEMMA CliReuse ==
    ASSUME ReuseInv, NEW c \in Cli, cliStep(c)
    PROVE  ReuseInv'
<1> USE DEF ReuseInv
<1>t. TypeInv'
  BY CliTyped
<1>p. c \in Proc /\ {c} \in SUBSET Proc
  BY DEF Proc
<1>0. file.kind # "missing" /\ AfterFirst
  BY DEF cliStep, runTokenCreate, runTokenDelete, cliSaves, cliExits, cliFails,
     BeforeFirst
<1>f. cpc \in [Cli -> {"idle", "exit"} \cup Saving] /\ ccfg \in [Cli -> Config]
  BY DEF TypeInv, TypeOK
<1>1. CASE runTokenCreate(c) \/ \E t \in Token : runTokenDelete(c, t)
  <2>1. PICK op, t, cfg : Begin(c, op, t, cfg) /\ cfg.reg = file.doc.reg
    <3>1. file.doc \in Config
      BY DocTyped DEF TypeInv
    <3>2. \A S : [file.doc EXCEPT !.sub = S].reg = file.doc.reg
      BY <3>1 DEF Config
    <3> QED
      BY <1>1, <3>2 DEF runTokenCreate, runTokenDelete
  <2>2. file.kind = "doc"
    BY <1>1 DEF runTokenCreate, runTokenDelete
  <2>3. Keeps
    BY <1>0, <2>1, CallsKeep DEF Begin
  <2>4. AfterFirst'
    BY <1>0, <1>f, <2>1, <2>2, <2>3 DEF Begin, AfterFirst, Keeps, Agrees
  <2> QED
    BY <1>t, <2>3, <2>4 DEF Keeps
<1>2. CASE cliSaves(c)
  <2>1. ccfg[c] \in Config /\ ccfg[c].reg = reg0
    BY <1>0, <1>2, <1>f DEF cliSaves, AfterFirst
  <2>2. Keeps
    BY <1>0, <1>2, <1>p, <2>1, CallsKeep DEF cliSaves
  <2>3. \A x \in Cli : cpc'[x] # "idle" => cpc[x] # "idle"
    BY <1>2, <1>f DEF cliSaves
  <2>4. AfterFirst'
    BY <1>0, <1>2, <2>2, <2>3 DEF cliSaves, AfterFirst, Keeps, Agrees
  <2> QED
    BY <1>t, <2>2, <2>4 DEF Keeps
<1>3. CASE cliExits(c) \/ cliFails(c)
  <2>1. cpc[c] # "idle" /\ Gone(c)
    BY <1>3 DEF cliExits, cliFails
  <2>2. ccfg[c] \in Config /\ ccfg[c].reg = reg0
    BY <1>0, <1>f, <2>1 DEF AfterFirst
  <2>3. Keeps
    BY <1>0, <1>3, <1>p, <2>1, <2>2, CallsKeep DEF cliExits, cliFails, Gone
  <2>4. AfterFirst'
    BY <1>0, <1>f, <2>1, <2>3 DEF Gone, AfterFirst, Keeps, Agrees
  <2> QED
    BY <1>t, <2>3, <2>4 DEF Keeps
<1> QED
  BY <1>1, <1>2, <1>3 DEF cliStep

LEMMA StepReuse == ReuseInv /\ [Next]_vars => ReuseInv'
<1> SUFFICES ASSUME ReuseInv, [Next]_vars PROVE ReuseInv'
  OBVIOUS
<1>1. CASE UNCHANGED vars
  <2>1. TypeInv'
    BY <1>1, StepTyped DEF ReuseInv
  <2> QED
    BY <1>1, <2>1 DEF vars, ReuseInv, BeforeFirst, AfterFirst, Agrees,
       ConfigFile!Truncated, ConfigFile!Holding
<1> QED
  BY <1>1, ServerReuse, CrashReuse, CliReuse DEF Next

\* However many token commands race with each other, with failing saves, kills
\* and the server's starts, the register token the nodes hold stays the one of
\* the first configuration.
THEOREM RegisterTokenKept == Spec => []ConfigReused
<1>1. ReuseInv => ConfigReused
  BY DEF ReuseInv, BeforeFirst, AfterFirst, Agrees, ConfigReused
<1> QED
  BY <1>1, InitReuse, StepReuse, PTL DEF Spec

-----------------------------------------------------------------------------
(* One command at a time: what the operator gets who waits for a command   *)
(* to end before the next one is started.  The server may start, print,    *)
(* serve and die at any moment, and any save may fail.                     *)

Alone == \A c, d \in Cli : cpc[c] # "idle" /\ cpc[d] # "idle" => c = d

\* Only a process inside saveConfigAtomic has a file open, the one it has
\* just truncated.
OpenInv ==
    /\ \A p \in Proc : fd[p] # "none" => fd[p] = "tmp" /\ tmp = ConfigFile!Truncated
    /\ fd[Server] # "none" => spc = "write"
    /\ \A c \in Cli : fd[c] # "none" => cpc[c] = "write"

\* The server saves before there is a file, a command afterwards.
TurnInv ==
    /\ file.kind \in {"missing", "doc"}
    /\ spc \in Saving => file.kind = "missing"
    /\ spc \in {"print", "up"} => file.kind = "doc"
    /\ \A c \in Cli : cpc[c] # "idle" => file.kind = "doc"
    /\ file.kind = "missing" => printed = {} /\ revoked = {} /\ revoking = {}
    /\ spc = "write" => fd[Server] = "tmp"
    /\ spc = "rename" => tmp = ConfigFile!Holding(scfg)

\* A command changes one token of the file it found.
CommandInv ==
    \A c \in Cli : cpc[c] # "idle" =>
        /\ cop[c] \in {"create", "delete"}
        /\ cop[c] = "create" => ctok[c] \notin revoking
        /\ cop[c] = "delete" => ctok[c] \in revoking
        /\ cpc[c] = "write" => fd[c] = "tmp"
        /\ cpc[c] = "rename" => tmp = ConfigFile!Holding(ccfg[c])
        /\ cpc[c] \in Saving =>
            ccfg[c].sub = IF cop[c] = "create" THEN file.doc.sub \cup {ctok[c]}
                          ELSE file.doc.sub \ {ctok[c]}
        /\ cpc[c] = "exit" =>
            IF cop[c] = "create" THEN ctok[c] \in file.doc.sub
            ELSE ctok[c] \notin file.doc.sub

\* What the operator was told holds in the file, and in the server's copy as
\* of its start.
ToldInv ==
    /\ PrintedKept
    /\ RevokedStays
    /\ revoked \subseteq revoking
    /\ spc = "print" => scfg.sub \ revoking \subseteq file.doc.sub
    /\ spc # "down" =>
        /\ seen.printed \ revoking \subseteq scfg.sub
        /\ seen.revoked \cap scfg.sub = {}

AloneInv ==
    /\ TypeInv
    /\ OpenInv
    /\ TurnInv
    /\ CommandInv
    /\ ToldInv

LEMMA AloneStarts == Init => AloneInv
<1> SUFFICES ASSUME Init PROVE AloneInv
  OBVIOUS
<1>1. TypeInv
  BY InitTyped
<1>2. OpenInv /\ TurnInv /\ CommandInv
  BY DEF Init, OpenInv, TurnInv, CommandInv, ConfigFile!Missing, Saving, Proc
<1>3. ToldInv
  BY DEF Init, ToldInv, PrintedKept, RevokedStays
<1> QED
  BY <1>1, <1>2, <1>3 DEF AloneInv

\* Opening by a process when nobody else has a file open.
LEMMA OpenAlone ==
    ASSUME TypeOK, OpenInv, NEW p \in Proc, ConfigFile!OpenTmp(p),
           \A q \in Proc \ {p} : fd[q] = "none"
    PROVE  /\ fd'[p] = "tmp" /\ tmp' = ConfigFile!Truncated /\ file' = file
           /\ \A q \in Proc \ {p} : fd'[q] = "none"
BY DEF ConfigFile!OpenTmp, TypeOK, ConfigFile!JsonTypeOK

\* The write that succeeds leaves the whole document, since the file was
\* empty; it closes the file.
LEMMA WriteAlone ==
    ASSUME TypeOK, OpenInv, NEW p \in Proc, NEW d, ConfigFile!WriteTmp(p, d),
           \A q \in Proc \ {p} : fd[q] = "none"
    PROVE  /\ tmp' = ConfigFile!Holding(d) /\ file' = file
           /\ \A q \in Proc : fd'[q] = "none"
<1>1. fd[p] = "tmp" /\ tmp = ConfigFile!Truncated
  BY DEF OpenInv, ConfigFile!WriteTmp
<1>2. ConfigFile!Land(p, ConfigFile!Holding(d))
  BY <1>1 DEF ConfigFile!WriteTmp, ConfigFile!Overlay, ConfigFile!Target
<1> QED
  BY <1>1, <1>2 DEF ConfigFile!Land, TypeOK, ConfigFile!JsonTypeOK

\* A process that dies or whose write fails leaves config.json alone.
LEMMA EndAlone ==
    ASSUME TypeOK, OpenInv, NEW p \in Proc,
           ConfigFile!Quit({p}) \/ \E d : ConfigFile!WriteFails(p, d)
    PROVE  /\ file' = file /\ fd'[p] = "none"
           /\ \A q \in Proc \ {p} : fd'[q] = fd[q]
           /\ fd[p] = "none" => tmp' = tmp
<1>0. fd[p] \in {"none", "tmp"} /\ fd \in [Proc -> ConfigFile!Place]
  BY DEF OpenInv, TypeOK, ConfigFile!JsonTypeOK
<1>1. CASE ConfigFile!Quit({p})
  BY <1>0, <1>1 DEF ConfigFile!Quit
<1>2. CASE \E d : ConfigFile!WriteFails(p, d)
  BY <1>0, <1>2 DEF ConfigFile!WriteFails, ConfigFile!Land
<1> QED
  BY <1>1, <1>2

\* While the server saves, or has just died, no command is on its way.
LEMMA ServerAlone ==
    ASSUME AloneInv, serverStep
    PROVE  AloneInv'
<1> USE DEF AloneInv
<1>t. TypeInv' /\ TypeOK
  BY ServerTyped DEF TypeInv
<1>p. Server \in Proc /\ Server \notin Cli /\ \A c \in Cli : c \in Proc
  BY TokenAssumption DEF Proc, TokenAssumption
<1>1. CASE ensureConfigLoads
  <2>0. /\ spc = "down" /\ file.kind = "doc" /\ scfg' = file.doc /\ spc' = "up"
        /\ seen' = [printed |-> printed, revoked |-> revoked]
        /\ UNCHANGED <<file, tmp, fd, cpc, cop, ctok, ccfg, printed, revoking,
                       revoked, reg0>>
    BY <1>1 DEF ensureConfigLoads, SeenNow, jsonVars, cliVars
  <2>1. OpenInv' /\ TurnInv'
    BY <2>0 DEF OpenInv, TurnInv, Saving
  <2>2. CommandInv'
    BY <2>0 DEF CommandInv, ConfigFile!Holding
  <2>3. ToldInv'
    BY <2>0 DEF ToldInv, PrintedKept, RevokedStays
  <2> QED
    BY <1>t, <2>1, <2>2, <2>3
<1>2. CASE ensureConfigGenerates
  <2>0. /\ spc = "down" /\ file.kind = "missing" /\ spc' = "open"
        /\ seen' = [printed |-> printed, revoked |-> revoked]
        /\ UNCHANGED <<file, tmp, fd, cpc, cop, ctok, ccfg, printed, revoking,
                       revoked, reg0>>
    BY <1>2 DEF ensureConfigGenerates, SeenNow, jsonVars, cliVars
  <2>1. OpenInv' /\ TurnInv'
    BY <2>0 DEF OpenInv, TurnInv, Saving
  <2>2. CommandInv'
    BY <2>0 DEF CommandInv, TurnInv
  <2>3. ToldInv'
    BY <2>0 DEF ToldInv, TurnInv, PrintedKept, RevokedStays
  <2> QED
    BY <1>t, <2>1, <2>2, <2>3
<1>3. CASE serverSaves
  <2>0. /\ spc \in Saving /\ file.kind = "missing"
        /\ UNCHANGED <<scfg, cpc, cop, ctok, ccfg, printed, revoking, revoked, seen>>
    BY <1>3 DEF serverSaves, cliVars, TurnInv, Saving
  <2>1. \A c \in Cli : cpc[c] = "idle" /\ fd[c] = "none"
    BY <2>0 DEF TurnInv, OpenInv
  <2>2. \A q \in Proc \ {Server} : fd[q] = "none"
    BY <2>1 DEF Proc
  <2>3. CommandInv'
    BY <2>0, <2>1 DEF CommandInv
  <2>4. CASE spc = "open"
    <3>1. ConfigFile!OpenTmp(Server) /\ spc' = "write"
      BY <1>3, <2>4 DEF serverSaves
    <3>2. /\ fd'[Server] = "tmp" /\ tmp' = ConfigFile!Truncated /\ file' = file
          /\ \A q \in Proc \ {Server} : fd'[q] = "none"
      BY <1>t, <1>p, <2>2, <3>1, OpenAlone
    <3>3. OpenInv'
      BY <1>p, <3>1, <3>2 DEF OpenInv
    <3>4. TurnInv'
      BY <2>0, <2>1, <3>1, <3>2 DEF TurnInv, Saving
    <3>5. ToldInv'
      BY <2>0, <2>4, <3>1, <3>2 DEF ToldInv, PrintedKept, RevokedStays
    <3> QED
      BY <1>t, <2>3, <3>3, <3>4, <3>5
  <2>5. CASE spc = "write"
    <3>1. ConfigFile!WriteTmp(Server, scfg) /\ spc' = "rename"
      BY <1>3, <2>5 DEF serverSaves
    <3>2. /\ tmp' = ConfigFile!Holding(scfg) /\ file' = file
          /\ \A q \in Proc : fd'[q] = "none"
      BY <1>t, <1>p, <2>2, <3>1, WriteAlone
    <3>3. OpenInv'
      BY <1>p, <3>1, <3>2 DEF OpenInv
    <3>4. TurnInv'
      BY <2>0, <2>1, <3>1, <3>2 DEF TurnInv, Saving, ConfigFile!Holding
    <3>5. ToldInv'
      BY <2>0, <2>5, <3>1, <3>2 DEF ToldInv, PrintedKept, RevokedStays
    <3> QED
      BY <1>t, <2>3, <3>3, <3>4, <3>5
  <2>6. CASE spc = "rename"
    <3>1. ConfigFile!RenameTmp /\ spc' = "print" /\ tmp = ConfigFile!Holding(scfg)
      BY <1>3, <2>6 DEF serverSaves, TurnInv
    <3>2. \A q \in Proc : fd[q] = "none"
      BY <1>p, <2>2, <2>6 DEF OpenInv
    <3>3. /\ file' = ConfigFile!Holding(scfg)
          /\ \A q \in Proc : fd'[q] = "none"
      BY <3>1, <3>2 DEF ConfigFile!RenameTmp
    <3>4. file'.kind = "doc" /\ file'.doc = scfg
      BY <3>3 DEF ConfigFile!Holding
    <3>5. OpenInv'
      BY <1>p, <3>3 DEF OpenInv
    <3>6. TurnInv'
      BY <2>0, <2>1, <3>1, <3>4 DEF TurnInv, Saving
    <3>7. ToldInv'
      BY <2>0, <2>6, <3>1, <3>4 DEF ToldInv, TurnInv, PrintedKept, RevokedStays
    <3> QED
      BY <1>t, <2>3, <3>5, <3>6, <3>7
  <2> QED
    BY <2>0, <2>4, <2>5, <2>6 DEF Saving
<1>4. CASE printGeneratedConfig
  <2>0. /\ spc = "print" /\ spc' = "up" /\ printed' = printed \cup scfg.sub
        /\ UNCHANGED <<file, tmp, fd, scfg, cpc, cop, ctok, ccfg, revoking,
                       revoked, seen, reg0>>
    BY <1>4 DEF printGeneratedConfig, jsonVars, cliVars
  <2>1. OpenInv' /\ TurnInv'
    BY <2>0 DEF OpenInv, TurnInv, Saving
  <2>2. CommandInv'
    BY <2>0 DEF CommandInv
  <2>3. ToldInv'
    BY <2>0 DEF ToldInv, PrintedKept, RevokedStays
  <2> QED
    BY <1>t, <2>1, <2>2, <2>3
<1> QED
  BY <1>1, <1>2, <1>3, <1>4 DEF serverStep

LEMMA CrashAlone ==
    ASSUME AloneInv, Crash
    PROVE  AloneInv'
<1> USE DEF AloneInv
<1>t. TypeInv' /\ TypeOK
  BY CrashTyped DEF TypeInv
<1>p. Server \in Proc /\ Server \notin Cli /\ \A c \in Cli : c \in Proc /\ c # Server
  BY TokenAssumption DEF Proc, TokenAssumption
<1>0. /\ spc' = "down"
      /\ UNCHANGED <<cpc, cop, ctok, ccfg, printed, revoking, revoked, reg0>>
  BY DEF Crash, cliVars
<1>1. /\ file' = file /\ fd'[Server] = "none"
      /\ \A q \in Proc \ {Server} : fd'[q] = fd[q]
      /\ fd[Server] = "none" => tmp' = tmp
  BY <1>t, <1>p, EndAlone DEF Crash
<1>2. fd[Server] # "none" => \A c \in Cli : cpc[c] = "idle" /\ fd[c] = "none"
  BY DEF OpenInv, TurnInv, Saving
<1>3. OpenInv'
  <2>1. ASSUME NEW q \in Proc, fd'[q] # "none"
        PROVE  fd'[q] = "tmp" /\ tmp' = ConfigFile!Truncated
    <3>1. q # Server /\ q \in Cli /\ fd[q] # "none"
      BY <1>1, <2>1 DEF Proc
    <3>2. fd[Server] = "none"
      BY <1>2, <3>1
    <3> QED
      BY <1>1, <3>1, <3>2 DEF OpenInv, Proc
  <2> QED
    BY <1>0, <1>1, <1>p, <2>1 DEF OpenInv
<1>4. TurnInv'
  BY <1>0, <1>1 DEF TurnInv, Saving
<1>5. CommandInv'
  BY <1>0, <1>1, <1>2, <1>p DEF CommandInv
<1>6. ToldInv'
  BY <1>0, <1>1 DEF ToldInv, PrintedKept, RevokedStays
<1> QED
  BY <1>t, <1>3, <1>4, <1>5, <1>6

\* A command starts on the file as it is.
LEMMA BeginAlone ==
    ASSUME AloneInv, Alone', NEW c \in Cli, NEW op \in {"create", "delete"},
           NEW t \in Token, NEW cfg, TypeInv', Begin(c, op, t, cfg), cpc[c] = "idle",
           file.kind = "doc",
           op = "create" => /\ cfg.sub = file.doc.sub \cup {t}
                            /\ t \notin revoking /\ revoking' = revoking,
           op = "delete" => /\ cfg.sub = file.doc.sub \ {t}
                            /\ revoking' = revoking \cup {t}
    PROVE  AloneInv'
<1> USE DEF AloneInv
<1>0. /\ UNCHANGED <<file, tmp, fd, spc, scfg, printed, revoked, seen, reg0>>
      /\ revoking \subseteq revoking'
  BY DEF Begin, jsonVars
<1>1. /\ cpc'[c] = "open" /\ cop'[c] = op /\ ctok'[c] = t /\ ccfg'[c] = cfg
      /\ \A d \in Cli \ {c} : cpc'[d] = cpc[d]
  BY DEF Begin, TypeInv, TypeOK
<1>2. \A d \in Cli \ {c} : cpc'[d] = "idle"
  BY <1>1 DEF Alone
<1>3. OpenInv'
  BY <1>0, <1>1 DEF OpenInv
<1>4. TurnInv'
  BY <1>0, <1>1 DEF TurnInv
<1>5. CommandInv'
  BY <1>0, <1>1, <1>2 DEF CommandInv
<1>6. ToldInv'
  BY <1>0 DEF ToldInv, PrintedKept, RevokedStays
<1> QED
  BY <1>3, <1>4, <1>5, <1>6

\* What the other commands, and the server, are not doing meanwhile.
LEMMA OthersRest ==
    ASSUME AloneInv, Alone, NEW c \in Cli, cpc[c] # "idle"
    PROVE  /\ \A d \in Cli \ {c} : cpc[d] = "idle"
           /\ \A q \in Proc \ {c} : fd[q] = "none"
           /\ file.kind = "doc" /\ spc \notin Saving
<1>1. \A d \in Cli \ {c} : cpc[d] = "idle"
  BY DEF Alone
<1>2. file.kind = "doc" /\ spc \notin Saving
  BY DEF AloneInv, TurnInv
<1>3. \A q \in Proc \ {c} : fd[q] = "none"
  BY <1>1, <1>2 DEF AloneInv, OpenInv, Proc, Saving
<1> QED
  BY <1>1, <1>2, <1>3

LEMMA SavesAlone ==
    ASSUME AloneInv, Alone, NEW c \in Cli, cliSaves(c)
    PROVE  AloneInv'
<1> USE DEF AloneInv
<1>t. TypeInv' /\ TypeOK /\ c \in Proc /\ Server \in Proc /\ c # Server
  BY CliTyped, TokenAssumption DEF TypeInv, cliStep, Proc, TokenAssumption
<1>0. /\ cpc[c] \in Saving
      /\ UNCHANGED <<spc, scfg, cop, ctok, ccfg, printed, revoking, revoked, seen>>
  BY DEF cliSaves, Saving
<1>1. /\ \A d \in Cli \ {c} : cpc[d] = "idle"
      /\ \A q \in Proc \ {c} : fd[q] = "none"
      /\ file.kind = "doc" /\ spc \notin Saving
  BY <1>0, OthersRest DEF Saving
<1>2. /\ cop[c] \in {"create", "delete"}
      /\ cop[c] = "create" => ctok[c] \notin revoking
      /\ cop[c] = "delete" => ctok[c] \in revoking
      /\ ccfg[c].sub = IF cop[c] = "create" THEN file.doc.sub \cup {ctok[c]}
                       ELSE file.doc.sub \ {ctok[c]}
  BY <1>0 DEF CommandInv, Saving
<1>3. ASSUME NEW label \in {"write", "rename"}, cpc' = [cpc EXCEPT ![c] = label],
             file' = file, \A q \in Proc \ {c} : fd'[q] = "none",
             label = "write" => fd'[c] = "tmp" /\ tmp' = ConfigFile!Truncated,
             label = "rename" => fd'[c] = "none" /\ tmp' = ConfigFile!Holding(ccfg[c])
      PROVE  AloneInv'
  <2>1. cpc'[c] = label /\ \A d \in Cli \ {c} : cpc'[d] = "idle"
    BY <1>t, <1>1, <1>3 DEF TypeOK
  <2>2. OpenInv'
    BY <1>t, <1>3, <2>1 DEF OpenInv, Proc
  <2>3. TurnInv'
    BY <1>0, <1>1, <1>3, <2>1 DEF TurnInv, Saving
  <2>4. CommandInv'
    BY <1>0, <1>2, <1>3, <2>1 DEF CommandInv
  <2>5. ToldInv'
    BY <1>0, <1>3 DEF ToldInv, PrintedKept, RevokedStays
  <2> QED
    BY <1>t, <2>2, <2>3, <2>4, <2>5
<1>4. CASE cpc[c] = "open"
  <2>1. ConfigFile!OpenTmp(c) /\ cpc' = [cpc EXCEPT ![c] = "write"]
    BY <1>4 DEF cliSaves
  <2> QED
    BY <1>t, <1>1, <1>3, <2>1, OpenAlone
<1>5. CASE cpc[c] = "write"
  <2>1. ConfigFile!WriteTmp(c, ccfg[c]) /\ cpc' = [cpc EXCEPT ![c] = "rename"]
    BY <1>5 DEF cliSaves
  <2>2. /\ tmp' = ConfigFile!Holding(ccfg[c]) /\ file' = file
        /\ \A q \in Proc : fd'[q] = "none"
    BY <1>t, <1>1, <2>1, WriteAlone
  <2> QED
    BY <1>t, <1>3, <2>1, <2>2
<1>6. CASE cpc[c] = "rename"
  <2>1. /\ ConfigFile!RenameTmp /\ cpc' = [cpc EXCEPT ![c] = "exit"]
        /\ tmp = ConfigFile!Holding(ccfg[c])
    BY <1>6 DEF cliSaves, CommandInv
  <2>2. \A q \in Proc : fd[q] = "none"
    BY <1>1, <1>6 DEF OpenInv
  <2>3. file' = tmp /\ \A q \in Proc : fd'[q] = "none"
    BY <2>1, <2>2 DEF ConfigFile!RenameTmp
  <2>4. file'.kind = "doc" /\ file'.doc = ccfg[c]
    BY <2>1, <2>3 DEF ConfigFile!Holding
  <2>5. cpc'[c] = "exit" /\ \A d \in Cli \ {c} : cpc'[d] = "idle"
    BY <1>t, <1>1, <2>1 DEF TypeOK
  <2>6. OpenInv'
    BY <1>t, <2>3 DEF OpenInv, Proc
  <2>7. TurnInv'
    BY <1>0, <1>1, <2>4 DEF TurnInv, Saving
  <2>8. CommandInv'
    BY <1>0, <1>2, <2>4, <2>5 DEF CommandInv, Saving
  <2>9. ToldInv'
    BY <1>0, <1>2, <2>4 DEF ToldInv, PrintedKept, RevokedStays
  <2> QED
    BY <1>t, <2>6, <2>7, <2>8, <2>9
<1> QED
  BY <1>0, <1>4, <1>5, <1>6 DEF Saving

\* The command is gone; the file, if it has not renamed, is as before.
LEMMA EndsAlone ==
    ASSUME AloneInv, Alone, NEW c \in Cli, cliExits(c) \/ cliFails(c)
    PROVE  AloneInv'
<1> USE DEF AloneInv
<1>t. TypeInv' /\ TypeOK /\ c \in Proc /\ Server \in Proc /\ c # Server
  BY CliTyped, TokenAssumption DEF TypeInv, cliStep, Proc, TokenAssumption
<1>0. /\ cpc[c] # "idle" /\ Gone(c)
      /\ UNCHANGED <<spc, scfg, revoking, seen, reg0>>
  BY DEF cliExits, cliFails, Gone
<1>1. /\ \A d \in Cli \ {c} : cpc[d] = "idle"
      /\ \A q \in Proc \ {c} : fd[q] = "none"
      /\ file.kind = "doc" /\ spc \notin Saving
  BY <1>0, OthersRest
<1>2. \A d \in Cli : cpc'[d] = "idle"
  BY <1>0, <1>1, <1>t DEF Gone, TypeOK
<1>3. file' = file /\ \A q \in Proc : fd'[q] = "none"
  <2>1. CASE cliExits(c)
    BY <1>1, <2>1 DEF cliExits, jsonVars, OpenInv
  <2>2. CASE cliFails(c)
    BY <1>t, <1>1, <2>2, EndAlone DEF cliFails
  <2> QED
    BY <2>1, <2>2
<1>4. /\ printed' \ revoking \subseteq file.doc.sub
      /\ revoked' \cap file.doc.sub = {} /\ revoked' \subseteq revoking
  <2>1. CASE cliExits(c)
    <3>1. /\ cop[c] \in {"create", "delete"}
          /\ cop[c] = "delete" => ctok[c] \in revoking /\ ctok[c] \notin file.doc.sub
          /\ cop[c] = "create" => ctok[c] \in file.doc.sub
      BY <2>1 DEF cliExits, CommandInv
    <3> QED
      BY <2>1, <3>1 DEF cliExits, ToldInv, PrintedKept, RevokedStays
  <2>2. CASE cliFails(c)
    BY <2>2 DEF cliFails, ToldInv, PrintedKept, RevokedStays
  <2> QED
    BY <2>1, <2>2
<1>5. OpenInv'
  BY <1>t, <1>3 DEF OpenInv, Proc
<1>6. TurnInv'
  BY <1>0, <1>1, <1>2, <1>3 DEF TurnInv, Saving
<1>7. CommandInv'
  BY <1>2 DEF CommandInv
<1>8. ToldInv'
  BY <1>0, <1>3, <1>4 DEF ToldInv, PrintedKept, RevokedStays
<1> QED
  BY <1>t, <1>5, <1>6, <1>7, <1>8

LEMMA RevokingInUse == revoking \subseteq InUse
<1> DEFINE configs == {file.doc, scfg} \cup {ccfg[c] : c \in Cli}
                        \cup (IF SaveInProgress THEN {tmp.doc} ELSE {})
           held == UNION {cfg.reg \cup cfg.sub : cfg \in configs}
           ours == {ctok[c] : c \in Cli}
<1>1. InUse = held \cup ours \cup printed \cup revoking \cup reg0
  BY DEF InUse
<1> HIDE DEF held, ours
<1> QED
  BY <1>1

LEMMA CliAlone ==
    ASSUME AloneInv, Alone, Alone', NEW c \in Cli, cliStep(c)
    PROVE  AloneInv'
<1>t. TypeInv' /\ TypeOK
  BY CliTyped DEF AloneInv, TypeInv
<1>1. CASE runTokenCreate(c)
  <2>1. PICK t \in randomToken(1) :
            Begin(c, "create", t, [file.doc EXCEPT !.sub = @ \cup {t}])
    BY <1>1 DEF runTokenCreate
  <2>2. t \in Token /\ t \notin revoking
    <3>1. t \in Token /\ t \notin InUse
      BY DEF randomToken, Unused
    <3>2. revoking \subseteq InUse
      BY RevokingInUse
    <3> QED
      BY <3>1, <3>2
  <2>3. [file.doc EXCEPT !.sub = @ \cup {t}].sub = file.doc.sub \cup {t}
    BY <1>t, DocTyped DEF Config
  <2> QED
    BY <1>t, <1>1, <2>1, <2>2, <2>3, BeginAlone DEF runTokenCreate
<1>2. CASE \E t \in Token : runTokenDelete(c, t)
  <2>1. PICK t \in Token : runTokenDelete(c, t)
    BY <1>2
  <2>2. [file.doc EXCEPT !.sub = @ \ {t}].sub = file.doc.sub \ {t}
    BY <1>t, DocTyped DEF Config
  <2> QED
    BY <1>t, <2>1, <2>2, BeginAlone DEF runTokenDelete
<1> QED
  BY <1>1, <1>2, SavesAlone, EndsAlone DEF cliStep

LEMMA StepAlone == AloneInv /\ Alone /\ Alone' /\ [Next]_vars => AloneInv'
<1> SUFFICES ASSUME AloneInv, Alone, Alone', [Next]_vars PROVE AloneInv'
  OBVIOUS
<1>1. CASE UNCHANGED vars
  <2>1. TypeInv'
    BY <1>1, StepTyped DEF AloneInv
  <2> QED
    BY <1>1, <2>1 DEF vars, AloneInv, OpenInv, TurnInv, CommandInv, ToldInv,
       PrintedKept, RevokedStays, ConfigFile!Truncated, ConfigFile!Holding
<1> QED
  BY <1>1, ServerAlone, CrashAlone, CliAlone DEF Next

LEMMA AloneAlways == Spec /\ []Alone => []AloneInv
BY AloneStarts, StepAlone, PTL DEF Spec

\* Where there is one command process there is nothing to assume.
LEMMA OneIsAlone == (\A c, d \in Cli : c = d) => (Spec => []AloneInv)
<1> SUFFICES ASSUME \A c, d \in Cli : c = d
             PROVE  Spec => []AloneInv
  OBVIOUS
<1>1. Alone
  BY DEF Alone
<1>2. []Alone
  BY <1>1, PTL
<1> QED
  BY <1>2, AloneAlways, PTL

\* As long as token commands run one at a time, config.json is missing or a
\* complete document, wherever saves fail and processes die.
THEOREM ConfigAlwaysLoads == Spec /\ []Alone => []ConfigLoads
<1>1. AloneInv => ConfigLoads
  BY DEF AloneInv, TurnInv, ConfigLoads, ConfigFile!Loads
<1> QED
  BY <1>1, AloneAlways, PTL

\* As long as token commands run one at a time, no token the operator was
\* shown is lost (runTokenCreate, printGeneratedConfig).
THEOREM PrintedAlwaysKept == Spec /\ []Alone => []PrintedKept
<1>1. AloneInv => PrintedKept
  BY DEF AloneInv, ToldInv
<1> QED
  BY <1>1, AloneAlways, PTL

\* As long as token commands run one at a time, a deleted token never comes
\* back (runTokenDelete).
THEOREM RevokedAlwaysStays == Spec /\ []Alone => []RevokedStays
<1>1. AloneInv => RevokedStays
  BY DEF AloneInv, ToldInv
<1> QED
  BY <1>1, AloneAlways, PTL

\* As long as token commands run one at a time, a server honours what the
\* operator was told before it started, for as long as it runs.
THEOREM RestartAlwaysHonours == Spec /\ []Alone => []RestartHonours
<1>1. AloneInv => RestartHonours
  BY DEF AloneInv, ToldInv, RestartHonours, accepts
<1> QED
  BY <1>1, AloneAlways, PTL
=============================================================================
