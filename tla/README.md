# VPN Register Kit: models, checks and proofs

The repository registers VPN nodes with a central service and hands their list
to clients as one subscription URL. It holds two interchangeable services (a Go
server with JSON files, a Cloudflare Worker with a D1 database), a node
installer and deployment scripts. This directory holds TLA+ models of the parts
that keep state, the TLC runs that check them and the proofs about them.

## The system

| Part | State | Operations | Interacts with |
|---|---|---|---|
| Go server (`go-registry/server.go`, `store.go`) | map `s.store`, mutex `s.mu`, `nodes.json` | `POST /register`, `GET /sub`, `GET /api/nodes`, `DELETE /api/nodes/{id}`, start, stop | clients, systemd, the command line through `nodes.json` |
| JSON files (`config.go`) | `path`, `path.tmp` | load, `writeJSONAtomic` | every process that saves |
| Configuration and tokens (`config.go`, `commands.go`) | `config.json`, the copy in the server | first start, `token create`, `token delete`, `token list` | server and operator |
| Node commands (`commands.go`) | none of their own | `node list`, `node show`, `node delete` | `nodes.json` |
| Validators and renderers (`validators.js`, `store.go`, `renderers.js`, `renderers.go`) | none | accept or refuse a node; one function per format | handlers |
| Cloudflare Worker (`cloudflare-registry/src`) | D1 tables `nodes`, `tokens`, `audit_logs` | the same API and `/admin/*` | D1; requests interleave at every `await` |
| Deployment (`scripts/deploy-interactive.js`, `create-token.js`) | `wrangler.toml`, Worker secret, tokens | one sequence of prompts and commands, run again after every failure | operator, wrangler, Worker |
| Node installer (`install-node.sh`) | `config.json` of sing-box, `node.json` | one sequential script, run again at will | sing-box, certbot's renewal hook, registry |

What makes each part correct, and what is hard about it:

* **Go server.** What was answered 200 survives crashes, failed saves and
  restarts; a subscription shows everything acknowledged before it; `nodes.json`
  can always be loaded; every request is answered. Hard: handlers are
  concurrent, the save is four system calls, each may fail, the process may
  stop between any two, and memory keeps a change whose save failed.
* **JSON files.** A reader sees the old or the new document. Hard: all
  writers share one temporary name.
* **Tokens.** The register token given to nodes never changes; a printed token
  stays; a revoked one stays revoked; a restart honours both. Hard: an
  interrupted first start, the server's cached copy, two commands at once.
* **Worker.** What was answered 200 is in D1; auditing never fails a request;
  a token is honoured as D1 has it; a change is made at most once, before its
  answer. Hard: check and effect are separate statements, each of which may
  fail or lose its answer.
* **Validators and renderers.** A node installer need not know which registry
  it talks to, nor a client; every format lists every protocol once. Hard: two
  languages, two decodings of a path, five encodings, and values that only one of them handles.
* **Deployment.** Whatever run was cut short, no secret is lost, no deployed
  Worker changes its database and no token that was shown stops working. Hard:
  the script keeps its progress in `wrangler.toml` and at Cloudflare, and may
  end between any two steps.
* **Node installer.** After a run that ended well sing-box, `node.json` and the
  registry hold the same passwords, and clients' links survive repeated runs.
  Hard: three places written one after the other by a script that may fail or
  be killed anywhere, a renewal hook that restarts sing-box at any time, and
  passwords pasted into JSON and read back as something else.

`PROJECT.json` lists the hazards at their source lines.

## Modules

| Module | Models | Built from |
|---|---|---|
| `JsonFile` | one file, its temporary file and open descriptors; the system calls of `writeJSONAtomic` | |
| `NodeRegistry` | what the Go registry promises: one map served, one map durable | |
| `RegistryService` | what a registry promises to each client: when its change is made, what its answer means | |
| `GoNodeStore` | the server's handlers, mutex, store and `nodes.json` | `JsonFile`; implements `NodeRegistry` |
| `GoNodeCLI` | the same with `node delete` processes beside it | `GoNodeStore` |
| `GoTokens` | `config.json`, the server's start and cached copy, the token commands | `JsonFile` |
| `CloudflareWorker` | the Worker's requests as sequences of D1 statements, and what fails or vanishes between them | implements `RegistryService` |
| `MCCloudflareWorker` | symmetry for TLC | `CloudflareWorker` |
| `NodePayload` | what a node may send and which of it each registry accepts | |
| `Renderers` | what a client reads in each format, from either registry | `NodePayload` |
| `RegistryContract` | the same requests sent to both registries | `Renderers` |
| `MCRegistryContract` | an ordinary payload and its variations | `RegistryContract` |
| `Deploy` | the setup of a Cloudflare registry, with the account and the operator | |
| `NodeInstaller` | repeated installations of one node | |
| `MCNodeInstaller`, `MCRollout` | passwords and what JSON makes of them | `NodeInstaller`, `Rollout` |
| `Rollout` | a node is installed while the registry it registers with is set up | `Deploy`, `NodeInstaller` |
| `GoNodeStoreProofs`, `GoNodeCLIProofs`, `GoTokensProofs`, `WorkerProofs`, `ContractProofs`, `RolloutProofs` | theorems about `GoNodeStore`, `GoNodeCLI`, `GoTokens`, `CloudflareWorker`, `RegistryContract`, `Rollout` | TLAPS |
| `ListProofs` | lemmas about sorted and flattened lists, for `ContractProofs` | TLAPS |

### JsonFile

A file content is *missing*, *empty* (just truncated), *torn* (not JSON) or a
document. `fd[p]` says where the inode that process `p` has open is linked: at
`path.tmp`, at `path` (another process renamed it meanwhile) or nowhere. This is
what makes two unsynchronised writers dangerous: one truncates what the other
is about to rename, or writes into the file that is already live. `Overlay`
gives the outcomes of writing at offset 0 over older text. Power loss is not
modelled (the code never calls fsync); the end of a process is (`Quit`).

### GoNodeStore

| Code | Action |
|---|---|
| `handleRegister`, `handleAPINode` up to `s.mu.Lock()` | `handleRegister`, `handleAPINode` |
| the critical section up to `saveNodes` | `lockRegister`, `lockDelete` (through `Apply`) |
| the 404 path | `deleteNotFound` |
| `os.WriteFile`, `os.Rename`, `Unlock` | `openTmp`, `writeTmp`, `renameTmp` |
| an error of any of these | `saveFails` |
| `handleSub`, `handleAPINodes` | `handleSub`, `handleAPINodes`, `snapshot`, `render` |
| responses | `replyOK`, `replyError` |
| kill or stop, `newRegistryServer` | `Crash`, `Start` |

Statements under the mutex that touch only the map are one step, since nobody
else can see between them; every system call is a step of its own. Requests
that are rejected before the mutex change nothing and do not appear. A node's
record is an opaque member of `Version`. The history `ops` numbers the changes
in mutex order; `acked` holds the numbers answered 200. `Faults` chooses which
failures a run includes.

### GoNodeCLI

`runNodeDelete` loads and filters in one step (`os.ReadFile` of a file that is
only ever replaced by rename), then saves in the steps of `JsonFile`. A killed
command and a failing one are `cliFails`. `Offline` says how the operator works.

### GoTokens

`ensureConfigLoads`, `ensureConfigGenerates`, `serverSaves` and
`printGeneratedConfig` are the server's start, `Crash` its end;
`runTokenCreate`, `runTokenDelete`, `cliSaves`, `cliExits` and `cliFails` the
commands. `printed`, `revoking`, `revoked` record what the operator was told,
`seen` what had been told when the server loaded its copy, `reg0` the register
token of the first saved configuration.

### CloudflareWorker

A D1 statement is atomic and is one step; `pc[x]` is the `await` at which
request `x` is suspended. `handleRegister` to `handleAdminTokenCreate` are the
arrivals, up to the first statement: `findEnabledToken` and `touchToken` (its
`SELECT` and `UPDATE`), `readBody` (the body and `validateNode`), `upsertNode`,
`selectNode` and `deleteNode` (the two statements of `deleteNode` in `db.js`),
`listNodes` (with `renderSubscription`), `insertToken`, `writeAudit`, then
`reply`. With the fault `"d1"` a statement fails without effect (`throws`) or
after it (the 500 branch of `touchToken`, `Write`, `insertToken`); `fetch` turns
either into a 500, `writeAudit` swallows both. With `"drop"` a request vanishes
at any `await`. `disableToken` is the operator's statement on D1. Requests
refused before their first statement (method, admin check, `node_id`) and the
read-only `GET /admin/tokens` do not appear; whether a body or format is valid
is a choice. `tk`, `ops`, `acked` play the part they have in `GoNodeStore`;
`seen[x]` collects whether the credential was valid, `views[x]` the tables there
were, at the moments of request `x`.

`RegistryService` is what a client may rely on, without tokens, statements,
awaits or audit log. A `call` is open from its arrival until its answer has left
or it has vanished; `Change` makes a call's change, at most once (`done`), before
its `answer` and only if the client was `entitled` by then; `Answer` fixes what
the client will be told, which must be `Truthful`: a list was the table, a
removed node was there and a missing one was not, at some moment of the call; a
400, 401 or 404 means that nothing was changed, a 200 that the change was made,
and only a 500 leaves it open. `ImplementsService` maps `nodes` to `table`,
`req` to `call`, `tk` to `done` and `status` and `got` to `answer`, which is
shown once the request is at `reply`: a statement's outcome is settled long
before that, and audit insertion, failing statements and dropped requests lie in
between. `POST /admin/tokens/create` is not about nodes and appears as no call.

### NodePayload, Renderers, RegistryContract

Texts and hosts are classes, one for each way in which a check or an encoding
treats some of them differently: a name of more than 80 bytes but not UTF-16
units, a password beyond Latin-1, a comma, a space, an IPv6 address. An encoding
is the class that the client reads back; `more` holds what an entry says of one
kind of protocol only. `Rows` is the list both renderers get, in the order of
the identifiers (`ORDER BY node_id`, `sort.Slice`). `validate` and `validateProtocol` are
what both validators share; a registry adds its `isValidHost` and how it counts.
A document is its list of proxies, the members of its group, the rule sets it
defines and its rules. `renderClash`, `renderShadowrocketConfig` and
`renderSingBox` say the same in both languages; `renderLinks` does not.

`register` sends one payload to both registries, `delete` removes a node from
both; `handleRegister`, `handleApiNode`, `handleSub` and their Go counterparts are
the answers, each translated from its own source. A removal comes with a
credential and with one `Spelling` of the id in its path, the classes that the
two decodings tell apart: `decodeURIComponent` once in the Worker,
`PathUnescape` in `net/http` and a second time in the handler in Go. `Portable`
and `PortableRemoval` are what a careful installer or operator sends and
`drifted` are the nodes last changed by something else. Where the two differ,
and where the properties therefore do not ask for agreement:

| | Go | Worker |
|---|---|---|
| malformed or oversized body | 400 | 500 (`readLimitedJson` is outside the `try`) |
| text after the JSON value | ignored | 500 |
| unknown fields, numeric passwords | 400 | accepted |
| id with a malformed escape (`%zz`) | 400, from `net/http` | 500 (`decodeURIComponent` throws outside any `try`) |
| id escaped twice (`%2561b` for `ab`) | deletes `ab` | 400 |
| id with escapes that are no UTF-8 (`%ff`) | 400 | 500 |
| `ADMIN_TOKEN` on `DELETE /api/nodes/{id}` | 401 (there is none) | accepted |
| `ADMIN_TOKEN` on `GET /api/nodes`, `/admin/*` | 401, no such endpoints | accepted |
| IPv6 host | accepted, unbracketed in links | 400 |
| name limit of 80 | bytes | UTF-16 units |
| format with spaces around it | trimmed | 400 |
| space in a link | `+` | `%20` |
| Shadowsocks password beyond ASCII | UTF-8 | one byte per character, or an exception |

### Deploy

`pc` is the step of `deploy-interactive.js`; each prompt and each command is a
step. `fail` ends a run anywhere: an interrupt, a refused question that throws,
a failed command; a command that took effect before it failed is its action
followed by `fail`. `decline` is a question answered no where the script goes
on. The database is used, created or pasted (`useExistingDatabase`,
`createDatabase`, `pasteDatabase`), and may be a mistyped or foreign one;
`updateWranglerToml` truncates the file and `writeWranglerToml` fills it, with
what it read before. `createToken` is the Worker's answer to `create-token.js`,
`run` its exit. External, as the script uses them: `wrangler d1 create` refuses
a name that exists, `secret put` replaces the secret, migrations and deployment
act on the database that `wrangler.toml` names and fail if there is none. The
`declined` and `known` variables are history.

### NodeInstaller and Rollout

`install_node` is `main` up to the last question; then `write_config`,
`sing_box_check`, `restart_sing_box`, `write_outputs` (with `verify_services`)
and `register_node`. `exit_early` is `set -e`, `cut_short` a kill inside
`install(1)`, `renew` the renewal hook, `reboot` a restart of the machine.
`prompt_secret` takes what is typed, else what `jq` reads from `node.json`, else
a new secret. Passwords are texts of which three things matter: `parsed`, what
a JSON parser reads where the script has pasted the text between quotes
(`written`; another text, or `Broken` JSON), `firstLine`, what `jq -r` and
`head -n 1` make of a decoded text on the way back (`existing_protocol_value`),
and `portable`, that both leave it alone. These are constants, so that nothing
but the script's use of them is assumed; `MCNodeInstaller` gives the cases: a
hexadecimal text, a quote, `a\\b` (which is `a\b` in JSON, which in turn is
`a` and a backspace, which JSON does not allow), and `a\nb`, which becomes two
lines and is read back as the first. `meant` is history: some run since the last
registration was given a new password or found no readable `node.json`.

`Rollout` interleaves the two. `registerWithWorker` is `register_node` at the
deployed Worker, with a register token that the operator was shown: the Worker
finds it in its own database and stores the row there.

## Runs

| Run | Question | Bounds | Result |
|---|---|---|---|
| `go_store_live` | is every request answered? | 3 handlers, 1 node, 1 record, 2 changes; saves and starts fail | holds (19,782 states) |
| `cli_offline` | safety of the store, of `nodes.json` and of `node delete` while the service is stopped; refinement of `NodeRegistry` | 2 handlers, 1 command, 2 nodes, 2 records, 3 changes; saves fail | holds (517,298 states) |
| `cli_lost_update` | is it serialized with the server? (`docs/requirements.md:102`) | 1 handler, 1 command | violated |
| `cli_torn_file` | is it atomic beside the server? (`docs/requirements.md:102`) | 1 handler, 1 command | violated |
| `tokens_serial` | printed, revoked and register tokens, one command at a time; does the service come up after any interruption? | 5 tokens | holds |
| `tokens_revoked_back` | does a deleted token stay deleted with two commands at once (`docs/requirements.md:150`)? | 2 commands, 5 tokens | violated |
| `worker` | do answers, lists, audit log and `last_used_at` stay truthful; does every client get what `RegistryService` promises? | 2 requests, 2 nodes, 1 payload, 1 register token, 2 changes; statements fail, requests vanish | holds (588,962 states) |
| `worker_live` | is every request answered, are subscriptions fresh, are created tokens stored? | 2 requests, 1 node, 1 subscribe token, created by the run, 2 changes; statements fail | holds (224,581 states) |
| `contract` | do both registries answer, store and serve the same, and are the documents complete and consistent? | 2 nodes, 26 payloads, 7 formats, 4 credentials, 6 spellings | holds (4,624 states) |
| `contract_refused` | can clients always fetch a subscription (`docs/requirements.md:5`)? | the same | violated |
| `rollout` | repeated, interrupted setups and installations | 2 runs of each script; a quote or a backslash typed | holds (5,211,168 states) |
| `installer_reuse` | are existing passwords reused (`README.md:161` of the repository)? | 2 installations, 4 typed passwords | violated |

Why the bounds suffice. Two handlers show every pair of handler steps; the
mutex makes a third matter only for waiting, where `go_store_live` has three.
Two nodes show one change spoiling another's record, two records tell an older
from a newer registration, three changes let one fail, one succeed and one
follow. The first start draws three tokens, so 5 leaves two for `token create`.
That the register token also survives racing commands is proved.

Requests of the Worker share only the tables, so two show every race of two
statements; the table starts with any rows, so what earlier requests left is
there without them. One payload is enough for `ListFresh`, which asks whether a
node is listed that is not, or missing though it was acknowledged. What `worker` shows of a
removal that raced another one: both may answer 200, since both saw the node.

The 26 payloads of `contract` differ from an ordinary one in one respect each,
so that every clause of both validators decides one of them, and 12 can be
stored; requests are judged one at a time, and two nodes show every clash of
two names. The 7 formats are one of each kind, the default, one with a space
and one that does not exist. In `rollout` the second run of each script meets
whatever the first left. Typed is a quote, which breaks the JSON, or `a\\b`,
which becomes one other password in the first run and, reused, another one in
the second; a password that JSON leaves alone is what the script makes up. The
theorems hold for any number of runs and any passwords.

`worker` has no subscribe token, so its lists are those of `/api/nodes` and
`/admin/nodes`. `worker_live` has one, created by the admin in the run, and checks
`ListFresh` for `GET /sub`; its changes are removals by the admin, and a
registration there ends at the token check.

`contract_refused`: a node whose Shadowsocks password has a character beyond
Latin-1 passes the validator; from then on `btoa` throws in `base64UrlEncode`
and every subscription in the default format is answered 400, for all nodes.

`installer_reuse`: an operator types `a\\b`. The configuration and `node.json`
are valid and say `a\b`, which is registered. The next run, with nothing typed,
has `a\b` from `jq -r` and pastes `"a\b"`, which is `a` and a backspace;
sing-box takes it, the registry gets it, and every client's link is dead. With
a plain quote or backslash the JSON is broken instead and the run stops at the
check, with the broken file in place; `a\nb` is cut to `a` by the next run.

The three other violated runs describe one weakness: the files have several writers and no
lock, and one temporary name. `cli_lost_update` ends with a node missing that
was answered 200, `cli_torn_file` with a file the program cannot load,
`tokens_revoked_back` with a revoked token valid again. Two token commands can
also drop a printed token or leave a `config.json` that does not parse, in the
same ways.

With `"read"` among the faults `AckedDurable` and `SubFresh` do not hold: a
start that cannot read `nodes.json` only warns, serves an empty store and the
next save overwrites the file. `node delete` run as root leaves the file
unreadable for the service user. `config.json` has the same weakness: a token
command run as root leaves it unreadable, and the service does not start again.
Users and permissions are not modelled.

## Fairness

`GoNodeStore!Fairness`: handlers proceed (goroutines are scheduled); a handler
waiting for the mutex gets it when it is free again and again (strong fairness:
`sync.Mutex` hands itself over to a waiter that starved for a millisecond); the
service is started again (`Restart=on-failure`, and `RestartSec=5s` stays under
systemd's default start limit). No fairness on requests, crashes or faults.
`GoTokens!FairSpec`: the starting server runs. `ServiceComesUp` assumes that
crashes stop at some point. `CloudflareWorker!FairSpec`: every statement
settles and the event loop resumes its request. The scripts of `Rollout` run
when the operator starts them, so nothing is assumed there and no liveness is
claimed; a script that ends with an error is an end the code allows, hence
`CHECK_DEADLOCK FALSE` in `rollout` and `installer_reuse`. `tokens_revoked_back` sets it too: its
commands are bounded by `MaxTokens` and simply end. Every other run checks for
deadlock.

## Proofs

`GoNodeStoreProofs` proves, for every set of handlers, nodes and records, every
bound on the changes and (where not stated) every set of faults:

* `TypeCorrect`: `Spec => []TypeOK`, by `TypeInv`, which adds that a handler
  at or behind the mutex knows its change.
* `FileAlwaysLoads`: `Spec => []FileLoads`.
* `AckedNeverLost`, `SubAlwaysFresh`: `AckedDurable` and `SubFresh`, if `"read"`
  is not among the faults.
* `ServerImplementsRegistry`: `Spec => Registry!Spec` under the same condition.

The argument. `FileLoads` is not inductive: the rename publishes whatever is in
the temporary file. `MutexInv` (only the holder of the mutex is inside
`saveNodes`, only its descriptor is open, and what it opened is still empty when
it writes) and `SaveInv` (it saves exactly the store, which is the one it found
with its change applied) make it so. `AckedDurable` further needs that a running
server's store also covers everything acknowledged, because the next save
replaces the file by that store (`AckInv`), and that a handler between its
unlock and its answer is covered already. `StoreInv` is their conjunction; it
held in TLC for 2 handlers, 2 nodes, 2 records and 3 changes of the server alone
before it was proved, and no run repeats it. Refinement maps what is served to the store, to
the store before the change while one is in progress, and to the file while
the server is down; `renameTmp` is `Commit`, `saveFails` is `FailedSave`,
`Crash` is `Recover`, all other steps stutter.

`GoNodeCLIProofs` proves `CliTypeCorrect` (`CliSpec => []CliTypeOK`) however
server and commands race, and under `Offline` (the service is stopped, one
command runs) with `"read"` not among the faults `OfflineNeverLoses`
(`AckedDurable`), `OfflineAlwaysLoads` (`FileLoads`) and
`OfflineImplementsRegistry` (`ImplementsRegistry`). `cli_lost_update` and
`cli_torn_file` show that the discipline is needed. `OfflineInv` is the server's invariant,
except that `MutexInv` (every open file is the server's) is suspended while a
command runs. Then `CommandInv` holds instead: the server is down with nothing
under way, the open file is the command's, and the list it will rename into
place is `nodes.json` without the node and covers everything acknowledged. A
killed command or server leaves `path.tmp` behind; that does no harm because whoever
comes next truncates it first. In the refinement the deletion is the one
`Commit` at `cliRenameTmp`; every server step is covered by
`GoNodeStoreProofs`.

`GoTokensProofs` proves, for any number of commands racing with each other and
with the server: `TypeCorrect`, and `RegisterTokenKept` (`Spec => []ConfigReused`).
`ConfigReused` alone is not inductive: a command may rename what another one
wrote. `ReuseInv` separates the time before the first rename, when nothing can
be loaded and only the server saves, from the time after it, when the server
never saves again and every configuration in the file, the temporary file and
the commands has the first one's register tokens.

For commands that run one at a time (`Alone`), of any number of processes, it
proves `ConfigAlwaysLoads`, `PrintedAlwaysKept`, `RevokedAlwaysStays` and
`RestartAlwaysHonours`, each as `Spec /\ []Alone => []P`. `tokens_revoked_back`
shows that two commands at once break them. With one process `Alone` always
holds (`OneIsAlone`), so these theorems contain the instance of
`tokens_serial`. `AloneInv` says whose turn it is to
save (the server's while there is no `config.json`, a command's afterwards;
`TurnInv`), that only a process inside `saveConfigAtomic` has a file open and
has just truncated it (`OpenInv`), that a running command holds the file's
configuration with its own token added or removed (`CommandInv`), and what the
operator was told (`ToldInv`).

`WorkerProofs` proves all safety properties of the runs `worker` and `worker_live`, for any number of
requests, nodes, payloads, tokens and changes and any faults, from `WorkerInv`:
`TypeCorrect`, `AlwaysAuthorized`, `DeleteAlwaysHonest`, `AuditAlwaysTruthful`,
`PrintedAlwaysStored`, `UseAlwaysRecorded`, `ListAlwaysFresh` and `Refinement`
(`Spec => ImplementsService`). `RequestInv(x)` carries what a request knew at an
await to its answer: that its credential was valid at the check (`Allowed`)
and its use recorded (`Touched`), what the `SELECT` of a removal saw (`Found`),
which change is its own (`Executed`), that its new token is in the table
(`Created`) and what its list covers (`Listed`). `TableInv` relates the table to
all changes executed. What makes the parts stable under the steps of others is
`Grows`: nothing recorded is ever taken back, a token is at most disabled. The
refinement further needs that every open request has witnessed the table as it
is, that what it listed or found was among the tables it witnessed, and where
its change stands: not made before `upsert` or `delete`, made when a 200 is on
its way, never when it is a 400, 401 or 404. A request that executes its
statement maps to `Change` (with the failure at once if the answer was lost),
the step that brings it to `reply` to `Answer`, `reply` and `dropped` to `End`,
and everything else to `Wait`, with one lemma per kind of step.

`ContractProofs` proves every property of the run `contract`, for every set of
payloads and every finite set of nodes: `ContractTypeCorrect`,
`TablesAlwaysAgree`, `AnswersAlwaysAgree`, `SubscriptionsAlwaysAgree`,
`ProtocolsAlwaysOffered`, `NamesAlwaysUnique` and `ReferencesAlwaysResolve`.

* `ValidatorsAgree`, the core of the first three: both validators accept the
  same portable payloads. `RemovalsAgree`: the two handlers of `DELETE`, with
  their own credentials and decodings, give the same answer to a portable
  removal of a node both hold alike. `ContractInv` adds to `TypeOK` and `TablesAgree` that
  the Go server never holds a numeric password (`GoDecoded`).
* The documents are lists made by two nested loops, so the rest is about
  flattened lists. `ListProofs` shows that `Ascending` puts any finite set of
  numbers in order (`AscendingSorts`) and that `FlattenSeq` of a list of lists
  has each entry of each list once (`FlattenLists`). The induction behind the second goes over a
  set of numbers (`SetInduction`, from the well-foundedness of `<`), since
  provers here cannot instantiate an induction theorem over a predicate.
* `Spots(rows)` lists the places (row, protocol) that every renderer visits, in
  order; `EntriesSpotted` says that proxy *k* of every kind of document is named
  after place *k*, its host and port taken from there. `NamesInjective` and
  `PlacedOffers` follow. `CodesTell`: no encoding merges names that
  `shadowrocketName` keeps apart. `LinksAgree`: on plain texts the encodings of
  the two languages write the same links.

`RolloutProofs` proves every property of the run `rollout`, for any number of
runs of both scripts and any texts, from `RolloutInv`:

* `DeployInv`: a deployed Worker's database is the one in `wrangler.toml`, which
  is then never rewritten (`Bound`); every token the operator has, or is about
  to be shown, is a row in that database (`Shown`); the script's admin token and
  the stored one are known (`TokenShown`); each step passed without a declined
  question has left its effect (`Achieved`). `DataKept` and `PrintedTokensWork`
  follow from `Bound`: past the first test of `ensureD1Database` there is no Worker.
* `InstallerInv`: how far the run's passwords have come (`Through`).
* `Unchanged`: without a new password since the last registration, `node.json`
  and the run carry the registered Trojan password if that is portable
  (`TakenAgain`: it is read back; `WrittenAsIs`: it is written unchanged);
  `PublishedStable` follows. Without portability it is false: `installer_reuse`.
* `Served`: only the Worker's database has a row, and after a run that
  registered it is `node.json`.

Assumptions: `StoreAssumption`, `OfflineAssumption`, `TokenAssumption`, `ContractAssumption`,
`DeployAssumption`, `InstallerAssumption`, `RolloutAssumption` and
`WorkerAssumption` (distinct model values, types of the constants, that
`parsed` gives a text or `Broken` and `firstLine` a text or nothing, that there
are finitely many identifiers (`node_id` has at most 64 characters) and that the
registries of the installer are the databases of the account). `NodePayload`
names the ranges of ports, and the proofs never expand them.

Every invariant, action property and refinement that a passing run checks is
now also proved. Model-checked only: liveness (`RequestsFinish` of the server and
of the Worker, `ServiceComesUp`), which is out of the prover's reach together
with `ENABLED` and fairness. Each inductive invariant held in TLC, as an
invariant of the run's instance, before it was proved. The theorems say nothing
of a start that cannot read `nodes.json` (`"read"`) beyond types and `FileLoads`.

## Plan

1. Done: the Go server, its command line, tokens and files; the Worker; both
   validators and renderers; the deployment and the node installer; theorems
   about all of them.
2. Next: what still holds without the operator's discipline, as theorems: which
   acknowledged changes survive a `node delete` beside a running server, and
   what two racing token commands can and cannot lose. Shorter proofs where
   two modules share an argument (`JsonFile` in the server, the commands and the
   tokens).

## Not modelled

Wording, logging (`logs.js`), masking of tokens, HTTP details, TLS, the
contents of generated nginx, sysctl and systemd files. The Go installer and the
installer's packages, firewall, nginx, certificates and BBR: commands that are
run in sequence, keep no state the rest depends on and only fail a run; of the
Go installer's unit, what restarts the service is in `GoNodeStore`.
`list-nodes.js`, `list-tokens.js` and `delete-node.js` send one request each.
`updated_at` and `created_at`: nothing reads them and no document promises
that they grow. Dry runs of the installers. `register_node` uses `curl -fsS`
without `-L`, for which a redirect is a success; the model has registries that
answer themselves. `write_outputs` also writes client files with the password
as it was typed, which is the accepted one only if it is portable. A checkout
that brings an older `wrangler.toml` back after the deployment:
`restoreWranglerToml` is only what an operator does about a torn one. Line
breaks in texts: `shadowrocketName` makes them spaces, as it does commas, and
`shadowrocketValue` drops them.
