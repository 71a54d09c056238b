---------------------------- MODULE GoNodeStore -----------------------------
(***************************************************************************)
(* The node store of the Go registry server: the map s.store, its mutex,   *)
(* the goroutines net/http runs the handlers of server.go in, and          *)
(* nodes.json, which every change rewrites while the mutex is held.        *)
(*                                                                         *)
(* Requests enter here once they have passed the method, token and body    *)
(* checks; a rejected request changes nothing.  A node's record is a       *)
(* member of Version.  nodes.json lists the nodes sorted by id             *)
(* (sortedNodesLocked), so a document is determined by the map it holds.   *)
(*                                                                         *)
(* Each change of the store gets a ticket, its position in ops, the order  *)
(* in which changes entered the mutex.  ops, acked, known and before are   *)
(* history variables: no step of the code depends on them, except for the  *)
(* bound MaxOps.                                                           *)
(***************************************************************************)
EXTENDS Naturals, Sequences, FiniteSets

CONSTANTS
    Handler,     \* goroutines serving requests
    Cli,         \* command-line processes that may also write nodes.json
    NodeID,
    Version,     \* the validated records a node may register
    Absent,      \* the node is not in the store
    Free,        \* the mutex is unlocked
    Faults,      \* "save": a system call of saveNodes may fail;
                 \* "read": nodes.json may be unreadable when the server starts
    MaxOps       \* bound on the changes of the store in a behaviour

ASSUME StoreAssumption ==
    /\ Absent \notin Version
    /\ Absent \notin NodeID
    /\ Free \notin Handler
    /\ Handler \cap Cli = {}
    /\ Faults \subseteq {"save", "read"}
    /\ MaxOps \in Nat

VARIABLES
    file, tmp, fd,  \* nodes.json, nodes.json.tmp and who has it open
    up,             \* the server process runs
    mu,             \* s.mu: its holder, or Free
    store,          \* s.store
    pc,             \* pc[x]: where handler x is
    req,            \* req[x]: the change x was asked for
    nodes,          \* nodes[x]: x's local copy from sortedNodesLocked
    tk,             \* tk[x]: the ticket of x's change
    known,          \* known[x]: tickets answered 200 before x's read arrived
    before,         \* s.store as it was when the mutex was last taken to write
    ops,            \* all changes, in mutex order
    acked           \* tickets answered with 200

jsonVars == <<file, tmp, fd>>
localVars == <<pc, req, nodes, tk, known>>
vars == <<file, tmp, fd, up, mu, store, pc, req, nodes, tk, known, before,
          ops, acked>>

Record == Version \cup {Absent}
Store == [NodeID -> Record]
Empty == [n \in NodeID |-> Absent]
Proc == Handler \cup Cli

\* A change: the record NodeID n gets, Absent for a removal.
Op == [id : NodeID, out : Record]
NoOp == [id |-> Absent, out |-> Absent]

DataFile == INSTANCE JsonFile WITH Doc <- Store, Blank <- Empty

Saving == {"open", "write", "rename"}
Pc == {"idle", "lock", "ok", "err", "read", "render"} \cup Saving

TypeOK ==
    /\ DataFile!JsonTypeOK
    /\ up \in BOOLEAN
    /\ mu \in Handler \cup {Free}
    /\ store \in Store
    /\ pc \in [Handler -> Pc]
    /\ req \in [Handler -> Op \cup {NoOp}]
    /\ nodes \in [Handler -> Store]
    /\ tk \in [Handler -> Nat]
    /\ known \in [Handler -> SUBSET Nat]
    /\ before \in Store
    /\ ops \in Seq(Op)
    /\ acked \subseteq Nat

Init ==
    /\ file = DataFile!Missing
    /\ tmp = DataFile!Missing
    /\ fd = [p \in Proc |-> "none"]
    /\ up = FALSE
    /\ mu = Free
    /\ store = Empty
    /\ pc = [x \in Handler |-> "idle"]
    /\ req = [x \in Handler |-> NoOp]
    /\ nodes = [x \in Handler |-> Empty]
    /\ tk = [x \in Handler |-> 0]
    /\ known = [x \in Handler |-> {}]
    /\ before = Empty
    /\ ops = <<>>
    /\ acked = {}

-----------------------------------------------------------------------------
(* Requests arrive.                                                        *)

Goto(x, label) == pc' = [pc EXCEPT ![x] = label]

\* Room for one more change within the bound.
Room ==
    Len(ops) + Cardinality({y \in Handler : pc[y] = "lock"}) < MaxOps

Arrive(x, op) ==
    /\ up
    /\ pc[x] = "idle"
    /\ Room
    /\ req' = [req EXCEPT ![x] = op]
    /\ Goto(x, "lock")
    /\ UNCHANGED <<jsonVars, up, mu, store, nodes, tk, known, before, ops,
                   acked>>

\* A plausible bug: a body without node_id passes the validation.
handleRegisterUnvalidated(x) ==
    \E n \in NodeID \cup {Absent}, v \in Version :
        Arrive(x, [id |-> n, out |-> v])

handleRegister(x) ==
    \E n \in NodeID, v \in Version : Arrive(x, [id |-> n, out |-> v])

handleAPINode(x) ==
    \E n \in NodeID : Arrive(x, [id |-> n, out |-> Absent])

ReadArrives(x) ==
    /\ up
    /\ pc[x] = "idle"
    /\ known' = [known EXCEPT ![x] = acked]
    /\ Goto(x, "read")
    /\ UNCHANGED <<jsonVars, up, mu, store, req, nodes, tk, before, ops,
                   acked>>

\* The two readers differ in the token list they check and in what they
\* render from their copy, not in what they do to the store.
handleSub(x) == ReadArrives(x)
handleAPINodes(x) == ReadArrives(x)

-----------------------------------------------------------------------------
(* Under the mutex.                                                        *)

\* A plausible bug: the list to save is collected before the update.
ApplyAfterListing(x) ==
    /\ mu' = x
    /\ before' = store
    /\ store' = [store EXCEPT ![req[x].id] = req[x].out]
    /\ nodes' = [nodes EXCEPT ![x] = store]
    /\ ops' = Append(ops, req[x])
    /\ tk' = [tk EXCEPT ![x] = Len(ops) + 1]
    /\ Goto(x, "open")
    /\ UNCHANGED <<jsonVars, up, req, known, acked>>

\* Lock, change s.store, sortedNodesLocked, enter saveNodes.
Apply(x) ==
    /\ mu' = x
    /\ before' = store
    /\ store' = [store EXCEPT ![req[x].id] = req[x].out]
    /\ nodes' = [nodes EXCEPT ![x] = store']
    /\ ops' = Append(ops, req[x])
    /\ tk' = [tk EXCEPT ![x] = Len(ops) + 1]
    /\ Goto(x, "open")
    /\ UNCHANGED <<jsonVars, up, req, known, acked>>

\* A plausible bug: the handler does not wait for the mutex.
lockRegisterUnguarded(x) ==
    /\ pc[x] = "lock"
    /\ req[x].out # Absent
    /\ Apply(x)

lockRegister(x) ==
    /\ pc[x] = "lock"
    /\ req[x].out # Absent
    /\ mu = Free
    /\ Apply(x)

lockDelete(x) ==
    /\ pc[x] = "lock"
    /\ req[x].out = Absent
    /\ mu = Free
    /\ store[req[x].id] # Absent
    /\ Apply(x)

\* A plausible bug: the early return of the 404 path keeps the mutex.
deleteNotFoundLocked(x) ==
    /\ pc[x] = "lock"
    /\ req[x].out = Absent
    /\ mu = Free
    /\ store[req[x].id] = Absent
    /\ mu' = x
    /\ Goto(x, "err")
    /\ UNCHANGED <<jsonVars, up, store, req, nodes, tk, known, before, ops,
                   acked>>

\* The 404 path: lock, look, unlock.
deleteNotFound(x) ==
    /\ pc[x] = "lock"
    /\ req[x].out = Absent
    /\ mu = Free
    /\ store[req[x].id] = Absent
    /\ Goto(x, "err")
    /\ UNCHANGED <<jsonVars, up, mu, store, req, nodes, tk, known, before,
                   ops, acked>>

\* The readers' critical section.
snapshot(x) ==
    /\ pc[x] = "read"
    /\ mu = Free
    /\ nodes' = [nodes EXCEPT ![x] = store]
    /\ Goto(x, "render")
    /\ UNCHANGED <<jsonVars, up, mu, store, req, tk, known, before, ops,
                   acked>>

openTmp(x) ==
    /\ pc[x] = "open"
    /\ DataFile!OpenTmp(x)
    /\ Goto(x, "write")
    /\ UNCHANGED <<up, mu, store, req, nodes, tk, known, before, ops, acked>>

writeTmp(x) ==
    /\ pc[x] = "write"
    /\ DataFile!WriteTmp(x, nodes[x])
    /\ Goto(x, "rename")
    /\ UNCHANGED <<up, mu, store, req, nodes, tk, known, before, ops, acked>>

\* saveNodes returns and the handler unlocks.
Unlock ==
    /\ mu' = Free
    /\ before' = Empty

renameTmp(x) ==
    /\ pc[x] = "rename"
    /\ DataFile!RenameTmp
    /\ Unlock
    /\ Goto(x, "ok")
    /\ UNCHANGED <<up, store, req, nodes, tk, known, ops, acked>>

\* One of saveNodes' calls fails: MkdirAll or the open, the write, the
\* rename (always when another process has renamed the file away).  The
\* change stays in s.store.
saveFails(x) ==
    /\ \/ /\ pc[x] = "open"
          /\ "save" \in Faults
          /\ UNCHANGED jsonVars
       \/ /\ pc[x] = "write"
          /\ "save" \in Faults
          /\ DataFile!WriteFails(x, nodes[x])
       \/ /\ pc[x] = "rename"
          /\ "save" \in Faults \/ tmp = DataFile!Missing
          /\ UNCHANGED jsonVars
    /\ Unlock
    /\ Goto(x, "err")
    /\ UNCHANGED <<up, store, req, nodes, tk, known, ops, acked>>

-----------------------------------------------------------------------------
(* Answers, stops and starts.                                              *)

\* The handler returns; its locals are gone.
Done(x) ==
    /\ Goto(x, "idle")
    /\ req' = [req EXCEPT ![x] = NoOp]
    /\ nodes' = [nodes EXCEPT ![x] = Empty]
    /\ tk' = [tk EXCEPT ![x] = 0]
    /\ known' = [known EXCEPT ![x] = {}]
    /\ UNCHANGED <<jsonVars, up, mu, store, before, ops>>

\* 200 to a registration or a removal.
replyOK(x) ==
    /\ pc[x] = "ok"
    /\ acked' = acked \cup {tk[x]}
    /\ Done(x)

\* 404 or 500.
replyError(x) ==
    /\ pc[x] = "err"
    /\ Done(x)
    /\ UNCHANGED acked

\* The reader renders its copy, without the mutex, and answers.
render(x) ==
    /\ pc[x] = "render"
    /\ Done(x)
    /\ UNCHANGED acked

\* The process is killed or stopped (there is no signal handler: systemd's
\* SIGTERM ends it between any two system calls).
Crash ==
    /\ up
    /\ up' = FALSE
    /\ DataFile!Quit(Handler)
    /\ mu' = Free
    /\ store' = Empty
    /\ before' = Empty
    /\ pc' = [x \in Handler |-> "idle"]
    /\ req' = [x \in Handler |-> NoOp]
    /\ nodes' = [x \in Handler |-> Empty]
    /\ tk' = [x \in Handler |-> 0]
    /\ known' = [x \in Handler |-> {}]
    /\ UNCHANGED <<ops, acked>>

\* A plausible bug: the loaded nodes never reach the map.
StartEmpty ==
    /\ ~up
    /\ up' = TRUE
    /\ store' = Empty
    /\ UNCHANGED <<jsonVars, mu, localVars, before, ops, acked>>

\* newRegistryServer: a missing file is an empty store; so is one that
\* cannot be read or parsed, after a warning.
Start ==
    /\ ~up
    /\ up' = TRUE
    /\ \/ store' = file.doc
       \/ "read" \in Faults /\ store' = Empty
    /\ UNCHANGED <<jsonVars, mu, localVars, before, ops, acked>>

-----------------------------------------------------------------------------
request(x) ==
    \/ handleRegister(x)
    \/ handleAPINode(x)
    \/ handleSub(x)
    \/ handleAPINodes(x)

lock(x) ==
    \/ lockRegister(x)
    \/ lockDelete(x)
    \/ deleteNotFound(x)
    \/ snapshot(x)

proceed(x) ==
    \/ openTmp(x)
    \/ writeTmp(x)
    \/ renameTmp(x)
    \/ saveFails(x)
    \/ replyOK(x)
    \/ replyError(x)
    \/ render(x)

Next ==
    \/ \E x \in Handler : request(x) \/ lock(x) \/ proceed(x)
    \/ Crash
    \/ Start

Spec == Init /\ [][Next]_vars

\* A runnable goroutine runs; sync.Mutex hands itself to a waiter that has
\* starved for a millisecond, so a mutex that is free again and again is
\* eventually acquired; systemd restarts the service (Restart=on-failure).
Fairness ==
    /\ \A x \in Handler : WF_vars(proceed(x)) /\ SF_vars(lock(x))
    /\ WF_vars(Start)

FairSpec == Spec /\ Fairness

-----------------------------------------------------------------------------
(* Properties.                                                             *)

\* The map d holds the outcome of change k of the history h, or that of a
\* later change of the same node.
Covers(h, d, k) ==
    \E j \in k .. Len(h) :
        /\ h[j].id = h[k].id
        /\ h[j].out = d[h[k].id]

\* A registration or removal that was answered 200 is never lost: whatever
\* failed saves, crashes and restarts follow, nodes.json holds its outcome or
\* that of a later change of the same node (handleRegister, handleAPINode).
AckedDurable == \A k \in acked : Covers(ops, file.doc, k)

\* A subscription or node list shows, for every change answered before the
\* request arrived, its outcome or a later one (handleSub, handleAPINodes).
SubFresh ==
    \A x \in Handler :
        pc[x] = "render" => \A k \in known[x] : Covers(ops, nodes[x], k)

\* Wherever a crash falls, nodes.json is missing or one complete document:
\* the temporary file and the rename of writeJSONAtomic make it so.
FileLoads == DataFile!Loads(file)

\* Every request is answered: no path through a handler keeps the mutex, and
\* no handler waits for it forever (unless the server stops).
RequestsFinish == \A x \in Handler : pc[x] # "idle" ~> pc[x] = "idle"

\* What clients see: the store, or the one before a change in progress.
ServedNow ==
    IF ~up THEN file.doc ELSE IF mu = Free THEN store ELSE before

Registry == INSTANCE NodeRegistry WITH served <- ServedNow, saved <- file.doc

\* The server implements the abstract registry: a change reaches clients and
\* disk in one indivisible step that touches one node, only a failed save
\* separates the two, and a restart returns to what is on disk.
ImplementsRegistry == Registry!Spec

-----------------------------------------------------------------------------
(* The inductive invariant behind the properties.                          *)

\* Only the holder of the mutex is inside saveNodes, and it alone has a file
\* open, the one now at nodes.json.tmp.
MutexInv ==
    /\ \A x \in Handler : pc[x] \in Saving <=> mu = x
    /\ ~up => \A x \in Handler : pc[x] = "idle"
    /\ \A x \in Handler : pc[x] = "write" => fd[x] = "tmp" /\ tmp = DataFile!Truncated
    /\ \A p \in Proc : fd[p] # "none" => p \in Handler /\ pc[p] = "write"

\* The holder saves exactly the store, which is the one it found with its own
\* change applied.
SaveInv ==
    \A x \in Handler : pc[x] \in Saving =>
        /\ nodes[x] = store
        /\ store = [before EXCEPT ![req[x].id] = req[x].out]
        /\ tk[x] \in 1 .. Len(ops)
        /\ ops[tk[x]] = req[x]
        /\ pc[x] = "rename" => tmp = DataFile!Holding(store)

\* Everything answered, or about to be answered, 200 is in nodes.json and in
\* the store of a running server.
AckInv ==
    /\ acked \subseteq 1 .. Len(ops)
    /\ \A k \in acked :
        /\ Covers(ops, file.doc, k)
        /\ up => Covers(ops, store, k)
    /\ \A x \in Handler : pc[x] = "ok" =>
        /\ tk[x] \in 1 .. Len(ops)
        /\ Covers(ops, file.doc, tk[x])
        /\ Covers(ops, store, tk[x])

ReadInv ==
    /\ \A x \in Handler : known[x] \subseteq acked
    /\ SubFresh

\* nodes.json is always exactly what the last successful save put there: this
\* is the strengthening that makes AckedDurable, SubFresh and FileLoads
\* inductive (all handlers of server.go, saveNodes).
StoreInv == MutexInv /\ SaveInv /\ FileLoads /\ AckInv /\ ReadInv
=============================================================================
