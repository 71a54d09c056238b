-------------------------- MODULE CloudflareWorker --------------------------
(***************************************************************************)
(* The Cloudflare registry: requests handled by cloudflare-registry/src,   *)
(* sharing one D1 database.  A D1 statement is atomic; every `await` on    *)
(* one lets other requests run in between.  A statement may fail without   *)
(* or after having been executed (the answer is lost); the exception       *)
(* becomes a 500 in fetch, except in writeAudit, which swallows it.  The   *)
(* platform may drop a request at any await.                               *)
(*                                                                         *)
(* Requests that are refused before their first statement change nothing   *)
(* and do not appear.  ops, acked, known, tk, seen, views and printed are  *)
(* history variables.                                                      *)
(***************************************************************************)
EXTENDS Naturals, Sequences, FiniteSets

CONSTANTS
    Handler,         \* requests in flight
    NodeID,
    Version,         \* the validated payloads a node may register
    Absent,          \* no row
    RegisterToken,   \* tokens of kind "register"
    SubscribeToken,  \* tokens of kind "subscribe"
    Issued,          \* the tokens that exist at the beginning
    Admin,           \* env.ADMIN_TOKEN
    Faults,          \* "d1": statements may fail; "drop": requests may vanish
    MaxOps           \* bound on the changes of the nodes table

ASSUME WorkerAssumption ==
    /\ Absent \notin Version \cup NodeID \cup RegisterToken \cup SubscribeToken
    /\ RegisterToken \cap SubscribeToken = {}
    /\ Issued \subseteq RegisterToken \cup SubscribeToken
    /\ Admin \notin RegisterToken \cup SubscribeToken
    /\ Faults \subseteq {"d1", "drop"}
    /\ MaxOps \in Nat

VARIABLES
    nodes,     \* table nodes; at first, what was registered earlier
    tokens,    \* table tokens: absent, enabled or disabled
    used,      \* tokens whose last_used_at is set
    audit,     \* table audit_logs: the rows of changes, by ticket
    pc,        \* pc[x]: the await x is at
    req,       \* req[x]: x's request
    status,    \* status[x]: the HTTP status x will answer
    got,       \* got[x]: the rows x listed
    tk,        \* tk[x]: the ticket of x's change
    known,     \* known[x]: tickets answered 200 before x arrived
    seen,      \* seen[x]: what x's credential was at some time during x
    views,     \* views[x]: the nodes tables there were during x
    ops,       \* all changes of nodes, in the order D1 executed them
    acked,     \* tickets answered with 200
    printed    \* tokens returned by POST /admin/tokens/create

tables == <<nodes, tokens, used, audit>>
vars == <<nodes, tokens, used, audit, pc, req, status, got, tk, known, seen,
          views, ops, acked, printed>>

Record == Version \cup {Absent}
Rows == [NodeID -> Record]
Empty == [n \in NodeID |-> Absent]
Token == RegisterToken \cup SubscribeToken

Request ==
    [op : {"register", "delete", "sub", "nodes", "create"},
     cred : Token \cup {Admin, Absent},
     id : NodeID \cup {Absent},
     rec : Record,
     tok : Token \cup {Absent}]

NoRequest ==
    [op |-> "nodes", cred |-> Absent, id |-> Absent, rec |-> Absent,
     tok |-> Absent]

Change == [id : NodeID, out : Record]

Fact == {"allowed", "refused"}

\* Where an exception of D1 becomes a 500.
Statement == {"find", "touch", "upsert", "select", "delete", "list", "insert"}

TypeOK ==
    /\ nodes \in Rows
    /\ tokens \in [Token -> {"absent", "enabled", "disabled"}]
    /\ used \subseteq Token
    /\ audit \subseteq Nat
    /\ pc \in [Handler -> {"idle", "body", "audit", "reply"} \cup Statement]
    /\ req \in [Handler -> Request]
    /\ status \in [Handler -> {0, 200, 400, 401, 404, 500}]
    /\ got \in [Handler -> Rows]
    /\ tk \in [Handler -> Nat]
    /\ known \in [Handler -> SUBSET Nat]
    /\ seen \in [Handler -> SUBSET Fact]
    /\ views \in [Handler -> SUBSET Rows]
    /\ ops \in Seq(Change)
    /\ acked \subseteq Nat
    /\ printed \subseteq Token

Init ==
    /\ nodes \in Rows
    /\ tokens = [t \in Token |-> IF t \in Issued THEN "enabled" ELSE "absent"]
    /\ used = {}
    /\ audit = {}
    /\ pc = [x \in Handler |-> "idle"]
    /\ req = [x \in Handler |-> NoRequest]
    /\ status = [x \in Handler |-> 0]
    /\ got = [x \in Handler |-> Empty]
    /\ tk = [x \in Handler |-> 0]
    /\ known = [x \in Handler |-> {}]
    /\ seen = [x \in Handler |-> {}]
    /\ views = [x \in Handler |-> {}]
    /\ ops = <<>>
    /\ acked = {}
    /\ printed = {}

-----------------------------------------------------------------------------
(* Tokens.                                                                 *)

Kind(op) == IF op = "sub" THEN SubscribeToken ELSE RegisterToken

\* WHERE token_hash = ? AND kind = ? AND enabled = 1
Enabled(r) == r.cred \in Kind(r.op) /\ tokens[r.cred] = "enabled"

\* requireAdmin, asked by /api/nodes besides the token and by /admin alone.
IsAdmin(r) == r.cred = Admin /\ r.op \in {"delete", "nodes", "create"}

Verdict(r) == IF Enabled(r) \/ IsAdmin(r) THEN "allowed" ELSE "refused"

\* History: what holds after a step has held during every open request.
Observe ==
    /\ seen' = [x \in Handler |->
                   IF pc'[x] = "idle" THEN {} ELSE seen[x] \cup {Verdict(req[x])'}]
    /\ views' = [x \in Handler |->
                    IF pc'[x] = "idle" THEN {} ELSE views[x] \cup {nodes'}]

-----------------------------------------------------------------------------
(* Requests arrive.                                                        *)

Changing == {"register", "delete"}

\* Room for one more change within the bound.
Room ==
    Len(ops) + Cardinality({y \in Handler : /\ pc[y] # "idle"
                                            /\ req[y].op \in Changing
                                            /\ tk[y] = 0}) < MaxOps

Arrive(x, r, label) ==
    /\ pc[x] = "idle"
    /\ r.op \in Changing => Room
    /\ req' = [req EXCEPT ![x] = r]
    /\ known' = [known EXCEPT ![x] = acked]
    /\ pc' = [pc EXCEPT ![x] = label]
    /\ UNCHANGED <<tables, status, got, tk, ops, acked, printed>>
    /\ Observe

handleRegister(x) ==
    \E c \in Token, n \in NodeID, v \in Version :
        Arrive(x, [NoRequest EXCEPT !.op = "register", !.cred = c, !.id = n,
                                    !.rec = v], "find")

handleSub(x) ==
    \E c \in Token :
        Arrive(x, [NoRequest EXCEPT !.op = "sub", !.cred = c], "find")

handleApiNodes(x) ==
    \E c \in Token \cup {Admin} :
        Arrive(x, [NoRequest EXCEPT !.op = "nodes", !.cred = c], "find")

handleApiNode(x) ==
    \E c \in Token \cup {Admin}, n \in NodeID :
        Arrive(x, [NoRequest EXCEPT !.op = "delete", !.cred = c, !.id = n],
               "find")

handleAdminNodes(x) ==
    Arrive(x, [NoRequest EXCEPT !.op = "nodes", !.cred = Admin], "list")

handleAdminNode(x) ==
    \E n \in NodeID :
        Arrive(x, [NoRequest EXCEPT !.op = "delete", !.cred = Admin, !.id = n],
               "select")

\* randomToken returns a token that no row and no other request has.
handleAdminTokenCreate(x) ==
    \E t \in Token :
        /\ tokens[t] = "absent"
        /\ \A y \in Handler : req[y].tok # t
        /\ Arrive(x, [NoRequest EXCEPT !.op = "create", !.cred = Admin,
                                       !.tok = t], "insert")

-----------------------------------------------------------------------------
(* One await after the other.                                              *)

Goto(x, label) ==
    /\ pc' = [pc EXCEPT ![x] = label]
    /\ UNCHANGED status

Answer(x, code, label) ==
    /\ pc' = [pc EXCEPT ![x] = label]
    /\ status' = [status EXCEPT ![x] = code]

\* After findEnabledToken: on to the request's own work, or 401.
Decide(x, found) ==
    IF found \/ IsAdmin(req[x])
    THEN Goto(x, CASE req[x].op = "register" -> "body"
                   [] req[x].op = "delete"   -> "select"
                   [] OTHER                  -> "list")
    ELSE Answer(x, 401, IF req[x].op \in {"register", "sub"} THEN "audit"
                        ELSE "reply")

\* A plausible bug: the query forgets AND enabled = 1.
findEnabledTokenAny(x) ==
    /\ pc[x] = "find"
    /\ IF req[x].cred \in Kind(req[x].op) /\ tokens[req[x].cred] # "absent"
       THEN Goto(x, "touch")
       ELSE Decide(x, FALSE)
    /\ UNCHANGED <<tables, req, got, tk, known, ops, acked, printed>>
    /\ Observe

findEnabledToken(x) ==
    /\ pc[x] = "find"
    /\ IF Enabled(req[x]) THEN Goto(x, "touch") ELSE Decide(x, FALSE)
    /\ UNCHANGED <<tables, req, got, tk, known, ops, acked, printed>>
    /\ Observe

\* A plausible bug: the UPDATE of last_used_at is skipped.
touchTokenNot(x) ==
    /\ pc[x] = "touch"
    /\ Decide(x, TRUE)
    /\ UNCHANGED <<tables, req, got, tk, known, ops, acked, printed>>
    /\ Observe

\* Its second statement, UPDATE tokens SET last_used_at.
touchToken(x) ==
    /\ pc[x] = "touch"
    /\ used' = used \cup {req[x].cred}
    /\ Decide(x, TRUE) \/ ("d1" \in Faults /\ Answer(x, 500, "reply"))
    /\ UNCHANGED <<nodes, tokens, audit, req, got, tk, known, ops, acked,
                   printed>>
    /\ Observe

\* A plausible bug: what is stored is the body, not what validateNode passed.
readBodyRaw(x) ==
    /\ pc[x] = "body"
    /\ Goto(x, "upsert")
    /\ req' = [req EXCEPT ![x].rec = "raw"]
    /\ UNCHANGED <<tables, got, tk, known, ops, acked, printed>>
    /\ Observe

\* readLimitedJson (an exception is a 500) and validateNode.
readBody(x) ==
    /\ pc[x] = "body"
    /\ \/ Goto(x, "upsert")
       \/ Answer(x, 400, "audit")
       \/ Answer(x, 500, "reply")
    /\ UNCHANGED <<tables, req, got, tk, known, ops, acked, printed>>
    /\ Observe

\* A statement that changes the nodes table, and its answer or its loss.
Write(x) ==
    /\ nodes' = [nodes EXCEPT ![req[x].id] = req[x].rec]
    /\ ops' = Append(ops, [id |-> req[x].id, out |-> req[x].rec])
    /\ tk' = [tk EXCEPT ![x] = Len(ops) + 1]
    /\ Answer(x, 200, "audit") \/ ("d1" \in Faults /\ Answer(x, 500, "reply"))
    /\ UNCHANGED <<tokens, used, audit, req, got, known, acked, printed>>
    /\ Observe

\* A plausible bug: the statement is not awaited, its failure goes unseen.
upsertNodeUnawaited(x) ==
    /\ pc[x] = "upsert"
    /\ \/ Write(x)
       \/ /\ "d1" \in Faults
          /\ Answer(x, 200, "audit")
          /\ UNCHANGED <<tables, req, got, tk, known, ops, acked, printed>>
          /\ Observe

\* A plausible bug: after a lost answer the statement is executed again.
upsertNodeRetries(x) ==
    /\ pc[x] = "upsert"
    /\ nodes' = [nodes EXCEPT ![req[x].id] = req[x].rec]
    /\ ops' = Append(ops, [id |-> req[x].id, out |-> req[x].rec])
    /\ tk' = [tk EXCEPT ![x] = Len(ops) + 1]
    /\ Answer(x, 200, "audit") \/ ("d1" \in Faults /\ Goto(x, "upsert"))
    /\ UNCHANGED <<tokens, used, audit, req, got, known, acked, printed>>
    /\ Observe

upsertNode(x) == pc[x] = "upsert" /\ Write(x)

\* A plausible bug: no SELECT, every removal answers 200.
selectNodeNot(x) ==
    /\ pc[x] = "select"
    /\ Goto(x, "delete")
    /\ UNCHANGED <<tables, req, got, tk, known, ops, acked, printed>>
    /\ Observe

\* deleteNode looks first ...
selectNode(x) ==
    /\ pc[x] = "select"
    /\ IF nodes[req[x].id] = Absent THEN Answer(x, 404, "audit")
       ELSE Goto(x, "delete")
    /\ UNCHANGED <<tables, req, got, tk, known, ops, acked, printed>>
    /\ Observe

\* ... and deletes afterwards, whatever is there by then.
deleteNode(x) == pc[x] = "delete" /\ Write(x)

\* A plausible bug: the list is kept in the isolate between requests.
listNodesCached(x) ==
    /\ pc[x] = "list"
    /\ \E y \in Handler :
          got' = [got EXCEPT ![x] = IF pc[y] = "reply" THEN got[y] ELSE nodes]
    /\ Answer(x, 200, IF req[x].op = "sub" THEN "audit" ELSE "reply")
    /\ UNCHANGED <<tables, req, tk, known, ops, acked, printed>>
    /\ Observe

\* listNodes, then renderSubscription, which may refuse the format.
listNodes(x) ==
    /\ pc[x] = "list"
    /\ got' = [got EXCEPT ![x] = nodes]
    /\ IF req[x].op = "sub"
       THEN Answer(x, 200, "audit") \/ Answer(x, 400, "reply")
       ELSE Answer(x, 200, "reply")
    /\ UNCHANGED <<tables, req, tk, known, ops, acked, printed>>
    /\ Observe

\* A plausible bug: the insertion is not awaited, its failure goes unseen.
insertTokenUnawaited(x) ==
    /\ pc[x] = "insert"
    /\ \/ tokens' = [tokens EXCEPT ![req[x].tok] = "enabled"]
       \/ "d1" \in Faults /\ UNCHANGED tokens
    /\ Answer(x, 200, "audit")
    /\ UNCHANGED <<nodes, used, audit, req, got, tk, known, ops, acked, printed>>
    /\ Observe

insertToken(x) ==
    /\ pc[x] = "insert"
    /\ tokens' = [tokens EXCEPT ![req[x].tok] = "enabled"]
    /\ Answer(x, 200, "audit") \/ ("d1" \in Faults /\ Answer(x, 500, "reply"))
    /\ UNCHANGED <<nodes, used, audit, req, got, tk, known, ops, acked, printed>>
    /\ Observe

\* A statement fails before it has done anything.
throws(x) ==
    /\ "d1" \in Faults
    /\ pc[x] \in Statement
    /\ Answer(x, 500, "reply")
    /\ UNCHANGED <<tables, req, got, tk, known, ops, acked, printed>>
    /\ Observe

\* A plausible bug: after a failed audit insertion the work is done again.
writeAuditRetries(x) ==
    /\ pc[x] = "audit"
    /\ \/ Goto(x, "reply")
       \/ "d1" \in Faults /\ req[x].op = "sub" /\ Goto(x, "list")
    /\ audit' = IF tk[x] # 0 THEN audit \cup {tk[x]} ELSE audit
    /\ UNCHANGED <<nodes, tokens, used, req, got, tk, known, ops, acked, printed>>
    /\ Observe

\* A row for a change (ticket tk[x]) or for something else; best effort.
writeAudit(x) ==
    /\ pc[x] = "audit"
    /\ Goto(x, "reply")
    /\ \/ audit' = IF tk[x] # 0 THEN audit \cup {tk[x]} ELSE audit
       \/ "d1" \in Faults /\ UNCHANGED audit
    /\ UNCHANGED <<nodes, tokens, used, req, got, tk, known, ops, acked, printed>>
    /\ Observe

Gone(x) ==
    /\ pc' = [pc EXCEPT ![x] = "idle"]
    /\ req' = [req EXCEPT ![x] = NoRequest]
    /\ status' = [status EXCEPT ![x] = 0]
    /\ got' = [got EXCEPT ![x] = Empty]
    /\ tk' = [tk EXCEPT ![x] = 0]
    /\ known' = [known EXCEPT ![x] = {}]
    /\ UNCHANGED <<tables, ops>>
    /\ Observe

\* The response leaves the Worker.
reply(x) ==
    /\ pc[x] = "reply"
    /\ acked' = IF status[x] = 200 /\ req[x].op \in Changing
                THEN acked \cup {tk[x]} ELSE acked
    /\ printed' = IF status[x] = 200 /\ req[x].op = "create"
                  THEN printed \cup {req[x].tok} ELSE printed
    /\ Gone(x)

\* The client disconnects or the isolate is evicted.
dropped(x) ==
    /\ "drop" \in Faults
    /\ pc[x] # "idle"
    /\ Gone(x)
    /\ UNCHANGED <<acked, printed>>

\* The operator disables a token in D1; no endpoint does.
disableToken(t) ==
    /\ tokens[t] = "enabled"
    /\ tokens' = [tokens EXCEPT ![t] = "disabled"]
    /\ UNCHANGED <<nodes, used, audit, pc, req, status, got, tk, known, ops,
                   acked, printed>>
    /\ Observe

-----------------------------------------------------------------------------
request(x) ==
    \/ handleRegister(x)
    \/ handleSub(x)
    \/ handleApiNodes(x)
    \/ handleApiNode(x)
    \/ handleAdminNodes(x)
    \/ handleAdminNode(x)
    \/ handleAdminTokenCreate(x)

proceed(x) ==
    \/ findEnabledToken(x)
    \/ touchToken(x)
    \/ readBody(x)
    \/ upsertNode(x)
    \/ selectNode(x)
    \/ deleteNode(x)
    \/ listNodes(x)
    \/ insertToken(x)
    \/ writeAudit(x)
    \/ reply(x)
    \/ throws(x)

Next ==
    \/ \E x \in Handler : request(x) \/ proceed(x) \/ dropped(x)
    \/ \E t \in Token : disableToken(t)

Spec == Init /\ [][Next]_vars

\* Every await settles and the event loop resumes its request.
FairSpec == Spec /\ \A x \in Handler : WF_vars(proceed(x))

-----------------------------------------------------------------------------
(* Properties.                                                             *)

\* The rows d hold the outcome of change k or of a later one of that node.
Covers(d, k) ==
    \E j \in k .. Len(ops) :
        /\ ops[j].id = ops[k].id
        /\ ops[j].out = d[ops[k].id]

\* A list or subscription shows, for every change answered 200 before the
\* request arrived, its outcome or a later one (handleSub, handleApiNodes).
ListFresh ==
    \A x \in Handler :
        pc[x] = "reply" /\ status[x] = 200 /\ req[x].op \in {"sub", "nodes"}
            => \A k \in known[x] : Covers(got[x], k)

\* A 401 was deserved, and anything else but a 500 allowed, at some moment of
\* the request: the token was in D1, enabled and of the right kind, or was the
\* admin's (findEnabledToken, requireAdmin).
AnswersAuthorized ==
    \A x \in Handler :
        pc[x] = "reply" =>
            /\ status[x] = 401 => "refused" \in seen[x]
            /\ status[x] \in {200, 400, 404} => "allowed" \in seen[x]

\* A removal answers 200 only if the node was there at some moment of the
\* request, and 404 only if it was not, although deleteNode looks and deletes
\* in two statements.
DeleteHonest ==
    \A x \in Handler :
        pc[x] = "reply" /\ req[x].op = "delete" =>
            /\ status[x] = 200 => \E d \in views[x] : d[req[x].id] # Absent
            /\ status[x] = 404 => \E d \in views[x] : d[req[x].id] = Absent

\* The audit log never reports a change that D1 has not executed, and a 200
\* for a change means it was executed (handleRegister, deleteNodeFromPath).
AuditTruthful ==
    /\ audit \cup acked \subseteq 1 .. Len(ops)
    /\ \A x \in Handler :
        /\ pc[x] \in {"audit", "reply"}
        /\ status[x] = 200
        /\ req[x].op \in Changing
        => /\ tk[x] \in 1 .. Len(ops)
           /\ ops[tk[x]] = [id |-> req[x].id, out |-> req[x].rec]

\* A token returned to the admin is in D1; only the operator takes it away
\* (handleAdminTokenCreate).
PrintedStored == \A t \in printed : tokens[t] # "absent"

\* No token opens a request without a trace in last_used_at, whatever
\* statement fails (findEnabledToken).
UseRecorded ==
    \A x \in Handler :
        /\ pc[x] = "reply"
        /\ status[x] \in {200, 400, 404}
        /\ req[x].cred \in Token
        => req[x].cred \in used

\* Every request is answered (or dropped), whatever statements fail.
RequestsFinish == \A x \in Handler : pc[x] # "idle" ~> pc[x] = "idle"

\* What a client sees of its request; token creation is not about nodes.
Open(x) == pc[x] # "idle" /\ req[x].op # "create"

Asked(x) ==
    [op |-> IF req[x].op \in Changing THEN req[x].op ELSE "list",
     id |-> req[x].id, rec |-> req[x].rec]

NoCall == [op |-> "none", id |-> Absent, rec |-> Absent]

Listing(x) == status[x] = 200 /\ req[x].op \in {"sub", "nodes"}

Told(x) ==
    IF Open(x) /\ pc[x] = "reply"
    THEN [code |-> status[x], rows |-> IF Listing(x) THEN got[x] ELSE Empty]
    ELSE [code |-> 0, rows |-> Empty]

calls     == [x \in Handler |-> IF Open(x) THEN Asked(x) ELSE NoCall]
witnessed == [x \in Handler |-> IF Open(x) THEN views[x] ELSE {}]
entitled  == [x \in Handler |-> "allowed" \in seen[x]]
executed  == [x \in Handler |-> tk[x] # 0]
answers   == [x \in Handler |-> Told(x)]

Service ==
    INSTANCE RegistryService WITH
        Client <- Handler, None <- NoCall, table <- nodes, call <- calls,
        views <- witnessed, entitled <- entitled, done <- executed,
        answer <- answers

\* Every client of the Worker gets what RegistryService promises: awaits,
\* statements that fail or lose their answer, and requests that vanish never
\* make a change twice, after its answer or for a stranger, nor an answer
\* that was wrong all the time.
ImplementsService == Service!Spec
=============================================================================
