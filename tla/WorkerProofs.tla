---------------------------- MODULE WorkerProofs ----------------------------
(***************************************************************************)
(* Theorems about the Cloudflare registry, for any number of requests in   *)
(* flight, nodes, tokens and changes, with or without failing statements   *)
(* and dropped requests.                                                   *)
(***************************************************************************)
EXTENDS CloudflareWorker, TLAPS

\* The awaits behind the token check.
Past == {"body", "upsert", "select", "delete", "list", "insert"}

\* The awaits at which the answer is decided.
Ended == {"audit", "reply"}

\* Answers that are neither a refusal nor a failure.
Served == {200, 400, 404}

\* A request is where its kind of request goes.
Placed(x) ==
    /\ pc[x] \notin Ended => tk[x] = 0
    /\ pc[x] \in {"body", "upsert"} => req[x].op = "register"
    /\ pc[x] \in {"select", "delete"} => req[x].op = "delete"
    /\ pc[x] = "list" => req[x].op \in {"sub", "nodes"}
    /\ pc[x] = "insert" => req[x].op = "create"
    /\ pc[x] \in {"find", "touch"} => req[x].op # "create"
    /\ pc[x] = "touch" => req[x].cred \in Token
    /\ pc[x] # "idle" /\ req[x].op \in Changing => req[x].id \in NodeID
    /\ pc[x] # "idle" /\ req[x].op = "create" => req[x].tok \in Token
    /\ tk[x] # 0 => req[x].op \in Changing
    /\ pc[x] \in Ended =>
        /\ status[x] # 0
        /\ status[x] = 404 => req[x].op = "delete"
        /\ status[x] \in {400, 401, 404} => tk[x] = 0

\* The check has seen the credential valid, or the answer is 401 or 500.
Allowed(x) ==
    /\ pc[x] \in {"touch"} \cup Past => "allowed" \in seen[x]
    /\ pc[x] \in Ended =>
        /\ status[x] = 401 => "refused" \in seen[x]
        /\ status[x] \in Served => "allowed" \in seen[x]

\* Whoever got past the check with a token is in last_used_at.
Touched(x) ==
    /\ pc[x] \in Past \/ (pc[x] \in Ended /\ status[x] \in Served)
    /\ req[x].cred \in Token
    => req[x].cred \in used

\* What a removal found.
Found(x) ==
    /\ pc[x] = "delete" => \E d \in views[x] : d[req[x].id] # Absent
    /\ pc[x] \in Ended /\ req[x].op = "delete" =>
        /\ status[x] = 200 => \E d \in views[x] : d[req[x].id] # Absent
        /\ status[x] = 404 => \E d \in views[x] : d[req[x].id] = Absent

\* The ticket is that of the request's own change.
Executed(x) ==
    /\ tk[x] \in 0 .. Len(ops)
    /\ pc[x] \in Ended /\ status[x] = 200 /\ req[x].op \in Changing =>
        /\ tk[x] # 0
        /\ ops[tk[x]] = [id |-> req[x].id, out |-> req[x].rec]

\* A token about to be shown is in D1.
Created(x) ==
    pc[x] \in Ended /\ status[x] = 200 /\ req[x].op = "create"
        => tokens[req[x].tok] # "absent"

\* What was listed shows everything acknowledged before, and was the table.
Listed(x) ==
    /\ known[x] \subseteq 1 .. Len(ops)
    /\ pc[x] \in Ended /\ status[x] = 200 /\ req[x].op \in {"sub", "nodes"}
        => /\ \A k \in known[x] : Covers(got[x], k)
           /\ got[x] \in views[x]

RequestInv(x) ==
    /\ Placed(x)
    /\ Allowed(x)
    /\ Touched(x)
    /\ Found(x)
    /\ Executed(x)
    /\ Created(x)
    /\ Listed(x)

\* The table is the outcome of all changes; log and answers stay behind them.
TableInv ==
    /\ \A k \in 1 .. Len(ops) : Covers(nodes, k)
    /\ audit \cup acked \subseteq 1 .. Len(ops)
    /\ PrintedStored

\* An open request witnesses every table, from its arrival on.
Viewed(x) ==
    /\ pc[x] = "idle" => views[x] = {}
    /\ pc[x] # "idle" => nodes \in views[x]

WorkerInv ==
    /\ TypeOK
    /\ TableInv
    /\ \A x \in Handler : Viewed(x)
    /\ \A x \in Handler : RequestInv(x)

-----------------------------------------------------------------------------
(* What every step does to the shared tables and to the other requests.    *)

Label == {"idle", "body", "audit", "reply"} \cup Statement
Status == {0, 200, 400, 401, 404, 500}

\* Nothing that was recorded is taken back, except that a token is disabled.
Grows ==
    /\ Len(ops) <= Len(ops')
    /\ \A k \in 1 .. Len(ops) : ops'[k] = ops[k]
    /\ used \subseteq used'
    /\ \A t \in Token : tokens[t] # "absent" => tokens'[t] # "absent"

\* y is not the request that moves.
Waits(y) ==
    /\ pc'[y] = pc[y]
    /\ req'[y] = req[y]
    /\ status'[y] = status[y]
    /\ got'[y] = got[y]
    /\ tk'[y] = tk[y]
    /\ known'[y] = known[y]

\* The history of the requests after a step.
LEMMA SeenGrows ==
    ASSUME TypeOK, Observe
    PROVE  /\ seen' \in [Handler -> SUBSET Fact]
           /\ nodes' \in Rows => views' \in [Handler -> SUBSET Rows]
           /\ \A y \in Handler :
                /\ Viewed(y)'
                /\ pc'[y] # "idle" =>
                    /\ seen[y] \subseteq seen'[y] /\ views[y] \subseteq views'[y]
                    /\ Verdict(req[y])' \in seen'[y]
<1>1. \A y \in Handler :
         /\ seen'[y] = IF pc'[y] = "idle" THEN {} ELSE seen[y] \cup {Verdict(req[y])'}
         /\ views'[y] = IF pc'[y] = "idle" THEN {} ELSE views[y] \cup {nodes'}
  BY DEF Observe
<1>2. /\ seen' = [y \in Handler |-> seen'[y]]
      /\ views' = [y \in Handler |-> views'[y]]
  BY DEF Observe
<1>3. ASSUME NEW y \in Handler
      PROVE  /\ seen'[y] \in SUBSET Fact
             /\ nodes' \in Rows => views'[y] \in SUBSET Rows
             /\ Viewed(y)'
             /\ pc'[y] # "idle" =>
                  /\ seen[y] \subseteq seen'[y] /\ views[y] \subseteq views'[y]
                  /\ Verdict(req[y])' \in seen'[y]
  <2> DEFINE now == Verdict(req[y])'
  <2>1. now \in Fact /\ seen[y] \subseteq Fact /\ views[y] \subseteq Rows
    BY DEF TypeOK, Verdict, Fact
  <2>2. /\ seen'[y] = IF pc'[y] = "idle" THEN {} ELSE seen[y] \cup {now}
        /\ views'[y] = IF pc'[y] = "idle" THEN {} ELSE views[y] \cup {nodes'}
    BY <1>1
  <2> HIDE DEF now
  <2>3. /\ seen'[y] \in SUBSET Fact
        /\ nodes' \in Rows => views'[y] \in SUBSET Rows
        /\ pc'[y] # "idle" =>
             /\ seen[y] \subseteq seen'[y] /\ views[y] \subseteq views'[y]
             /\ now \in seen'[y]
    BY <2>1, <2>2
  <2>4. Viewed(y)'
    BY <2>2 DEF Viewed
  <2> QED
    BY <2>3, <2>4 DEF now
<1> QED
  BY <1>2, <1>3

\* A request that waits keeps its part of the invariant.
LEMMA WaitingKeeps ==
    ASSUME TypeOK, ops' \in Seq(Change), NEW y \in Handler, RequestInv(y),
           Waits(y), Grows,
           pc[y] # "idle" => seen[y] \subseteq seen'[y] /\ views[y] \subseteq views'[y]
    PROVE  RequestInv(y)'
<1> USE DEF Waits
<1>1. Placed(y)'
  BY DEF RequestInv, Placed
<1>2. Allowed(y)'
  BY DEF RequestInv, Allowed, Past, Ended, Statement
<1>3. Touched(y)'
  BY DEF RequestInv, Touched, Grows
<1>4. Found(y)'
  BY DEF RequestInv, Found, Ended
<1>5. Executed(y)'
  <2>1. tk[y] \in Nat /\ Len(ops) \in Nat /\ Len(ops') \in Nat
    BY DEF TypeOK
  <2>2. tk[y] \in 0 .. Len(ops')
    BY <2>1 DEF RequestInv, Executed, Grows
  <2>3. tk[y] # 0 => ops'[tk[y]] = ops[tk[y]]
    BY <2>1 DEF RequestInv, Executed, Grows
  <2> QED
    BY <2>2, <2>3 DEF RequestInv, Executed
<1>6. Created(y)'
  BY DEF RequestInv, Created, Placed, Grows, Ended
<1>7. Listed(y)'
  <2>1. Len(ops) \in Nat /\ Len(ops') \in Nat /\ Len(ops) <= Len(ops')
    BY DEF TypeOK, Grows
  <2>2. known[y] \subseteq 1 .. Len(ops)
    BY DEF RequestInv, Listed
  <2>3. known[y] \subseteq 1 .. Len(ops')
    BY <2>1, <2>2
  <2>4. ASSUME NEW k \in known[y], Covers(got[y], k)
        PROVE  Covers(got[y], k)'
    <3>1. PICK j \in k .. Len(ops) :
              ops[j].id = ops[k].id /\ ops[j].out = got[y][ops[k].id]
      BY <2>4 DEF Covers
    <3>2. k \in 1 .. Len(ops) /\ j \in 1 .. Len(ops) /\ j \in k .. Len(ops')
      BY <2>1, <2>2
    <3>3. ops'[j] = ops[j] /\ ops'[k] = ops[k]
      BY <3>2 DEF Grows
    <3> QED
      BY <3>1, <3>2, <3>3 DEF Covers
  <2> QED
    BY <2>3, <2>4 DEF RequestInv, Listed, Ended
<1> QED
  BY <1>1, <1>2, <1>3, <1>4, <1>5, <1>6, <1>7 DEF RequestInv

\* The tables, when no change is made.
LEMMA TableKeeps ==
    ASSUME TypeOK, TableInv, Grows, nodes' = nodes, ops' = ops,
           audit' \subseteq 1 .. Len(ops), acked' \subseteq 1 .. Len(ops),
           \A t \in printed' \ printed : tokens'[t] # "absent"
    PROVE  TableInv'
<1>1. \A k : Covers(nodes, k)' <=> Covers(nodes, k)
  BY DEF Covers
<1>2. PrintedStored'
  BY DEF TypeOK, TableInv, PrintedStored, Grows
<1> QED
  BY <1>1, <1>2 DEF TableInv

\* One request moves: its own part and the tables are what is left to show.
LEMMA OneMoves ==
    ASSUME WorkerInv, TypeOK', Grows, Observe, TableInv', NEW x \in Handler,
           \A y \in Handler \ {x} : Waits(y), RequestInv(x)'
    PROVE  WorkerInv'
<1>1. ASSUME NEW y \in Handler \ {x} PROVE RequestInv(y)'
  <2>1. pc[y] # "idle" => seen[y] \subseteq seen'[y] /\ views[y] \subseteq views'[y]
    BY SeenGrows DEF WorkerInv, Waits
  <2> QED
    BY <2>1, WaitingKeeps DEF WorkerInv, TypeOK
<1>2. \A y \in Handler : Viewed(y)'
  BY SeenGrows DEF WorkerInv
<1> QED
  BY <1>1, <1>2 DEF WorkerInv

\* What a move to another await does to the types.
LEMMA MoveTyped ==
    ASSUME TypeOK, Observe, NEW x \in Handler, NEW label \in Label,
           NEW code \in Status, pc' = [pc EXCEPT ![x] = label],
           status' = [status EXCEPT ![x] = code]
    PROVE  /\ pc' \in [Handler -> Label]
           /\ status' \in [Handler -> Status]
           /\ seen' \in [Handler -> SUBSET Fact]
           /\ nodes' \in Rows => views' \in [Handler -> SUBSET Rows]
           /\ pc'[x] = label
           /\ status'[x] = code
           /\ \A y \in Handler \ {x} : pc'[y] = pc[y] /\ status'[y] = status[y]
BY SeenGrows DEF TypeOK, Label, Status

-----------------------------------------------------------------------------
(* Moves that change neither nodes nor tokens.                             *)

\* An await at which the request's place, answer and list may change, and a
\* use or a row of the log may be recorded.
QuietMove(x, label, code) ==
    /\ pc' = [pc EXCEPT ![x] = label]
    /\ status' = [status EXCEPT ![x] = code]
    /\ got' \in [Handler -> Rows]
    /\ \A y \in Handler \ {x} : got'[y] = got[y]
    /\ used \subseteq used' /\ used' \subseteq Token
    /\ audit' \subseteq 1 .. Len(ops)
    /\ UNCHANGED <<nodes, tokens, req, tk, known, ops, acked, printed>>
    /\ Observe

\* The moves of the model are of that form.
LEMMA AnswerIsQuiet ==
    ASSUME WorkerInv, NEW x \in Handler, NEW label, NEW code,
           Answer(x, code, label),
           UNCHANGED <<tables, req, got, tk, known, ops, acked, printed>>, Observe
    PROVE  QuietMove(x, label, code)
BY DEF WorkerInv, TypeOK, TableInv, Answer, QuietMove, tables

LEMMA GotoAnswers ==
    ASSUME TypeOK, NEW x \in Handler, NEW label, Goto(x, label)
    PROVE  Answer(x, status[x], label) /\ status[x] \in Status
BY DEF TypeOK, Goto, Answer, Status

LEMMA QuietKeeps ==
    ASSUME WorkerInv, NEW x \in Handler, NEW label \in Label \ {"idle"},
           NEW code \in Status, QuietMove(x, label, code),
           Placed(x)', Allowed(x)', Touched(x)', Found(x)', Executed(x)',
           Created(x)', Listed(x)'
    PROVE  WorkerInv'
<1>0. /\ pc' \in [Handler -> Label] /\ status' \in [Handler -> Status]
      /\ seen' \in [Handler -> SUBSET Fact] /\ views' \in [Handler -> SUBSET Rows]
      /\ \A y \in Handler \ {x} : pc'[y] = pc[y] /\ status'[y] = status[y]
  BY MoveTyped DEF WorkerInv, TypeOK, QuietMove
<1>1. /\ TypeOK'
      /\ \A y \in Handler \ {x} : Waits(y)
  <2>1. TypeOK'
    BY <1>0 DEF WorkerInv, TypeOK, QuietMove, Label, Status
  <2>2. \A y \in Handler \ {x} : Waits(y)
    BY <1>0 DEF QuietMove, Waits
  <2> QED
    BY <2>1, <2>2
<1>2. Len(ops) \in Nat
  BY DEF WorkerInv, TypeOK
<1>3. Grows
  BY <1>2 DEF QuietMove, Grows
<1>4. TableInv'
  BY <1>3, TableKeeps DEF WorkerInv, TableInv, QuietMove
<1> QED
  BY <1>1, <1>3, <1>4, OneMoves DEF QuietMove, RequestInv

\* What stays true of a request whose move changes no table.
LEMMA QuietMoved ==
    ASSUME WorkerInv, NEW x \in Handler, NEW label \in Label \ {"idle"},
           NEW code \in Status, QuietMove(x, label, code), pc[x] # "idle"
    PROVE  /\ pc'[x] = label /\ status'[x] = code /\ req' = req /\ tk' = tk
           /\ known' = known /\ used \subseteq used' /\ ops' = ops
           /\ nodes' = nodes /\ tokens' = tokens
           /\ seen[x] \subseteq seen'[x] /\ views[x] \subseteq views'[x]
           /\ Verdict(req[x]) \in seen'[x] /\ nodes \in views'[x]
           /\ tk'[x] \in 0 .. Len(ops') /\ known'[x] \subseteq 1 .. Len(ops')
<1>1. /\ pc'[x] = label /\ status'[x] = code /\ req' = req /\ tk' = tk
      /\ known' = known /\ used \subseteq used' /\ ops' = ops
      /\ nodes' = nodes /\ tokens' = tokens
  BY MoveTyped DEF WorkerInv, QuietMove
<1>2. Verdict(req[x])' = Verdict(req[x])
  BY <1>1 DEF Verdict, Enabled
<1>3. /\ seen[x] \subseteq seen'[x] /\ views[x] \subseteq views'[x]
      /\ Verdict(req[x])' \in seen'[x] /\ nodes' \in views'[x]
  BY <1>1, SeenGrows DEF WorkerInv, QuietMove, Viewed
<1>4. tk[x] \in 0 .. Len(ops) /\ known[x] \subseteq 1 .. Len(ops)
  BY DEF WorkerInv, RequestInv, Executed, Listed
<1> QED
  BY <1>1, <1>2, <1>3, <1>4

\* A request that does not answer 200 claims nothing about the tables.
LEMMA NothingClaimed ==
    ASSUME NEW x \in Handler, pc'[x] \notin Ended \/ status'[x] # 200,
           tk'[x] \in 0 .. Len(ops'), known'[x] \subseteq 1 .. Len(ops')
    PROVE  Executed(x)' /\ Created(x)' /\ Listed(x)'
BY DEF Executed, Created, Listed

\* The answer 500 says nothing that could be wrong.
LEMMA FailureKeeps ==
    ASSUME WorkerInv, NEW x \in Handler, QuietMove(x, "reply", 500), pc[x] # "idle"
    PROVE  WorkerInv'
<1> DEFINE label == "reply"
           code == 500
<1>1. label \in Label \ {"idle"} /\ code \in Status
  BY DEF Label, Status
<1>2. /\ pc'[x] = label /\ status'[x] = code /\ req' = req /\ tk' = tk
      /\ tk'[x] \in 0 .. Len(ops') /\ known'[x] \subseteq 1 .. Len(ops')
  BY <1>1, QuietMoved
<1>3. Placed(x)' /\ Allowed(x)' /\ Touched(x)' /\ Found(x)'
  BY <1>2 DEF WorkerInv, RequestInv, Placed, Allowed, Touched, Found, Past,
     Ended, Served
<1> QED
  BY <1>1, <1>2, <1>3, NothingClaimed, QuietKeeps

\* The request goes on to its own work: it is allowed, and its token, if it
\* has one, is in last_used_at.
NextAwait(op) ==
    CASE op = "register" -> "body"
      [] op = "delete"   -> "select"
      [] OTHER           -> "list"

LEMMA PassKeeps ==
    ASSUME WorkerInv, NEW x \in Handler, pc[x] \in {"find", "touch"},
           QuietMove(x, NextAwait(req[x].op), status[x]),
           "allowed" \in seen'[x],
           req[x].cred \in Token => req[x].cred \in used'
    PROVE  WorkerInv'
<1> DEFINE label == NextAwait(req[x].op)
           code == status[x]
<1>0. req[x].op \in {"register", "delete", "sub", "nodes"}
  BY DEF WorkerInv, TypeOK, Request, RequestInv, Placed
<1>1. label \in {"body", "select", "list"}
  BY DEF NextAwait
<1>2. label \in Label \ {"idle"} /\ code \in Status
  BY <1>1 DEF WorkerInv, TypeOK, Label, Status, Statement
<1>3. /\ pc'[x] = label /\ status'[x] = code /\ req' = req /\ tk' = tk
      /\ tk'[x] \in 0 .. Len(ops') /\ known'[x] \subseteq 1 .. Len(ops')
  BY <1>2, QuietMoved
<1>4. Placed(x)'
  BY <1>0, <1>3 DEF WorkerInv, RequestInv, Placed, Ended, NextAwait
<1>5. Allowed(x)' /\ Touched(x)' /\ Found(x)' /\ pc'[x] \notin Ended
  <2> HIDE DEF label
  <2> QED
    BY <1>1, <1>3 DEF Allowed, Touched, Found, Past, Ended
<1> QED
  BY <1>2, <1>3, <1>4, <1>5, NothingClaimed, QuietKeeps

LEMMA FindKeeps ==
    ASSUME WorkerInv, NEW x \in Handler, findEnabledToken(x)
    PROVE  WorkerInv'
<1>0. /\ pc[x] = "find" /\ TypeOK /\ Observe
      /\ UNCHANGED <<tables, req, got, tk, known, ops, acked, printed>>
  BY DEF findEnabledToken, WorkerInv
<1>f. Verdict(req[x]) = IF Enabled(req[x]) \/ IsAdmin(req[x]) THEN "allowed" ELSE "refused"
  BY DEF Verdict
<1>1. CASE Enabled(req[x])
  <2>1. Answer(x, status[x], "touch") /\ status[x] \in Status
    BY <1>0, <1>1, GotoAnswers DEF findEnabledToken
  <2>2. QuietMove(x, "touch", status[x])
    BY <1>0, <2>1, AnswerIsQuiet
  <2>3. /\ pc'[x] = "touch" /\ req' = req /\ tk' = tk
        /\ tk'[x] \in 0 .. Len(ops') /\ known'[x] \subseteq 1 .. Len(ops')
        /\ Verdict(req[x]) \in seen'[x]
    BY <1>0, <2>1, <2>2, QuietMoved DEF Label, Statement
  <2>4. "allowed" \in seen'[x] /\ req[x].cred \in Token
    BY <1>1, <1>f, <2>3 DEF Enabled, Kind, Token
  <2>5. Placed(x)' /\ Allowed(x)' /\ Touched(x)' /\ Found(x)' /\ pc'[x] \notin Ended
    BY <1>0, <2>3, <2>4 DEF WorkerInv, RequestInv, Placed, Allowed, Touched, Found,
       Past, Ended
  <2> QED
    BY <2>1, <2>2, <2>5, <2>3, NothingClaimed, QuietKeeps DEF Label, Statement
<1>2. CASE ~Enabled(req[x]) /\ IsAdmin(req[x])
  <2>1. Goto(x, NextAwait(req[x].op))
    BY <1>2 DEF findEnabledToken, Decide, NextAwait
  <2>2. Answer(x, status[x], NextAwait(req[x].op)) /\ status[x] \in Status
    BY <1>0, <2>1, GotoAnswers
  <2>3. QuietMove(x, NextAwait(req[x].op), status[x])
    BY <1>0, <2>2, AnswerIsQuiet
  <2>4. Verdict(req[x]) \in seen'[x]
    BY <1>0, <2>2, <2>3, QuietMoved DEF Label, Statement, NextAwait
  <2>5. "allowed" \in seen'[x] /\ req[x].cred \notin Token
    BY <1>2, <1>f, <2>4, WorkerAssumption DEF IsAdmin, Token, WorkerAssumption
  <2> QED
    BY <1>0, <2>3, <2>5, PassKeeps
<1>3. CASE ~Enabled(req[x]) /\ ~IsAdmin(req[x])
  <2> DEFINE label == IF req[x].op \in {"register", "sub"} THEN "audit" ELSE "reply"
  <2>0. label \in Ended /\ label \in Label \ {"idle"} /\ 401 \in Status
    BY DEF Ended, Label, Status
  <2>1. Answer(x, 401, label)
    BY <1>3 DEF findEnabledToken, Decide
  <2> HIDE DEF label
  <2>2. QuietMove(x, label, 401)
    BY <1>0, <2>1, AnswerIsQuiet
  <2>3. /\ pc'[x] = label /\ status'[x] = 401 /\ req' = req /\ tk' = tk
        /\ tk'[x] \in 0 .. Len(ops') /\ known'[x] \subseteq 1 .. Len(ops')
        /\ Verdict(req[x]) \in seen'[x]
    BY <1>0, <2>0, <2>2, QuietMoved
  <2>4. "refused" \in seen'[x]
    BY <1>3, <1>f, <2>3
  <2>5. Placed(x)' /\ Allowed(x)' /\ Touched(x)' /\ Found(x)' /\ status'[x] # 200
    BY <1>0, <2>0, <2>3, <2>4 DEF WorkerInv, RequestInv, Placed, Allowed, Touched,
       Found, Past, Ended, Served
  <2> QED
    BY <2>0, <2>2, <2>5, <2>3, NothingClaimed, QuietKeeps
<1> QED
  BY <1>1, <1>2, <1>3

LEMMA TouchKeeps ==
    ASSUME WorkerInv, NEW x \in Handler, touchToken(x)
    PROVE  WorkerInv'
<1>0. /\ pc[x] = "touch" /\ TypeOK /\ Observe
      /\ used' = used \cup {req[x].cred} /\ req[x].cred \in Token
      /\ UNCHANGED <<nodes, tokens, audit, req, got, tk, known, ops, acked, printed>>
  BY DEF touchToken, WorkerInv, RequestInv, Placed
<1>1. ASSUME NEW label, NEW code, Answer(x, code, label)
      PROVE  QuietMove(x, label, code)
  BY <1>0, <1>1 DEF WorkerInv, TypeOK, TableInv, Answer, QuietMove
<1>2. CASE Decide(x, TRUE)
  <2>1. Goto(x, NextAwait(req[x].op))
    BY <1>2 DEF Decide, NextAwait
  <2>2. QuietMove(x, NextAwait(req[x].op), status[x])
    BY <1>0, <1>1, <2>1, GotoAnswers
  <2>3. NextAwait(req[x].op) \in Label \ {"idle"} /\ status[x] \in Status
    BY <1>0, <2>1, GotoAnswers DEF Label, Statement, NextAwait
  <2>4. "allowed" \in seen[x] /\ seen[x] \subseteq seen'[x]
    BY <1>0, <2>2, <2>3, QuietMoved DEF WorkerInv, RequestInv, Allowed
  <2> QED
    BY <1>0, <2>2, <2>4, PassKeeps
<1>3. CASE Answer(x, 500, "reply")
  BY <1>0, <1>1, <1>3, FailureKeeps
<1> QED
  BY <1>2, <1>3 DEF touchToken

LEMMA ThrowKeeps ==
    ASSUME WorkerInv, NEW x \in Handler, throws(x)
    PROVE  WorkerInv'
<1>1. pc[x] # "idle"
  BY DEF throws, Statement
<1> QED
  BY <1>1, AnswerIsQuiet, FailureKeeps DEF throws

LEMMA BodyKeeps ==
    ASSUME WorkerInv, NEW x \in Handler, readBody(x)
    PROVE  WorkerInv'
<1>0. /\ pc[x] = "body" /\ TypeOK /\ Observe /\ req[x].op = "register"
      /\ UNCHANGED <<tables, req, got, tk, known, ops, acked, printed>>
      /\ "allowed" \in seen[x] /\ (req[x].cred \in Token => req[x].cred \in used)
  BY DEF readBody, WorkerInv, RequestInv, Placed, Allowed, Touched, Past
<1>1. CASE Answer(x, 500, "reply")
  BY <1>0, <1>1, AnswerIsQuiet, FailureKeeps
<1>2. ASSUME NEW label \in {"upsert", "audit"}, NEW code \in Status,
             Answer(x, code, label), label = "audit" => code = 400
      PROVE  WorkerInv'
  <2>1. QuietMove(x, label, code) /\ label \in Label \ {"idle"}
    BY <1>0, <1>2, AnswerIsQuiet DEF Label, Statement
  <2>2. /\ pc'[x] = label /\ status'[x] = code /\ req' = req /\ tk' = tk
        /\ used \subseteq used' /\ seen[x] \subseteq seen'[x]
        /\ views[x] \subseteq views'[x]
        /\ tk'[x] \in 0 .. Len(ops') /\ known'[x] \subseteq 1 .. Len(ops')
    BY <1>0, <2>1, QuietMoved
  <2>3. Placed(x)' /\ Allowed(x)' /\ Touched(x)' /\ Found(x)'
    BY <1>0, <1>2, <2>2 DEF WorkerInv, RequestInv, Placed, Allowed, Touched, Found,
       Past, Ended, Served
  <2>4. pc'[x] \notin Ended \/ status'[x] # 200
    BY <1>2, <2>2 DEF Ended
  <2> QED
    BY <2>1, <2>2, <2>3, <2>4, NothingClaimed, QuietKeeps
<1>3. CASE Answer(x, 400, "audit")
  BY <1>2, <1>3 DEF Status
<1>4. CASE Goto(x, "upsert")
  BY <1>0, <1>2, <1>4, GotoAnswers
<1> QED
  BY <1>1, <1>3, <1>4 DEF readBody

LEMMA SelectKeeps ==
    ASSUME WorkerInv, NEW x \in Handler, selectNode(x)
    PROVE  WorkerInv'
<1>0. /\ pc[x] = "select" /\ TypeOK /\ Observe /\ req[x].op = "delete"
      /\ req[x].id \in NodeID
      /\ UNCHANGED <<tables, req, got, tk, known, ops, acked, printed>>
      /\ "allowed" \in seen[x] /\ (req[x].cred \in Token => req[x].cred \in used)
  BY DEF selectNode, WorkerInv, RequestInv, Placed, Allowed, Touched, Past, Changing
<1>2. ASSUME NEW label \in {"delete", "audit"}, NEW code \in Status,
             Answer(x, code, label), label = "audit" => code = 404,
             label = "audit" <=> nodes[req[x].id] = Absent
      PROVE  WorkerInv'
  <2>1. QuietMove(x, label, code) /\ label \in Label \ {"idle"}
    BY <1>0, <1>2, AnswerIsQuiet DEF Label, Statement
  <2>2. /\ pc'[x] = label /\ status'[x] = code /\ req' = req /\ tk' = tk
        /\ used \subseteq used' /\ seen[x] \subseteq seen'[x] /\ nodes \in views'[x]
        /\ tk'[x] \in 0 .. Len(ops') /\ known'[x] \subseteq 1 .. Len(ops')
    BY <1>0, <2>1, QuietMoved
  <2>3. Placed(x)' /\ Allowed(x)' /\ Touched(x)'
    BY <1>0, <1>2, <2>2 DEF WorkerInv, RequestInv, Placed, Allowed, Touched,
       Past, Ended, Served
  <2>4. Found(x)'
    BY <1>2, <2>2 DEF Found, Ended
  <2>5. pc'[x] \notin Ended \/ status'[x] # 200
    BY <1>2, <2>2 DEF Ended
  <2> QED
    BY <2>1, <2>2, <2>3, <2>4, <2>5, NothingClaimed, QuietKeeps
<1>3. CASE nodes[req[x].id] = Absent
  BY <1>2, <1>3 DEF selectNode, Status
<1>4. CASE nodes[req[x].id] # Absent
  BY <1>0, <1>2, <1>4, GotoAnswers DEF selectNode
<1> QED
  BY <1>3, <1>4

\* The list is the table of this moment, which shows every change there is.
LEMMA ListKeeps ==
    ASSUME WorkerInv, NEW x \in Handler, listNodes(x)
    PROVE  WorkerInv'
<1>0. /\ pc[x] = "list" /\ TypeOK /\ Observe /\ req[x].op \in {"sub", "nodes"}
      /\ got' = [got EXCEPT ![x] = nodes]
      /\ UNCHANGED <<nodes, tokens, used, audit, req, tk, known, ops, acked, printed>>
      /\ "allowed" \in seen[x] /\ (req[x].cred \in Token => req[x].cred \in used)
  BY DEF listNodes, WorkerInv, RequestInv, Placed, Allowed, Touched, Past, tables
<1>1. PICK label \in Ended, code \in {200, 400} : Answer(x, code, label)
  BY <1>0 DEF listNodes, Ended
<1>2. QuietMove(x, label, code)
  BY <1>0, <1>1 DEF WorkerInv, TypeOK, TableInv, Answer, QuietMove
<1>3. label \in Label \ {"idle"} /\ code \in Status
  BY DEF Ended, Label, Status
<1>4. /\ pc'[x] = label /\ status'[x] = code /\ req' = req /\ tk' = tk
      /\ used \subseteq used' /\ seen[x] \subseteq seen'[x]
      /\ views[x] \subseteq views'[x] /\ nodes \in views'[x]
      /\ tk'[x] \in 0 .. Len(ops') /\ known'[x] \subseteq 1 .. Len(ops')
  BY <1>0, <1>2, <1>3, QuietMoved
<1>5. Placed(x)' /\ Allowed(x)' /\ Touched(x)' /\ Found(x)'
  BY <1>0, <1>4 DEF WorkerInv, RequestInv, Placed, Allowed, Touched, Found,
     Past, Ended, Served
<1>6. Executed(x)' /\ Created(x)'
  BY <1>0, <1>4 DEF Executed, Created, Changing
<1>7. Listed(x)'
  <2>1. \A k \in known[x] : k \in 1 .. Len(ops) /\ Covers(nodes, k)
    BY DEF WorkerInv, TableInv, RequestInv, Listed
  <2>2. got'[x] = nodes /\ known' = known /\ ops' = ops
    BY <1>0 DEF TypeOK
  <2> QED
    BY <1>4, <2>1, <2>2 DEF Listed, Covers
<1> QED
  BY <1>2, <1>3, <1>5, <1>6, <1>7, QuietKeeps

\* The row is about the request's own change, or about none.
LEMMA AuditKeeps ==
    ASSUME WorkerInv, NEW x \in Handler, writeAudit(x)
    PROVE  WorkerInv'
<1>0. /\ pc[x] = "audit" /\ TypeOK /\ Observe /\ Goto(x, "reply")
      /\ UNCHANGED <<nodes, tokens, used, req, got, tk, known, ops, acked, printed>>
  BY DEF writeAudit, WorkerInv
<1>1. audit' \subseteq 1 .. Len(ops)
  <2>1. tk[x] \in Nat /\ Len(ops) \in Nat
    BY <1>0 DEF TypeOK
  <2>2. tk[x] \in 0 .. Len(ops)
    BY DEF WorkerInv, RequestInv, Executed
  <2>3. tk[x] # 0 => tk[x] \in 1 .. Len(ops)
    BY <2>1, <2>2
  <2> QED
    BY <2>3 DEF writeAudit, WorkerInv, TableInv
<1>2. QuietMove(x, "reply", status[x])
  BY <1>0, <1>1 DEF TypeOK, Goto, QuietMove
<1>3. "reply" \in Label \ {"idle"} /\ status[x] \in Status
  BY <1>0, GotoAnswers DEF Label
<1>4. /\ pc'[x] = "reply" /\ status'[x] = status[x] /\ req' = req /\ tk' = tk
      /\ used \subseteq used' /\ seen[x] \subseteq seen'[x]
      /\ views[x] \subseteq views'[x] /\ nodes \in views'[x]
      /\ tk'[x] \in 0 .. Len(ops') /\ known'[x] \subseteq 1 .. Len(ops')
      /\ ops' = ops /\ tokens' = tokens
  BY <1>0, <1>2, <1>3, QuietMoved
<1>5. Placed(x)' /\ Allowed(x)' /\ Touched(x)' /\ Found(x)'
  BY <1>0, <1>4 DEF WorkerInv, RequestInv, Placed, Allowed, Touched, Found,
     Past, Ended, Served
<1>6. Executed(x)' /\ Created(x)'
  BY <1>0, <1>4 DEF WorkerInv, RequestInv, Executed, Created, Ended
<1>7. Listed(x)'
  BY <1>0, <1>4 DEF WorkerInv, RequestInv, Listed, Covers, Ended
<1> QED
  BY <1>2, <1>3, <1>5, <1>6, <1>7, QuietKeeps

-----------------------------------------------------------------------------
(* Statements that change nodes or tokens.                                 *)

LEMMA WriteKeeps ==
    ASSUME WorkerInv, NEW x \in Handler, pc[x] \in {"upsert", "delete"}, Write(x)
    PROVE  WorkerInv'
<1> DEFINE n == req[x].id
           r == req[x].rec
           last == Len(ops) + 1
<1>0. /\ TypeOK /\ Observe /\ n \in NodeID /\ r \in Record
      /\ req[x].op \in Changing
      /\ pc[x] = "upsert" => req[x].op = "register"
      /\ "allowed" \in seen[x] /\ (req[x].cred \in Token => req[x].cred \in used)
      /\ pc[x] = "delete" => \E d \in views[x] : d[n] # Absent
  BY DEF WorkerInv, TypeOK, Request, RequestInv, Placed, Allowed, Touched, Found, Past,
     Changing, Write
<1>1. PICK label \in Ended, code \in {200, 500} :
          /\ Answer(x, code, label)
          /\ nodes' = [nodes EXCEPT ![n] = r]
          /\ ops' = Append(ops, [id |-> n, out |-> r])
          /\ tk' = [tk EXCEPT ![x] = last]
          /\ UNCHANGED <<tokens, used, audit, req, got, known, acked, printed>>
  BY DEF Write, Ended
<1>2. label \in Label \ {"idle"} /\ code \in Status
  BY DEF Ended, Label, Status
<1>3. /\ pc' \in [Handler -> Label] /\ status' \in [Handler -> Status]
      /\ seen' \in [Handler -> SUBSET Fact]
      /\ nodes' \in Rows => views' \in [Handler -> SUBSET Rows]
      /\ pc'[x] = label /\ status'[x] = code
      /\ \A y \in Handler \ {x} : pc'[y] = pc[y] /\ status'[y] = status[y]
  <2>1. pc' = [pc EXCEPT ![x] = label] /\ status' = [status EXCEPT ![x] = code]
    BY <1>1 DEF Answer
  <2>2. TypeOK /\ Observe /\ label \in Label /\ code \in Status
    BY <1>0, <1>2
  <2> QED
    <3>1. pc'[x] = label /\ status'[x] = code
      BY <2>1, <2>2 DEF TypeOK
    <3> QED
      BY <2>1, <2>2, <3>1, MoveTyped
<1>4. /\ Len(ops) \in Nat /\ Len(ops') = last /\ ops' \in Seq(Change)
      /\ ops'[last] = [id |-> n, out |-> r]
      /\ \A k \in 1 .. Len(ops) : ops'[k] = ops[k]
  BY <1>0, <1>1 DEF TypeOK, Change
<1>5. Grows
  BY <1>1, <1>4 DEF Grows
<1>6. TypeOK'
  <2>1. nodes' \in Rows /\ tk' \in [Handler -> Nat]
    BY <1>0, <1>1, <1>4 DEF TypeOK, Rows
  <2> QED
    BY <1>0, <1>1, <1>3, <1>4, <2>1 DEF TypeOK, Label, Status
<1>7. TableInv'
  <2>1. ASSUME NEW k \in 1 .. Len(ops') PROVE Covers(nodes, k)'
    <3>1. CASE ops'[k].id = n
      <4>1. ops'[last].id = n /\ ops'[last].out = r /\ last \in k .. Len(ops')
        BY <1>4
      <4>2. nodes'[n] = r
        BY <1>0, <1>1 DEF TypeOK, Rows
      <4> QED
        BY <3>1, <4>1, <4>2 DEF Covers
    <3>2. CASE ops'[k].id # n
      <4>1. k \in 1 .. Len(ops) /\ ops'[k] = ops[k]
        BY <1>4, <3>2
      <4>2. PICK j \in k .. Len(ops) :
                ops[j].id = ops[k].id /\ ops[j].out = nodes[ops[k].id]
        BY <4>1 DEF WorkerInv, TableInv, Covers
      <4>3. j \in k .. Len(ops') /\ ops'[j] = ops[j]
        BY <1>4, <4>1, <4>2
      <4>4. nodes'[ops[k].id] = nodes[ops[k].id]
        BY <1>0, <1>1, <3>2, <4>1 DEF TypeOK, Rows, Change
      <4> QED
        BY <4>1, <4>2, <4>3, <4>4 DEF Covers
    <3> QED
      BY <3>1, <3>2
  <2>2. audit' \cup acked' \subseteq 1 .. Len(ops')
    BY <1>1, <1>4 DEF WorkerInv, TableInv
  <2>3. PrintedStored'
    BY <1>1 DEF WorkerInv, TableInv, PrintedStored
  <2> QED
    BY <2>1, <2>2, <2>3 DEF TableInv
<1>8. \A y \in Handler \ {x} : Waits(y)
  BY <1>0, <1>1, <1>3 DEF Waits, TypeOK
<1>9. RequestInv(x)'
  <2>1. tk'[x] = last /\ req' = req /\ used' = used /\ known' = known
    BY <1>0, <1>1 DEF TypeOK
  <2>2. seen[x] \subseteq seen'[x] /\ views[x] \subseteq views'[x]
    BY <1>0, <1>2, <1>3, SeenGrows
  <2>3. Placed(x)' /\ Allowed(x)' /\ Touched(x)' /\ Found(x)'
    BY <1>0, <1>1, <1>3, <2>1, <2>2 DEF WorkerInv, RequestInv, Placed, Allowed,
       Touched, Found, Past, Ended, Served, Changing
  <2>4. Executed(x)'
    BY <1>4, <2>1 DEF Executed
  <2>5. Created(x)'
    BY <1>0, <2>1 DEF Created, Changing
  <2>6. Listed(x)'
    <3>1. known[x] \subseteq 1 .. Len(ops)
      BY DEF WorkerInv, RequestInv, Listed
    <3>2. known'[x] \subseteq 1 .. Len(ops')
      BY <1>4, <2>1, <3>1
    <3> QED
      BY <1>0, <2>1, <3>2 DEF Listed, Changing
  <2> QED
    BY <2>3, <2>4, <2>5, <2>6 DEF RequestInv
<1> QED
  BY <1>0, <1>5, <1>6, <1>7, <1>8, <1>9, OneMoves

\* The token table changes; nodes and their changes do not.
LEMMA InsertKeeps ==
    ASSUME WorkerInv, NEW x \in Handler, insertToken(x)
    PROVE  WorkerInv'
<1> DEFINE t == req[x].tok
<1>0. /\ pc[x] = "insert" /\ TypeOK /\ Observe /\ req[x].op = "create" /\ t \in Token
      /\ tokens' = [tokens EXCEPT ![t] = "enabled"]
      /\ UNCHANGED <<nodes, used, audit, req, got, tk, known, ops, acked, printed>>
      /\ "allowed" \in seen[x] /\ (req[x].cred \in Token => req[x].cred \in used)
  BY DEF insertToken, WorkerInv, RequestInv, Placed, Allowed, Touched, Past
<1>1. PICK label \in Ended, code \in {200, 500} : Answer(x, code, label)
  BY DEF insertToken, Ended
<1>2. label \in Label \ {"idle"} /\ code \in Status
  BY DEF Ended, Label, Status
<1>3. /\ pc' \in [Handler -> Label] /\ status' \in [Handler -> Status]
      /\ seen' \in [Handler -> SUBSET Fact]
      /\ nodes' \in Rows => views' \in [Handler -> SUBSET Rows]
      /\ pc'[x] = label /\ status'[x] = code
      /\ \A y \in Handler \ {x} : pc'[y] = pc[y] /\ status'[y] = status[y]
  <2>1. pc' = [pc EXCEPT ![x] = label] /\ status' = [status EXCEPT ![x] = code]
    BY <1>1 DEF Answer
  <2>2. pc'[x] = label /\ status'[x] = code
    BY <1>0, <2>1 DEF TypeOK
  <2> QED
    BY <1>0, <1>2, <2>1, <2>2, MoveTyped
<1>4. /\ Len(ops) \in Nat /\ tokens'[t] = "enabled"
      /\ tokens' \in [Token -> {"absent", "enabled", "disabled"}]
      /\ \A u \in Token \ {t} : tokens'[u] = tokens[u]
  BY <1>0 DEF TypeOK
<1>5. Grows
  BY <1>0, <1>4 DEF Grows
<1>6. TypeOK'
  BY <1>0, <1>3, <1>4 DEF TypeOK, Label, Status
<1>7. TableInv'
  BY <1>0, <1>5, TableKeeps DEF WorkerInv, TableInv
<1>8. \A y \in Handler \ {x} : Waits(y)
  BY <1>0, <1>3 DEF Waits
<1>9. RequestInv(x)'
  <2>1. seen[x] \subseteq seen'[x] /\ views[x] \subseteq views'[x]
    BY <1>0, <1>2, <1>3, SeenGrows
  <2>2. Placed(x)' /\ Allowed(x)' /\ Touched(x)' /\ Found(x)'
    BY <1>0, <1>3, <2>1 DEF WorkerInv, RequestInv, Placed, Allowed, Touched, Found,
       Past, Ended, Served
  <2>3. tk'[x] \in 0 .. Len(ops') /\ known'[x] \subseteq 1 .. Len(ops')
    BY <1>0 DEF WorkerInv, RequestInv, Executed, Listed
  <2>4. Executed(x)' /\ Created(x)' /\ Listed(x)'
    BY <1>0, <1>4, <2>3 DEF Executed, Created, Listed, Changing
  <2> QED
    BY <2>2, <2>4 DEF RequestInv
<1> QED
  BY <1>0, <1>5, <1>6, <1>7, <1>8, <1>9, OneMoves

\* A request ends; what it reports to the client is true.
LEMMA GoneKeeps ==
    ASSUME WorkerInv, NEW x \in Handler, Gone(x), acked' \subseteq 1 .. Len(ops),
           printed' \subseteq Token, \A t \in printed' : tokens[t] # "absent"
    PROVE  WorkerInv'
<1>0. /\ TypeOK /\ Observe /\ UNCHANGED <<nodes, tokens, used, audit, ops>>
      /\ Len(ops) \in Nat
  BY DEF WorkerInv, TypeOK, Gone, tables
<1>1. /\ pc'[x] = "idle" /\ tk'[x] = 0 /\ known'[x] = {}
      /\ \A y \in Handler \ {x} : Waits(y)
  BY <1>0 DEF TypeOK, Gone, Waits
<1>2. NoRequest \in Request /\ Empty \in Rows
  BY DEF NoRequest, Request, Empty, Rows, Record
<1>3. TypeOK'
  <2>1. seen' \in [Handler -> SUBSET Fact] /\ views' \in [Handler -> SUBSET Rows]
    BY <1>0, SeenGrows DEF TypeOK
  <2>2. acked' \subseteq Nat
    BY <1>0
  <2> QED
    BY <1>0, <1>2, <2>1, <2>2 DEF TypeOK, Gone
<1>4. Grows
  BY <1>0 DEF Grows
<1>5. TableInv'
  BY <1>0, <1>4, TableKeeps DEF WorkerInv, TableInv
<1>6. RequestInv(x)'
  <2>1. Placed(x)' /\ Allowed(x)' /\ Touched(x)' /\ Found(x)'
    BY <1>1 DEF Placed, Allowed, Touched, Found, Past, Ended, Statement
  <2>2. Executed(x)' /\ Created(x)' /\ Listed(x)'
    BY <1>0, <1>1, NothingClaimed DEF Ended
  <2> QED
    BY <2>1, <2>2 DEF RequestInv
<1> QED
  BY <1>0, <1>1, <1>3, <1>4, <1>5, <1>6, OneMoves

LEMMA ReplyKeeps ==
    ASSUME WorkerInv, NEW x \in Handler, reply(x)
    PROVE  WorkerInv'
<1>0. pc[x] = "reply" /\ Gone(x) /\ TypeOK
  BY DEF reply, WorkerInv
<1>1. acked' \subseteq 1 .. Len(ops)
  <2>1. tk[x] \in Nat /\ Len(ops) \in Nat
    BY <1>0 DEF TypeOK
  <2>2. tk[x] \in 0 .. Len(ops)
    BY DEF WorkerInv, RequestInv, Executed
  <2>3. status[x] = 200 /\ req[x].op \in Changing => tk[x] # 0
    BY <1>0 DEF WorkerInv, RequestInv, Executed, Ended
  <2> QED
    BY <2>1, <2>2, <2>3 DEF reply, WorkerInv, TableInv
<1>2. printed' \subseteq Token /\ \A t \in printed' : tokens[t] # "absent"
  <2>1. status[x] = 200 /\ req[x].op = "create" =>
          req[x].tok \in Token /\ tokens[req[x].tok] # "absent"
    BY <1>0 DEF WorkerInv, RequestInv, Placed, Created, Ended
  <2> QED
    BY <1>0, <2>1 DEF reply, WorkerInv, TypeOK, TableInv, PrintedStored
<1> QED
  BY <1>0, <1>1, <1>2, GoneKeeps

LEMMA DropKeeps ==
    ASSUME WorkerInv, NEW x \in Handler, dropped(x)
    PROVE  WorkerInv'
BY GoneKeeps DEF dropped, WorkerInv, TypeOK, TableInv, PrintedStored

LEMMA DisableKeeps ==
    ASSUME WorkerInv, NEW t \in Token, disableToken(t)
    PROVE  WorkerInv'
<1>0. /\ TypeOK /\ Observe /\ tokens' = [tokens EXCEPT ![t] = "disabled"]
      /\ UNCHANGED <<nodes, used, audit, pc, req, status, got, tk, known, ops,
                     acked, printed>>
      /\ Len(ops) \in Nat
  BY DEF disableToken, WorkerInv, TypeOK
<1>1. /\ tokens' \in [Token -> {"absent", "enabled", "disabled"}]
      /\ seen' \in [Handler -> SUBSET Fact] /\ views' \in [Handler -> SUBSET Rows]
      /\ \A y \in Handler : Viewed(y)'
  BY <1>0, SeenGrows DEF TypeOK
<1>2. TypeOK'
  BY <1>0, <1>1 DEF TypeOK
<1>3. Grows
  BY <1>0 DEF Grows, TypeOK
<1>4. TableInv'
  BY <1>0, <1>3, TableKeeps DEF WorkerInv, TableInv
<1>5. ASSUME NEW y \in Handler PROVE RequestInv(y)'
  <2>1. /\ Waits(y)
        /\ pc[y] # "idle" => seen[y] \subseteq seen'[y] /\ views[y] \subseteq views'[y]
    BY <1>0, SeenGrows DEF Waits
  <2> QED
    BY <1>0, <1>3, <2>1, WaitingKeeps DEF WorkerInv, TypeOK
<1> QED
  BY <1>1, <1>2, <1>4, <1>5 DEF WorkerInv

-----------------------------------------------------------------------------
(* Arrivals, and the invariant.                                            *)

\* Where requests of each kind enter.
Enters(r, label) ==
    /\ r \in Request
    /\ r.op \in Changing => r.id \in NodeID
    /\ \/ label = "find" /\ r.op # "create"
       \/ label = "list" /\ r.op = "nodes" /\ r.cred = Admin
       \/ label = "select" /\ r.op = "delete" /\ r.cred = Admin
       \/ label = "insert" /\ r.op = "create" /\ r.cred = Admin /\ r.tok \in Token

LEMMA ArriveKeeps ==
    ASSUME WorkerInv, NEW x \in Handler, NEW r, NEW label, Enters(r, label),
           Arrive(x, r, label)
    PROVE  WorkerInv'
<1>0. /\ TypeOK /\ Observe /\ pc[x] = "idle" /\ Len(ops) \in Nat
      /\ pc' = [pc EXCEPT ![x] = label] /\ req' = [req EXCEPT ![x] = r]
      /\ known' = [known EXCEPT ![x] = acked]
      /\ UNCHANGED <<nodes, tokens, used, audit, status, got, tk, ops, acked, printed>>
      /\ acked \subseteq 1 .. Len(ops)
  BY DEF WorkerInv, TypeOK, TableInv, Arrive, tables
<1>1. label \in Statement /\ label \in Label /\ label # "idle"
  BY DEF Enters, Label, Statement
<1>2. /\ pc'[x] = label /\ req'[x] = r /\ known'[x] = acked
      /\ \A y \in Handler \ {x} : Waits(y)
  BY <1>0 DEF TypeOK, Waits
<1>3. TypeOK'
  <2>1. seen' \in [Handler -> SUBSET Fact] /\ views' \in [Handler -> SUBSET Rows]
    BY <1>0, SeenGrows DEF TypeOK
  <2>2. pc' \in [Handler -> Label]
    BY <1>0, <1>1 DEF TypeOK, Label
  <2>3. req' \in [Handler -> Request] /\ known' \in [Handler -> SUBSET Nat]
    BY <1>0 DEF TypeOK, Enters
  <2> QED
    BY <1>0, <2>1, <2>2, <2>3 DEF TypeOK, Label
<1>4. Grows
  BY <1>0 DEF Grows
<1>5. TableInv'
  BY <1>0, <1>4, TableKeeps DEF WorkerInv, TableInv
<1>6. RequestInv(x)'
  <2>1. tk'[x] = 0
    BY <1>0 DEF WorkerInv, RequestInv, Placed, Ended
  <2>2. Placed(x)'
    BY <1>2, <2>1 DEF Enters, Placed, Ended, Changing
  <2>3. r.cred = Admin /\ r.op \in {"delete", "nodes", "create"} => "allowed" \in seen'[x]
    <3>1. ASSUME r.cred = Admin, r.op \in {"delete", "nodes", "create"}
          PROVE  Verdict(req[x])' = "allowed"
      BY <1>2, <3>1 DEF Verdict, IsAdmin
    <3>2. Verdict(req[x])' \in seen'[x]
      BY <1>0, <1>1, <1>2, SeenGrows
    <3> QED
      BY <3>1, <3>2
  <2>4. Admin \notin Token
    BY WorkerAssumption DEF WorkerAssumption, Token
  <2>5. Allowed(x)' /\ Touched(x)' /\ Found(x)'
    BY <1>2, <2>3, <2>4 DEF Enters, Allowed, Touched, Found, Past, Ended
  <2>6. pc'[x] \notin Ended
    BY <1>2 DEF Enters, Ended
  <2>7. tk'[x] \in 0 .. Len(ops') /\ known'[x] \subseteq 1 .. Len(ops')
    <3>1. 0 \in 0 .. Len(ops) /\ acked \subseteq 1 .. Len(ops) /\ ops' = ops
      BY <1>0
    <3> QED
      BY <1>2, <2>1, <3>1
  <2> QED
    BY <2>2, <2>5, <2>6, <2>7, NothingClaimed DEF RequestInv
<1> QED
  BY <1>0, <1>2, <1>3, <1>4, <1>5, <1>6, OneMoves

LEMMA RequestEnters ==
    ASSUME NEW x \in Handler, request(x)
    PROVE  \E r, label : Enters(r, label) /\ Arrive(x, r, label)
<1>0. NoRequest \in Request /\ NoRequest.id = Absent /\ NoRequest.op = "nodes"
  BY DEF NoRequest, Request, Record
<1>1. CASE handleRegister(x)
  <2>1. PICK c \in Token, n \in NodeID, v \in Version :
          Arrive(x, [NoRequest EXCEPT !.op = "register", !.cred = c, !.id = n,
                                      !.rec = v], "find")
    BY <1>1 DEF handleRegister
  <2>2. Enters([NoRequest EXCEPT !.op = "register", !.cred = c, !.id = n, !.rec = v], "find")
    BY DEF Enters, NoRequest, Request, Record
  <2> QED
    BY <2>1, <2>2
<1>2. CASE handleSub(x)
  <2>1. PICK c \in Token :
          Arrive(x, [NoRequest EXCEPT !.op = "sub", !.cred = c], "find")
    BY <1>2 DEF handleSub
  <2>2. Enters([NoRequest EXCEPT !.op = "sub", !.cred = c], "find")
    BY DEF Enters, NoRequest, Request, Record, Changing
  <2> QED
    BY <2>1, <2>2
<1>3. CASE handleApiNodes(x)
  <2>1. PICK c \in Token \cup {Admin} :
          Arrive(x, [NoRequest EXCEPT !.op = "nodes", !.cred = c], "find")
    BY <1>3 DEF handleApiNodes
  <2>2. Enters([NoRequest EXCEPT !.op = "nodes", !.cred = c], "find")
    BY DEF Enters, NoRequest, Request, Record, Changing
  <2> QED
    BY <2>1, <2>2
<1>4. CASE handleApiNode(x)
  <2>1. PICK c \in Token \cup {Admin}, n \in NodeID :
          Arrive(x, [NoRequest EXCEPT !.op = "delete", !.cred = c, !.id = n], "find")
    BY <1>4 DEF handleApiNode
  <2>2. Enters([NoRequest EXCEPT !.op = "delete", !.cred = c, !.id = n], "find")
    BY DEF Enters, NoRequest, Request, Record
  <2> QED
    BY <2>1, <2>2
<1>5. CASE handleAdminNodes(x)
  <2>1. Enters([NoRequest EXCEPT !.op = "nodes", !.cred = Admin], "list")
    BY DEF Enters, NoRequest, Request, Record, Changing
  <2> QED
    BY <1>5, <2>1 DEF handleAdminNodes
<1>6. CASE handleAdminNode(x)
  <2>1. PICK n \in NodeID :
          Arrive(x, [NoRequest EXCEPT !.op = "delete", !.cred = Admin, !.id = n], "select")
    BY <1>6 DEF handleAdminNode
  <2>2. Enters([NoRequest EXCEPT !.op = "delete", !.cred = Admin, !.id = n], "select")
    BY DEF Enters, NoRequest, Request, Record
  <2> QED
    BY <2>1, <2>2
<1>7. CASE handleAdminTokenCreate(x)
  <2>1. PICK t \in Token :
          Arrive(x, [NoRequest EXCEPT !.op = "create", !.cred = Admin, !.tok = t], "insert")
    BY <1>7 DEF handleAdminTokenCreate
  <2>2. Enters([NoRequest EXCEPT !.op = "create", !.cred = Admin, !.tok = t], "insert")
    BY DEF Enters, NoRequest, Request, Record, Changing
  <2> QED
    BY <2>1, <2>2
<1> QED
  BY <1>1, <1>2, <1>3, <1>4, <1>5, <1>6, <1>7 DEF request

LEMMA RequestKeeps ==
    ASSUME WorkerInv, NEW x \in Handler, request(x)
    PROVE  WorkerInv'
<1>1. PICK r, label : Enters(r, label) /\ Arrive(x, r, label)
  BY RequestEnters
<1> QED
  BY <1>1, ArriveKeeps

LEMMA WorkerStarts == Init => WorkerInv
<1> SUFFICES ASSUME Init PROVE WorkerInv
  OBVIOUS
<1>1. NoRequest \in Request /\ Empty \in Rows
  BY DEF NoRequest, Request, Empty, Rows, Record
<1>2. TypeOK
  BY <1>1 DEF Init, TypeOK
<1>3. TableInv
  BY DEF Init, TableInv, PrintedStored
<1>4. ASSUME NEW x \in Handler PROVE RequestInv(x)
  <2>1. pc[x] = "idle" /\ tk[x] = 0 /\ known[x] = {} /\ Len(ops) = 0
    BY DEF Init
  <2>2. Placed(x) /\ Allowed(x) /\ Touched(x) /\ Found(x)
    BY <2>1 DEF Placed, Allowed, Touched, Found, Past, Ended, Statement
  <2>3. Executed(x) /\ Created(x) /\ Listed(x)
    BY <2>1 DEF Executed, Created, Listed, Ended
  <2> QED
    BY <2>2, <2>3 DEF RequestInv
<1>5. \A x \in Handler : Viewed(x)
  BY DEF Init, Viewed
<1> QED
  BY <1>2, <1>3, <1>4, <1>5 DEF WorkerInv

LEMMA ProceedKeeps ==
    ASSUME WorkerInv, NEW x \in Handler, proceed(x)
    PROVE  WorkerInv'
<1>1. CASE findEnabledToken(x) \/ touchToken(x) \/ readBody(x) \/ selectNode(x)
  BY <1>1, FindKeeps, TouchKeeps, BodyKeeps, SelectKeeps
<1>2. CASE upsertNode(x) \/ deleteNode(x)
  BY <1>2, WriteKeeps DEF upsertNode, deleteNode
<1>3. CASE listNodes(x) \/ insertToken(x) \/ writeAudit(x)
  BY <1>3, ListKeeps, InsertKeeps, AuditKeeps
<1>4. CASE reply(x) \/ throws(x)
  BY <1>4, ReplyKeeps, ThrowKeeps
<1> QED
  BY <1>1, <1>2, <1>3, <1>4 DEF proceed

LEMMA StepKeeps == WorkerInv /\ [Next]_vars => WorkerInv'
<1> SUFFICES ASSUME WorkerInv, [Next]_vars PROVE WorkerInv'
  OBVIOUS
<1>1. CASE UNCHANGED vars
  <2>1. TypeOK' /\ TableInv' /\ \A y \in Handler : Viewed(y)'
    BY <1>1 DEF vars, WorkerInv, TypeOK, TableInv, PrintedStored, Covers, Viewed
  <2>2. ASSUME NEW y \in Handler PROVE RequestInv(y)'
    <3>1. /\ Waits(y) /\ ops' \in Seq(Change)
          /\ seen[y] \subseteq seen'[y] /\ views[y] \subseteq views'[y]
      BY <1>1 DEF vars, Waits, WorkerInv, TypeOK
    <3>2. Grows
      BY <1>1 DEF vars, Grows, WorkerInv, TypeOK
    <3> QED
      BY <3>1, <3>2, WaitingKeeps DEF WorkerInv
  <2> QED
    BY <2>1, <2>2 DEF WorkerInv
<1>2. CASE \E x \in Handler : request(x) \/ proceed(x) \/ dropped(x)
  BY <1>2, RequestKeeps, ProceedKeeps, DropKeeps
<1>3. CASE \E t \in Token : disableToken(t)
  BY <1>3, DisableKeeps
<1> QED
  BY <1>1, <1>2, <1>3 DEF Next

LEMMA WorkerAlways == Spec => []WorkerInv
BY WorkerStarts, StepKeeps, PTL DEF Spec

-----------------------------------------------------------------------------
(* What follows for the service.                                           *)

\* Tables, requests and answers of the Worker are of the form the code gives
\* them.
THEOREM TypeCorrect == Spec => []TypeOK
<1>1. WorkerInv => TypeOK
  BY DEF WorkerInv
<1> QED
  BY <1>1, WorkerAlways, PTL

\* Nobody is served or refused against what the token table said at some
\* moment of the request, although the check and the work are different
\* statements (findEnabledToken, requireAdmin).
THEOREM AlwaysAuthorized == Spec => []AnswersAuthorized
<1>1. WorkerInv => AnswersAuthorized
  BY DEF WorkerInv, RequestInv, Allowed, AnswersAuthorized, Ended, Served
<1> QED
  BY <1>1, WorkerAlways, PTL

\* The two statements of deleteNode, with other registrations and removals
\* between them, never make up an answer that was wrong all the time.
THEOREM DeleteAlwaysHonest == Spec => []DeleteHonest
<1>1. WorkerInv => DeleteHonest
  BY DEF WorkerInv, RequestInv, Found, DeleteHonest, Ended
<1> QED
  BY <1>1, WorkerAlways, PTL

\* Log and answers stay behind the tables, whatever statement fails
\* (handleRegister, deleteNodeFromPath, writeAudit).
THEOREM AuditAlwaysTruthful == Spec => []AuditTruthful
<1>1. ASSUME WorkerInv PROVE AuditTruthful
  <2>1. audit \cup acked \subseteq 1 .. Len(ops)
    BY <1>1 DEF WorkerInv, TableInv
  <2>2. ASSUME NEW x \in Handler, pc[x] \in {"audit", "reply"}, status[x] = 200,
               req[x].op \in Changing
        PROVE  /\ tk[x] \in 1 .. Len(ops)
               /\ ops[tk[x]] = [id |-> req[x].id, out |-> req[x].rec]
    <3>0. tk[x] \in Nat /\ Len(ops) \in Nat
      BY <1>1 DEF WorkerInv, TypeOK
    <3>1. tk[x] \in 0 .. Len(ops)
      BY <1>1 DEF WorkerInv, RequestInv, Executed
    <3>2. tk[x] # 0 /\ ops[tk[x]] = [id |-> req[x].id, out |-> req[x].rec]
      BY <1>1, <2>2 DEF WorkerInv, RequestInv, Executed, Ended
    <3> QED
      BY <3>0, <3>1, <3>2
  <2> QED
    BY <2>1, <2>2 DEF AuditTruthful
<1> QED
  BY <1>1, WorkerAlways, PTL

\* No token is shown to the admin that D1 does not hold
\* (handleAdminTokenCreate).
THEOREM PrintedAlwaysStored == Spec => []PrintedStored
<1>1. WorkerInv => PrintedStored
  BY DEF WorkerInv, TableInv
<1> QED
  BY <1>1, WorkerAlways, PTL

\* No token is used without a trace (the UPDATE in findEnabledToken).
THEOREM UseAlwaysRecorded == Spec => []UseRecorded
<1>1. WorkerInv => UseRecorded
  BY DEF WorkerInv, RequestInv, Touched, UseRecorded, Ended, Served
<1> QED
  BY <1>1, WorkerAlways, PTL

\* Subscriptions and lists show every change acknowledged before they were
\* asked for (handleSub, handleApiNodes).
THEOREM ListAlwaysFresh == Spec => []ListFresh
<1>1. WorkerInv => ListFresh
  BY DEF WorkerInv, RequestInv, Listed, ListFresh, Ended
<1> QED
  BY <1>1, WorkerAlways, PTL

-----------------------------------------------------------------------------
(* Every client gets what RegistryService promises: each step of the Worker *)
(* is a step of that service or shows nothing to its clients.              *)

\* What y sees does not change.
Same(y) ==
    /\ calls'[y] = calls[y]
    /\ executed'[y] = executed[y]
    /\ answers'[y] = answers[y]

LEMMA SeenByEach ==
    ASSUME NEW y \in Handler
    PROVE  /\ calls[y] = IF Open(y) THEN Asked(y) ELSE NoCall
           /\ witnessed[y] = IF Open(y) THEN views[y] ELSE {}
           /\ entitled[y] = ("allowed" \in seen[y])
           /\ executed[y] = (tk[y] # 0)
           /\ answers[y] = Told(y)
BY DEF calls, witnessed, entitled, executed, answers

LEMMA SeenByEachNext ==
    ASSUME NEW y \in Handler
    PROVE  /\ calls'[y] = IF Open(y)' THEN Asked(y)' ELSE NoCall
           /\ witnessed'[y] = IF Open(y)' THEN views'[y] ELSE {}
           /\ entitled'[y] = ("allowed" \in seen'[y])
           /\ executed'[y] = (tk'[y] # 0)
           /\ answers'[y] = Told(y)'
BY DEF calls, witnessed, entitled, executed, answers, NoCall

LEMMA WaitsSame ==
    ASSUME NEW y \in Handler, Waits(y)
    PROVE  Same(y)
<1>1. Open(y)' = Open(y) /\ Asked(y)' = Asked(y) /\ Told(y)' = Told(y)
  BY DEF Waits, Open, Asked, Told, Listing, Empty
<1> QED
  BY <1>1, SeenByEach, SeenByEachNext DEF Same, Waits

\* What changes when only x sees a change.
LEMMA OnlyOne ==
    ASSUME NEW x \in Handler, \A y \in Handler \ {x} : Same(y)
    PROVE  /\ calls' = [calls EXCEPT ![x] = calls'[x]]
           /\ executed' = [executed EXCEPT ![x] = executed'[x]]
           /\ answers' = [answers EXCEPT ![x] = answers'[x]]
           /\ calls'[x] = calls[x] => calls' = calls
           /\ executed'[x] = executed[x] => executed' = executed
           /\ answers'[x] = answers[x] => answers' = answers
<1>1. /\ calls = [y \in Handler |-> calls[y]] /\ calls' = [y \in Handler |-> calls'[y]]
      /\ executed = [y \in Handler |-> executed[y]]
      /\ executed' = [y \in Handler |-> executed'[y]]
      /\ answers = [y \in Handler |-> answers[y]]
      /\ answers' = [y \in Handler |-> answers'[y]]
  BY DEF calls, executed, answers
<1> QED
  BY <1>1 DEF Same

LEMMA AllSame ==
    ASSUME \A y \in Handler : Same(y)
    PROVE  UNCHANGED <<calls, executed, answers>>
<1>1. /\ calls = [y \in Handler |-> calls[y]] /\ calls' = [y \in Handler |-> calls'[y]]
      /\ executed = [y \in Handler |-> executed[y]]
      /\ executed' = [y \in Handler |-> executed'[y]]
      /\ answers = [y \in Handler |-> answers[y]]
      /\ answers' = [y \in Handler |-> answers'[y]]
  BY DEF calls, executed, answers
<1> QED
  BY <1>1 DEF Same

\* The history of requests is what open calls witness.
LEMMA Witnesses ==
    ASSUME WorkerInv, Observe,
           \A y \in Handler : pc[y] # "idle" /\ pc'[y] # "idle"
                                => req'[y].op = req[y].op
    PROVE  Service!Witness
<1>0. /\ NoCall.op = "none"
      /\ \A y \in Handler : Asked(y).op # "none" /\ Asked(y)'.op # "none"
  BY DEF Asked, NoCall, Changing
<1>1. \A y \in Handler : calls'[y] = NoCall <=> ~Open(y)'
  BY <1>0, SeenByEachNext
<1>2. \A y \in Handler : calls[y] = NoCall <=> ~Open(y)
  BY <1>0, SeenByEach
<1>3. ASSUME NEW y \in Handler
      PROVE  witnessed'[y] = IF calls'[y] = NoCall THEN {} ELSE witnessed[y] \cup {nodes'}
  <2>1. CASE Open(y)'
    <3>1. views'[y] = views[y] \cup {nodes'}
      BY <2>1 DEF Observe, Open
    <3>2. witnessed[y] = views[y]
      BY <2>1, SeenByEach DEF Open, WorkerInv, Viewed
    <3> QED
      BY <1>1, <2>1, <3>1, <3>2, SeenByEachNext
  <2>2. CASE ~Open(y)'
    BY <1>1, <2>2, SeenByEachNext
  <2> QED
    BY <2>1, <2>2
<1>4. witnessed' = [y \in Handler |-> witnessed'[y]]
  BY DEF witnessed
<1>5. witnessed' = [y \in Handler |->
                       IF calls'[y] = NoCall THEN {} ELSE witnessed[y] \cup {nodes'}]
  BY <1>3, <1>4
<1>6. entitled' \in [Handler -> BOOLEAN]
  BY DEF entitled
<1>7. ASSUME NEW y \in Handler, calls[y] # NoCall, calls'[y] = calls[y], entitled[y]
      PROVE  entitled'[y]
  <2>1. Open(y)' /\ "allowed" \in seen[y]
    BY <1>1, <1>7, SeenByEach
  <2>2. seen[y] \subseteq seen'[y]
    BY <2>1, SeenGrows DEF WorkerInv, Open
  <2> QED
    BY <2>1, <2>2, SeenByEachNext
<1> QED
  BY <1>5, <1>6, <1>7 DEF Service!Witness

LEMMA CallIsOpen ==
    ASSUME NEW y \in Handler
    PROVE  /\ calls[y] # NoCall <=> Open(y)
           /\ calls'[y] # NoCall <=> Open(y)'
<1>1. /\ NoCall.op = "none"
      /\ Asked(y).op # "none" /\ Asked(y)'.op # "none"
  BY DEF Asked, NoCall, Changing
<1> QED
  BY <1>1, SeenByEach, SeenByEachNext

\* An await that changes no node; which answers it can decide.
LEMMA QuietProceeds ==
    ASSUME WorkerInv, NEW x \in Handler, proceed(x), ~reply(x),
           throws(x) \/ (~upsertNode(x) /\ ~deleteNode(x))
    PROVE  /\ Observe /\ nodes' = nodes /\ tk' = tk /\ req' = req
           /\ pc[x] \notin {"idle", "reply"} /\ pc'[x] # "idle"
           /\ \A y \in Handler \ {x} : Waits(y)
           /\ pc'[x] = "reply" =>
                /\ pc[x] \in {"find", "touch"} => status'[x] \in {401, 500}
                /\ pc[x] = "audit" => status'[x] = status[x]
<1> USE DEF WorkerInv, TypeOK, Waits, tables, Answer, Goto
<1>1. CASE findEnabledToken(x)
  BY <1>1 DEF findEnabledToken, Decide
<1>2. CASE touchToken(x)
  BY <1>2 DEF touchToken, Decide
<1>3. CASE readBody(x)
  BY <1>3 DEF readBody
<1>4. CASE selectNode(x)
  BY <1>4 DEF selectNode
<1>5. CASE listNodes(x)
  BY <1>5 DEF listNodes
<1>6. CASE insertToken(x)
  BY <1>6 DEF insertToken
<1>7. CASE writeAudit(x)
  BY <1>7 DEF writeAudit
<1>8. CASE throws(x)
  BY <1>8 DEF throws, Statement
<1> QED
  BY <1>1, <1>2, <1>3, <1>4, <1>5, <1>6, <1>7, <1>8 DEF proceed

\* When such an await decides the answer, it is true.
LEMMA AnswerRefines ==
    ASSUME WorkerInv, WorkerInv', NEW x \in Handler, proceed(x), ~reply(x),
           throws(x) \/ (~upsertNode(x) /\ ~deleteNode(x)),
           pc'[x] = "reply", Open(x)
    PROVE  Service!Answer(x)
<1> DEFINE code == status'[x]
           rows == IF Listing(x)' THEN got'[x] ELSE Empty
<1>0. /\ Observe /\ nodes' = nodes /\ tk' = tk /\ req' = req
      /\ pc[x] \notin {"idle", "reply"} /\ pc'[x] # "idle"
      /\ \A y \in Handler \ {x} : Waits(y)
      /\ pc[x] \in {"find", "touch"} => code \in {401, 500}
      /\ pc[x] = "audit" => code = status[x]
  BY QuietProceeds
<1>1. Open(x)' /\ Asked(x)' = Asked(x)
  BY <1>0 DEF Open, Asked
<1>2. /\ calls[x] = Asked(x) /\ calls'[x] = Asked(x) /\ calls[x] # NoCall
      /\ executed'[x] = executed[x] /\ executed[x] = (tk[x] # 0)
      /\ answers[x] = [code |-> 0, rows |-> Empty]
      /\ answers'[x] = [code |-> code, rows |-> rows]
      /\ witnessed[x] = views[x] /\ entitled[x] = ("allowed" \in seen[x])
  <2>1. Told(x) = [code |-> 0, rows |-> Empty]
    BY <1>0 DEF Told
  <2>2. Told(x)' = [code |-> code, rows |-> rows]
    BY <1>1 DEF Told, Empty
  <2> QED
    BY <1>0, <1>1, <2>1, <2>2, SeenByEach, SeenByEachNext, CallIsOpen
<1>3. UNCHANGED <<calls, executed>> /\ answers' = [answers EXCEPT ![x] = answers'[x]]
  BY <1>0, <1>2, WaitsSame, OnlyOne
<1>4. views'[x] = views[x]
  <2>1. views'[x] = views[x] \cup {nodes'}
    BY <1>0 DEF Observe
  <2>2. nodes' \in views[x]
    BY <1>0 DEF WorkerInv, Viewed
  <2> QED
    BY <2>1, <2>2
<1>5. /\ code \in {200, 400, 401, 404, 500}
      /\ code = 404 => req[x].op = "delete"
      /\ code \in {400, 401, 404} => tk[x] = 0
  BY <1>0 DEF WorkerInv, TypeOK, RequestInv, Placed, Ended
<1>6. code \in {200, 400, 404} => "allowed" \in seen[x]
  <2>1. pc[x] \in Past \cup {"find", "touch", "audit"}
    BY <1>0 DEF WorkerInv, TypeOK, Statement, Past
  <2>2. CASE pc[x] \in Past
    BY <2>2 DEF WorkerInv, RequestInv, Allowed
  <2>3. CASE pc[x] \in {"find", "touch"}
    BY <1>0, <2>3
  <2>4. CASE pc[x] = "audit"
    BY <1>0, <2>4 DEF WorkerInv, RequestInv, Allowed, Ended, Served
  <2> QED
    BY <2>1, <2>2, <2>3, <2>4
<1>7. Listing(x)' => got'[x] \in views[x]
  BY <1>4 DEF WorkerInv, RequestInv, Listed, Listing, Ended
<1>8. code = 200 /\ ~Listing(x)' => req[x].op \in Changing /\ tk[x] # 0
  <2>1. req[x].op \in {"register", "delete", "sub", "nodes"}
    BY DEF Open, WorkerInv, TypeOK, Request
  <2>2. code = 200 /\ req[x].op \in Changing => tk[x] # 0
    <3>1. RequestInv(x)'
      BY DEF WorkerInv
    <3> QED
      BY <1>0, <3>1 DEF RequestInv, Executed, Ended
  <2> QED
    BY <1>0, <2>1, <2>2 DEF Listing, Changing
<1>9. req[x].op = "delete" =>
        /\ code = 200 => \E d \in views[x] : d[req[x].id] # Absent
        /\ code = 404 => \E d \in views[x] : d[req[x].id] = Absent
  BY <1>0, <1>4 DEF WorkerInv, RequestInv, Found, Ended
<1>10. /\ Asked(x).op = "list" <=> req[x].op \notin Changing
       /\ Asked(x).op = "delete" <=> req[x].op = "delete"
       /\ Asked(x).id = req[x].id
  BY DEF Asked, Changing
<1>11. code = 200 => (Listing(x)' <=> req[x].op \notin Changing)
  <2>1. req[x].op \in {"register", "delete", "sub", "nodes"}
    BY DEF Open, WorkerInv, TypeOK, Request
  <2> QED
    BY <1>0, <2>1 DEF Listing, Changing
<1>12. Service!Truthful(x, code, rows)
  <2> HIDE DEF code
  <2>1. code \in {200, 400, 404} => entitled[x]
    BY <1>2, <1>6
  <2>2. code \in {400, 401, 404} => ~executed[x]
    BY <1>2, <1>5
  <2>3. code = 200 /\ calls[x].op = "list" => rows \in witnessed[x]
    BY <1>2, <1>7, <1>10, <1>11
  <2>4. code = 200 /\ calls[x].op # "list" => executed[x]
    BY <1>2, <1>8, <1>10, <1>11
  <2>5. /\ calls[x].op = "delete" <=> req[x].op = "delete"
        /\ calls[x].id = req[x].id
    BY <1>2, <1>10
  <2>6. /\ code = 200 /\ calls[x].op = "delete" =>
             \E d \in witnessed[x] : d[calls[x].id] # Absent
        /\ code = 404 =>
             /\ calls[x].op = "delete"
             /\ \E d \in witnessed[x] : d[calls[x].id] = Absent
    BY <1>2, <1>5, <1>9, <2>5
  <2> HIDE DEF rows
  <2> QED
    BY <2>1, <2>2, <2>3, <2>4, <2>6 DEF Service!Truthful
<1>13. rows \in witnessed[x] \cup {Service!Nothing}
  BY <1>2, <1>7 DEF Service!Nothing, Empty
<1> QED
  <2> HIDE DEF code, rows
  <2> QED
    BY <1>0, <1>2, <1>3, <1>5, <1>12, <1>13 DEF Service!Answer

\* The other awaits that change no node are not seen.
LEMMA QuietRefines ==
    ASSUME WorkerInv, WorkerInv', NEW x \in Handler, proceed(x), ~reply(x),
           throws(x) \/ (~upsertNode(x) /\ ~deleteNode(x))
    PROVE  Service!Next
<1>0. /\ Observe /\ nodes' = nodes /\ tk' = tk /\ req' = req
      /\ pc[x] \notin {"idle", "reply"} /\ pc'[x] # "idle"
      /\ \A y \in Handler \ {x} : Waits(y)
  BY QuietProceeds
<1>1. Service!Witness
  BY <1>0, Witnesses
<1>2. CASE pc'[x] = "reply" /\ Open(x)
  BY <1>1, <1>2, AnswerRefines DEF Service!Next
<1>3. CASE ~(pc'[x] = "reply" /\ Open(x))
  <2>1. Open(x)' = Open(x) /\ Asked(x)' = Asked(x)
    BY <1>0 DEF Open, Asked
  <2>2. Told(x)' = Told(x)
    BY <1>0, <1>3, <2>1 DEF Told, Empty
  <2>3. \A y \in Handler : Same(y)
    BY <1>0, <2>1, <2>2, WaitsSame, SeenByEach, SeenByEachNext DEF Same
  <2> QED
    BY <1>0, <1>1, <2>3, AllSame DEF Service!Next, Service!Wait
<1> QED
  BY <1>2, <1>3

\* A statement that changes the table is the call's one change; when its
\* answer is lost, the call is answered 500 in the same step.
LEMMA WriteRefines ==
    ASSUME WorkerInv, NEW x \in Handler, pc[x] \in {"upsert", "delete"}, Write(x)
    PROVE  Service!Next
<1>0. /\ Observe /\ req' = req /\ Len(ops) \in Nat /\ TypeOK
      /\ nodes' = [nodes EXCEPT ![req[x].id] = req[x].rec]
      /\ tk' = [tk EXCEPT ![x] = Len(ops) + 1]
      /\ Answer(x, 200, "audit") \/ Answer(x, 500, "reply")
  BY DEF Write, WorkerInv, TypeOK
<1>1. /\ Observe /\ req' = req /\ req[x].op \in Changing /\ tk[x] = 0
      /\ "allowed" \in seen[x] /\ tk'[x] # 0 /\ pc'[x] # "idle" /\ pc[x] # "idle"
      /\ nodes' = [nodes EXCEPT ![req[x].id] = req[x].rec]
      /\ pc'[x] = "audit" \/ (pc'[x] = "reply" /\ status'[x] = 500)
  <2>1. tk'[x] # 0
    BY <1>0 DEF TypeOK
  <2>2. pc'[x] = "audit" \/ (pc'[x] = "reply" /\ status'[x] = 500)
    BY <1>0 DEF TypeOK, Answer
  <2>3. req[x].op \in Changing /\ tk[x] = 0 /\ "allowed" \in seen[x]
    BY DEF WorkerInv, RequestInv, Placed, Allowed, Past, Ended, Changing
  <2> QED
    BY <1>0, <2>1, <2>2, <2>3
<1>2. \A y \in Handler \ {x} : Waits(y)
  BY DEF Write, Answer, WorkerInv, TypeOK, Waits
<1>3. Service!Witness
  BY <1>1, <1>2, Witnesses DEF Waits
<1>4. Open(x) /\ Open(x)' /\ Asked(x)' = Asked(x)
  BY <1>1 DEF Open, Asked, Changing
<1>t. executed'[x] = TRUE
  BY <1>1, SeenByEachNext
<1>5. /\ calls[x] = Asked(x) /\ calls'[x] = calls[x] /\ calls[x] # NoCall
      /\ ~executed[x] /\ entitled[x]
      /\ answers[x] = [code |-> 0, rows |-> Empty]
      /\ answers'[x] \in {answers[x], [code |-> 500, rows |-> Empty]}
  <2>1. Told(x) = [code |-> 0, rows |-> Empty]
    BY DEF Told
  <2>2. Told(x)' \in {[code |-> 0, rows |-> Empty], [code |-> 500, rows |-> Empty]}
    BY <1>1 DEF Told, Empty, Listing
  <2>3. /\ calls[x] = Asked(x) /\ calls'[x] = calls[x] /\ calls[x] # NoCall
        /\ answers[x] = Told(x) /\ answers'[x] = Told(x)'
    BY <1>4, SeenByEach, SeenByEachNext, CallIsOpen
  <2>4. ~executed[x] /\ entitled[x]
    <3>1. entitled[x] = ("allowed" \in seen[x]) /\ executed[x] = (tk[x] # 0)
      BY SeenByEach
    <3>2. "allowed" \in seen[x] /\ tk[x] = 0
      BY <1>1
    <3>3. entitled[x]
      BY <3>1, <3>2, Zenon
    <3> QED
      BY <3>1, <3>2, <3>3
  <2> QED
    BY <2>1, <2>2, <2>3, <2>4
<1>6. Asked(x).op \in {"register", "delete"} /\ Asked(x).id = req[x].id
      /\ Asked(x).rec = req[x].rec
  BY <1>1 DEF Asked, Changing
<1>7. /\ calls' = calls /\ executed' = [executed EXCEPT ![x] = TRUE]
      /\ answers' = [answers EXCEPT ![x] = answers'[x]]
      /\ answers'[x] = answers[x] => answers' = answers
  BY <1>t, <1>2, <1>5, WaitsSame, OnlyOne
<1>8. answers' \in {answers, [answers EXCEPT ![x] = Service!Failure]}
  BY <1>5, <1>7 DEF Service!Failure, Service!Nothing, Empty
<1>9. Service!Change(x)
  BY <1>1, <1>5, <1>6, <1>7, <1>8 DEF Service!Change
<1> QED
  BY <1>3, <1>9 DEF Service!Next

\* A request that leaves or is dropped ends the call, if it was one.
LEMMA GoneRefines ==
    ASSUME WorkerInv, NEW x \in Handler, pc[x] # "idle", Gone(x)
    PROVE  Service!Next
<1>1. /\ Observe /\ nodes' = nodes /\ pc'[x] = "idle" /\ tk'[x] = 0
      /\ \A y \in Handler \ {x} : Waits(y)
  BY DEF Gone, WorkerInv, TypeOK, Waits, tables
<1>2. Service!Witness
  BY <1>1, Witnesses DEF Waits
<1>3. ~Open(x)' /\ Told(x)' = [code |-> 0, rows |-> Empty]
  BY <1>1 DEF Open, Told, Empty
<1>4. calls'[x] = NoCall /\ executed'[x] = FALSE /\ answers'[x] = Service!Undecided
  BY <1>1, <1>3, SeenByEachNext DEF Service!Undecided, Service!Nothing, Empty
<1>5. CASE Open(x)
  <2>1. /\ calls' = [calls EXCEPT ![x] = NoCall]
        /\ executed' = [executed EXCEPT ![x] = FALSE]
        /\ answers' = [answers EXCEPT ![x] = Service!Undecided]
    BY <1>1, <1>4, WaitsSame, OnlyOne
  <2>2. Service!End(x)
    BY <1>1, <1>5, <2>1, CallIsOpen DEF Service!End
  <2> QED
    BY <1>2, <2>2 DEF Service!Next
<1>6. CASE ~Open(x)
  <2>1. req[x].op = "create" /\ tk[x] = 0
    BY <1>6 DEF Open, WorkerInv, RequestInv, Placed, Changing
  <2>2. Same(x)
    BY <1>3, <1>4, <1>6, <2>1, SeenByEach, SeenByEachNext
       DEF Same, Told, Service!Undecided, Service!Nothing, Empty
  <2>3. \A y \in Handler : Same(y)
    BY <1>1, <2>2, WaitsSame
  <2> QED
    BY <1>1, <1>2, <2>3, AllSame DEF Service!Next, Service!Wait
<1> QED
  BY <1>5, <1>6

\* An arrival opens a call, unless it is about tokens.
LEMMA ArriveRefines ==
    ASSUME WorkerInv, WorkerInv', NEW x \in Handler, NEW r, NEW label,
           Enters(r, label), Arrive(x, r, label)
    PROVE  Service!Next
<1>1. /\ Observe /\ nodes' = nodes /\ pc[x] = "idle" /\ pc'[x] \notin {"idle", "reply"}
      /\ tk' = tk /\ \A y \in Handler \ {x} : Waits(y)
  BY DEF Arrive, Enters, WorkerInv, TypeOK, Waits, tables
<1>2. Service!Witness
  BY <1>1, Witnesses DEF Waits
<1>3. /\ calls[x] = NoCall /\ ~Open(x) /\ executed'[x] = executed[x]
      /\ answers'[x] = answers[x]
  <2>1. Told(x) = [code |-> 0, rows |-> Empty] /\ Told(x)' = [code |-> 0, rows |-> Empty]
    BY <1>1 DEF Told, Open, Empty
  <2>2. ~Open(x)
    BY <1>1 DEF Open
  <2> QED
    BY <1>1, <2>1, <2>2, SeenByEach, SeenByEachNext
<1>4. UNCHANGED <<executed, answers>> /\ calls' = [calls EXCEPT ![x] = calls'[x]]
  BY <1>1, <1>3, WaitsSame, OnlyOne
<1>5. CASE Open(x)'
  <2>1. calls'[x] = Asked(x)'
    BY <1>5, SeenByEachNext
  <2>2. req'[x] \in Request /\ req'[x].op # "create"
    BY <1>5 DEF WorkerInv, TypeOK, Open
  <2>3. Asked(x)' \in Service!Call
    BY <2>2 DEF Asked, Service!Call, Service!Record, Record, Request, Changing
  <2>4. Service!Arrive(x)
    BY <1>1, <1>3, <1>4, <2>1, <2>3 DEF Service!Arrive
  <2> QED
    BY <1>2, <2>4 DEF Service!Next
<1>6. CASE ~Open(x)'
  <2>1. Same(x)
    BY <1>3, <1>6, SeenByEach, SeenByEachNext DEF Same
  <2>2. \A y \in Handler : Same(y)
    BY <1>1, <2>1, WaitsSame
  <2> QED
    BY <1>1, <1>2, <2>2, AllSame DEF Service!Next, Service!Wait
<1> QED
  BY <1>5, <1>6

LEMMA InitRefines == Init => Service!Init
<1> SUFFICES ASSUME Init PROVE Service!Init
  OBVIOUS
<1>1. \A y \in Handler : ~Open(y) /\ Told(y) = Service!Undecided
  BY DEF Init, Open, Told, Service!Undecided, Service!Nothing, Empty
<1>2. calls = [y \in Handler |-> NoCall] /\ witnessed = [y \in Handler |-> {}]
  BY <1>1 DEF calls, witnessed
<1>3. executed = [y \in Handler |-> FALSE]
  BY DEF Init, executed
<1>4. answers = [y \in Handler |-> Service!Undecided]
  BY <1>1 DEF answers
<1>5. entitled \in [Handler -> BOOLEAN]
  BY DEF entitled
<1>6. nodes \in Service!Rows
  BY DEF Init, Rows, Record, Service!Rows, Service!Record
<1> QED
  BY <1>2, <1>3, <1>4, <1>5, <1>6 DEF Service!Init

LEMMA StepRefines ==
    WorkerInv /\ WorkerInv' /\ [Next]_vars => [Service!Next]_(Service!svars)
<1> SUFFICES ASSUME WorkerInv, WorkerInv', [Next]_vars
             PROVE  Service!Next \/ UNCHANGED Service!svars
  OBVIOUS
<1>1. CASE UNCHANGED vars
  <2>1. ASSUME NEW y \in Handler
        PROVE  /\ Same(y) /\ witnessed'[y] = witnessed[y]
               /\ entitled'[y] = entitled[y]
    <3>1. Waits(y) /\ seen' = seen /\ views' = views
      BY <1>1 DEF vars, Waits
    <3>2. Open(y)' = Open(y)
      BY <3>1 DEF Waits, Open
    <3> QED
      BY <3>1, <3>2, WaitsSame, SeenByEach, SeenByEachNext
  <2>2. /\ witnessed = [y \in Handler |-> witnessed[y]]
        /\ witnessed' = [y \in Handler |-> witnessed'[y]]
        /\ entitled = [y \in Handler |-> entitled[y]]
        /\ entitled' = [y \in Handler |-> entitled'[y]]
    BY DEF witnessed, entitled
  <2>3. UNCHANGED <<witnessed, entitled>>
    BY <2>1, <2>2
  <2> QED
    BY <1>1, <2>1, <2>3, AllSame DEF Service!svars, vars
<1>2. ASSUME NEW x \in Handler, request(x) PROVE Service!Next
  <2>1. PICK r, label : Enters(r, label) /\ Arrive(x, r, label)
    BY <1>2, RequestEnters
  <2> QED
    BY <2>1, ArriveRefines
<1>3. ASSUME NEW x \in Handler, proceed(x) PROVE Service!Next
  <2>1. CASE reply(x)
    BY <2>1, GoneRefines DEF reply
  <2>2. CASE upsertNode(x) \/ deleteNode(x)
    BY <2>2, WriteRefines DEF upsertNode, deleteNode
  <2>3. CASE ~reply(x) /\ ~upsertNode(x) /\ ~deleteNode(x)
    BY <1>3, <2>3, QuietRefines
  <2> QED
    BY <2>1, <2>2, <2>3
<1>4. ASSUME NEW x \in Handler, dropped(x) PROVE Service!Next
  BY <1>4, GoneRefines DEF dropped
<1>5. ASSUME NEW t \in Token, disableToken(t) PROVE Service!Next
  <2>1. Observe /\ nodes' = nodes /\ \A y \in Handler : Waits(y)
    BY <1>5 DEF disableToken, Waits
  <2>2. Service!Witness
    BY <2>1, Witnesses DEF Waits
  <2>3. UNCHANGED <<calls, executed, answers>>
    BY <2>1, WaitsSame, AllSame
  <2> QED
    BY <2>1, <2>2, <2>3 DEF Service!Next, Service!Wait
<1> QED
  BY <1>1, <1>2, <1>3, <1>4, <1>5 DEF Next

\* For any number of clients, nodes and tokens: a change is made at most once,
\* before its answer and for an entitled client; an answer 200 means it was
\* made, 400, 401 and 404 that it was not, and what is listed, found or missed
\* was so at a moment of the request (index.js:36-131, db.js:29-79).
THEOREM Refinement == Spec => ImplementsService
BY WorkerAlways, InitRefines, StepRefines, PTL
   DEF Spec, ImplementsService, Service!Spec
=============================================================================
