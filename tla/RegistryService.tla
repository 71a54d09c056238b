-------------------------- MODULE RegistryService --------------------------
(***************************************************************************)
(* What a registry promises to each of its clients, without tokens,        *)
(* statements, awaits or an audit log.  A call is open from its arrival    *)
(* until its answer has left or the call has vanished.  A changing call    *)
(* takes effect at one moment while it is open, at most once, never after  *)
(* its answer, and only for a client that was entitled by then; what is    *)
(* answered was true at some moment of the call.                           *)
(***************************************************************************)
EXTENDS Naturals

CONSTANTS
    Client,
    NodeID,
    Version,    \* the records a node may register
    Absent,     \* the node is not registered
    None        \* no call

VARIABLES
    table,      \* the registered nodes
    call,       \* call[x]: what x has asked for, or None
    views,      \* views[x]: the tables there were since x called
    entitled,   \* entitled[x]: x's credential was valid since x called
    done,       \* done[x]: x's change has been made
    answer      \* answer[x]: what x will be told

svars == <<table, call, views, entitled, done, answer>>

Record == Version \cup {Absent}
Rows == [NodeID -> Record]

\* A listing asks for no node; a removal carries no record.
Call == [op : {"register", "delete", "list"},
         id : NodeID \cup {Absent},
         rec : Record]

Nothing == [n \in NodeID |-> Absent]
Undecided == [code |-> 0, rows |-> Nothing]
Failure == [code |-> 500, rows |-> Nothing]

Init ==
    /\ table \in Rows
    /\ call = [x \in Client |-> None]
    /\ views = [x \in Client |-> {}]
    /\ entitled \in [Client -> BOOLEAN]
    /\ done = [x \in Client |-> FALSE]
    /\ answer = [x \in Client |-> Undecided]

\* Whatever happens, the open calls witness the table that results; and a
\* credential may turn out valid at any time.
Witness ==
    /\ views' = [x \in Client |->
                    IF call'[x] = None THEN {} ELSE views[x] \cup {table'}]
    /\ entitled' \in [Client -> BOOLEAN]
    /\ \A x \in Client : call[x] # None /\ call'[x] = call[x] /\ entitled[x]
                            => entitled'[x]

Arrive(x) ==
    /\ call[x] = None
    /\ \E c \in Call : call' = [call EXCEPT ![x] = c]
    /\ UNCHANGED <<table, done, answer>>

\* The change of an open call, whose own outcome may be lost: then it is
\* answered 500 at once.
Change(x) ==
    /\ call[x] # None
    /\ call[x].op \in {"register", "delete"}
    /\ answer[x].code = 0
    /\ ~done[x]
    /\ entitled[x]
    /\ table' = [table EXCEPT ![call[x].id] = call[x].rec]
    /\ done' = [done EXCEPT ![x] = TRUE]
    /\ answer' \in {answer, [answer EXCEPT ![x] = Failure]}
    /\ UNCHANGED call

\* What each answer says.
Truthful(x, code, rows) ==
    /\ code \in {200, 400, 404} => entitled[x]
    /\ code \in {400, 401, 404} => ~done[x]
    /\ code = 200 /\ call[x].op = "list" => rows \in views[x]
    /\ code = 200 /\ call[x].op # "list" => done[x]
    /\ code = 200 /\ call[x].op = "delete" =>
        \E d \in views[x] : d[call[x].id] # Absent
    /\ code = 404 =>
        /\ call[x].op = "delete"
        /\ \E d \in views[x] : d[call[x].id] = Absent

Answer(x) ==
    /\ call[x] # None
    /\ answer[x].code = 0
    /\ \E code \in {200, 400, 401, 404, 500}, rows \in views[x] \cup {Nothing} :
          /\ Truthful(x, code, rows)
          /\ answer' = [answer EXCEPT ![x] = [code |-> code, rows |-> rows]]
    /\ UNCHANGED <<table, call, done>>

\* The answer has left, or nobody waits for it any more.
End(x) ==
    /\ call[x] # None
    /\ call' = [call EXCEPT ![x] = None]
    /\ done' = [done EXCEPT ![x] = FALSE]
    /\ answer' = [answer EXCEPT ![x] = Undecided]
    /\ UNCHANGED table

\* Nothing but a credential becoming valid.
Wait == UNCHANGED <<table, call, done, answer>>

Next ==
    /\ \/ Wait
       \/ \E x \in Client : Arrive(x) \/ Change(x) \/ Answer(x) \/ End(x)
    /\ Witness

Spec == Init /\ [][Next]_svars
=============================================================================
