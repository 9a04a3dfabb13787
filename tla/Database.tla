-------------------------------- MODULE Database --------------------------------
(***************************************************************************)
(* The tags of the modules dbp_pgsql, dbp_sqlite, dbp_odbc and dbp_redis   *)
(* that lease a connection from a pool for their content, open a           *)
(* transaction on it and send statements: tag_database (tag_connection),   *)
(* tag_transaction and tag_query.                                          *)
(*                                                                         *)
(* A worker executes a script, a sequence of instructions in which each    *)
(* tag that has content is closed by an "end".  The pool, the client       *)
(* libraries and the servers are not part of the repository: a statement   *)
(* may fail, a connection may break, a commit may be lost or in doubt.     *)
(* The position of an instruction names the update that it makes.          *)
(***************************************************************************)
EXTENDS Naturals, Sequences, FiniteSets

CONSTANTS
    Workers,    \* threads that execute scripts
    Ids,        \* the "id" of database tags; each names its own data source
    Conns,      \* objects that a pool may hold
    Drivers,    \* the modules under study
    Scripts,    \* for each worker, the scripts that requests may bring to it
    NoWorker,   \* the object lies in the pool
    NoId,       \* the object has not been created; or no id
    NoConn

Kinds == {"database", "transaction", "query", "try"}
Instruction ==
    [op : {"database", "transaction", "query"}, id : Ids, stmt : {"none", "select", "update"}]
      \cup [op : {"try", "end"}, id : {NoId}, stmt : {"none"}]

\* q is the "end" of the tag at position p.
Closes(s, p, q) ==
    /\ s[q].op = "end"
    /\ 2 * Cardinality({i \in p..q : s[i].op = "end"}) = q - p + 1
    /\ \A r \in p..q-1 : 2 * Cardinality({i \in p..r : s[i].op = "end"}) < r - p + 1

ASSUME DatabaseAssumption ==
    /\ Drivers \subseteq {"pgsql", "sqlite", "odbc", "redis"}
    /\ Scripts \in [Workers -> SUBSET Seq(Instruction)]
    \* scripts are parsed XML: a tag has its end
    /\ \A w \in Workers : \A s \in Scripts[w] : \A p \in DOMAIN s :
         s[p].op # "end" => \E q \in p..Len(s) : Closes(s, p, q)
    /\ NoWorker \notin Workers /\ NoId \notin Ids /\ NoConn \notin Conns
    /\ IsFiniteSet(Ids)
    \* an id never needs more objects than there are workers
    /\ Cardinality(Conns) >= Cardinality(Workers) * Cardinality(Ids)

VARIABLES
    driver,     \* the module that the scripts use
    run,        \* what each worker executes
    conn,       \* the objects of the pool
    applied,    \* how often each update of the script was committed
    broke       \* history: pqxx::broken_connection was thrown to the script

vars == <<driver, run, conn, applied, broke>>

AllScripts == UNION {Scripts[w] : w \in Workers}
Positions == UNION {1..Len(s) : s \in AllScripts}

\* "closed": no handle; "dead": a handle that no statement can use, because the
\* server is gone or because sqlite3_open_v2 left it behind.  tx is the state of
\* the transaction that the server keeps for the connection, pending what it has
\* done so far, changes what sqlite3_changes says.
Conn == [id : Ids \cup {NoId}, owner : Workers \cup {NoWorker},
         state : {"closed", "open", "dead"}, tx : {"none", "open", "aborted"},
         pending : SUBSET Positions, changes : BOOLEAN]

\* The activation of a tag at an instruction.  "nested" is a database tag that
\* finds its id in the context.  done and failed are history: the updates made
\* in a transaction, and whether a statement of it failed.
Frame == [kind : Kinds \cup {"nested"}, at : Positions, id : Ids \cup {NoId},
          conn : Conns \cup {NoConn}, tries : 0..3, done : SUBSET Positions,
          failed : BOOLEAN]

\* "connect": the try block of a database tag starts.  "broken" and "error": a
\* pqxx::broken_connection or another exception is in flight.
Modes == {"idle", "run", "connect", "broken", "error"}
Run == [script : AllScripts \cup {<<>>}, pc : Nat, stack : Seq(Frame), mode : Modes]

TypeOK ==
    /\ driver \in Drivers
    /\ run \in [Workers -> Run]
    /\ conn \in [Conns -> Conn]
    /\ applied \in [Workers -> [Positions -> Nat]]
    /\ broke \in [Workers -> BOOLEAN]

Idle == [script |-> <<>>, pc |-> 1, stack |-> <<>>, mode |-> "idle"]
Unused == [id |-> NoId, owner |-> NoWorker, state |-> "closed", tx |-> "none",
           pending |-> {}, changes |-> FALSE]
NothingApplied == [p \in Positions |-> 0]

Init ==
    /\ driver \in Drivers
    /\ run = [w \in Workers |-> Idle]
    /\ conn = [c \in Conns |-> Unused]
    /\ applied = [w \in Workers |-> NothingApplied]
    /\ broke = [w \in Workers |-> FALSE]

--------------------------------------------------------------------------------
(* The script and the context of a worker *)

Front(s) == SubSeq(s, 1, Len(s) - 1)
Last(s) == s[Len(s)]

Instr(w) == run[w].script[run[w].pc]
At(w, op) ==
    run[w].mode = "run" /\ run[w].pc \in DOMAIN run[w].script /\ Instr(w).op = op

EndOf(s, p) == CHOOSE q \in p..Len(s) : Closes(s, p, q)

\* The innermost tag that w executes is one of these.
Within(w, kinds) == run[w].stack # <<>> /\ Last(run[w].stack).kind \in kinds
Unwinding(w) == run[w].mode \in {"error", "broken"}

Frames(w, kind) == {i \in DOMAIN run[w].stack : run[w].stack[i].kind = kind}

\* ctx.get_value("@...:DATABASE@" + id)
Visible(w, id) ==
    LET S == {i \in Frames(w, "database") : run[w].stack[i].id = id}
    IN  IF S = {} THEN NoConn ELSE run[w].stack[CHOOSE i \in S : TRUE].conn

\* The connection that a query of database id uses: in dbp_pgsql that of
\* "@PGSQL:WORK@", the innermost transaction of any database, if there is one.
Target(w, id) ==
    LET S == Frames(w, "transaction")
    IN  IF driver = "pgsql" /\ Visible(w, id) # NoConn /\ S # {}
          THEN run[w].stack[CHOOSE i \in S : \A j \in S : j <= i].conn
          ELSE Visible(w, id)

NewFrame(w, kind, c) ==
    [kind |-> kind, at |-> run[w].pc, id |-> Instr(w).id, conn |-> c, tries |-> 0,
     done |-> {}, failed |-> FALSE]

Goes(w, r) == run' = [run EXCEPT ![w] = r]
Push(w, f, mode) ==
    Goes(w, [run[w] EXCEPT !.stack = Append(@, f), !.pc = @ + 1, !.mode = mode])
Pop(w, pc, mode) ==
    Goes(w, [run[w] EXCEPT !.stack = Front(@), !.pc = pc, !.mode = mode])
Throw(w) == Goes(w, [run[w] EXCEPT !.mode = "error"])

Commit(w, S) ==
    applied' = [applied EXCEPT ![w] =
                  [p \in Positions |-> applied[w][p] + (IF p \in S THEN 1 ELSE 0)]]

--------------------------------------------------------------------------------
(* Requests *)

\* A request for a script arrives; there is no redis:transaction.
Start(w) ==
    /\ run[w].mode = "idle"
    /\ \E s \in Scripts[w] :
         /\ driver = "redis" => \A p \in DOMAIN s : s[p].op # "transaction"
         /\ Goes(w, [Idle EXCEPT !.script = s, !.mode = "run"])
    /\ UNCHANGED <<driver, conn, applied, broke>>

\* The script ends, or an exception has left its last tag.
Finish(w) ==
    /\ run[w].mode \in {"run", "broken", "error"}
    /\ run[w].stack = <<>>
    /\ run[w].mode = "run" => run[w].pc > Len(run[w].script)
    /\ Goes(w, Idle)
    /\ applied' = [applied EXCEPT ![w] = NothingApplied]
    /\ broke' = [broke EXCEPT ![w] = FALSE]
    /\ UNCHANGED <<driver, conn>>

\* dbp:try
EnterTry(w) ==
    /\ At(w, "try")
    /\ Push(w, NewFrame(w, "try", NoConn), "run")
    /\ UNCHANGED <<driver, conn, applied, broke>>

--------------------------------------------------------------------------------
(* tag_database and tag_connection *)

\* What acquire(dsn) may return: an object of this data source that lies in the
\* pool, or else a new one.
Pooled(id) ==
    LET idle == {c \in Conns : conn[c].owner = NoWorker /\ conn[c].id = id}
        new == {c \in Conns : conn[c].id = NoId}
    IN  IF idle # {} THEN idle ELSE {c \in new : c = CHOOSE n \in new : TRUE}

\* Mutant: any object of the pool, leased or not.
EnterDatabaseShared(w) ==
    /\ At(w, "database")
    /\ \E c \in Conns :
         /\ conn' = [conn EXCEPT ![c].owner = w, ![c].id = Instr(w).id]
         /\ Push(w, [NewFrame(w, "database", c) EXCEPT !.tries = 3], "connect")
    /\ UNCHANGED <<driver, applied, broke>>

\* Mutant: one attempt too many.
EnterDatabaseFour(w) ==
    /\ At(w, "database")
    /\ Visible(w, Instr(w).id) = NoConn
    /\ \E c \in Pooled(Instr(w).id) :
         /\ conn' = [conn EXCEPT ![c].owner = w, ![c].id = Instr(w).id]
         /\ Push(w, [NewFrame(w, "database", c) EXCEPT !.tries = 4], "connect")
    /\ UNCHANGED <<driver, applied, broke>>

\* A database tag inside another one with the same id uses its connection;
\* else a connection is acquired.
EnterDatabase(w) ==
    /\ At(w, "database")
    /\ \/ /\ Visible(w, Instr(w).id) # NoConn
          /\ Push(w, NewFrame(w, "nested", NoConn), "run")
          /\ UNCHANGED conn
       \/ /\ Visible(w, Instr(w).id) = NoConn
          /\ \E c \in Pooled(Instr(w).id) :
               /\ conn' = [conn EXCEPT ![c].owner = w, ![c].id = Instr(w).id]
               /\ Push(w, [NewFrame(w, "database", c) EXCEPT !.tries = 3], "connect")
    /\ UNCHANGED <<driver, applied, broke>>

\* A handle that is there is used as it is; else a new one is opened.
Connect(w) ==
    /\ run[w].mode = "connect"
    /\ LET c == Last(run[w].stack).conn IN
         conn' = IF conn[c].state = "closed" THEN [conn EXCEPT ![c].state = "open"] ELSE conn
    /\ Goes(w, [run[w] EXCEPT !.mode = "run"])
    /\ UNCHANGED <<driver, applied, broke>>

\* Opening fails: pqxx::broken_connection, or an exception of the module.  The
\* handle that sqlite3_open_v2 has stored passes for an open one from then on.
ConnectFails(w) ==
    /\ run[w].mode = "connect"
    /\ LET c == Last(run[w].stack).conn IN
         /\ conn[c].state = "closed"
         /\ conn' = IF driver = "sqlite" THEN [conn EXCEPT ![c].state = "dead"] ELSE conn
    /\ Goes(w, [run[w] EXCEPT !.mode = IF driver = "pgsql" THEN "broken" ELSE "error"])
    /\ broke' = [broke EXCEPT ![w] = @ \/ driver = "pgsql"]
    /\ UNCHANGED <<driver, applied>>

Released(r) == [r EXCEPT !.owner = NoWorker]
Closed(r) == [r EXCEPT !.state = "closed", !.tx = "none", !.pending = {}, !.changes = FALSE]

\* The content has ended: the pool_ptr goes out of scope.
LeaveDatabase(w) ==
    /\ At(w, "end") /\ Within(w, {"database"})
    /\ LET c == Last(run[w].stack).conn IN conn' = [conn EXCEPT ![c] = Released(@)]
    /\ Pop(w, run[w].pc + 1, "run")
    /\ UNCHANGED <<driver, applied, broke>>

\* catch (...): dbp_odbc closes the connection and dbp_redis resets it.
UnwindDatabase(w) ==
    LET c == Last(run[w].stack).conn IN
    /\ Unwinding(w) /\ Within(w, {"database"})
    /\ driver = "pgsql" => run[w].mode = "error"
    /\ conn' = [conn EXCEPT ![c] = Released(IF driver \in {"odbc", "redis"} THEN Closed(@) ELSE @)]
    /\ Pop(w, run[w].pc, run[w].mode)
    /\ UNCHANGED <<driver, applied, broke>>

\* Mutant: attempts is never decremented.
ReconnectForever(w) ==
    LET f == Last(run[w].stack) IN
    /\ run[w].mode = "broken" /\ Within(w, {"database"})
    /\ driver = "pgsql"
    /\ conn' = [conn EXCEPT ![f.conn] = Closed(@)]
    /\ Goes(w, [run[w] EXCEPT !.mode = "connect", !.pc = f.at + 1])
    /\ UNCHANGED <<driver, applied, broke>>

\* Mutant: every exception makes the content run again.
ReconnectAlways(w) ==
    LET f == Last(run[w].stack) IN
    /\ Unwinding(w) /\ Within(w, {"database"}) /\ driver = "pgsql" /\ f.tries > 1
    /\ conn' = [conn EXCEPT ![f.conn] = Closed(@)]
    /\ Goes(w, [run[w] EXCEPT !.mode = "connect", !.pc = f.at + 1,
                              !.stack[Len(run[w].stack)].tries = f.tries - 1])
    /\ UNCHANGED <<driver, applied, broke>>

\* catch (const pqxx::broken_connection &): the connection is dropped, and the
\* whole content runs again unless this was the third attempt.
Reconnect(w) ==
    LET f == Last(run[w].stack) IN
    /\ run[w].mode = "broken" /\ Within(w, {"database"})
    /\ driver = "pgsql"
    /\ IF f.tries = 1
         THEN /\ conn' = [conn EXCEPT ![f.conn] = Released(Closed(@))]
              /\ Pop(w, run[w].pc, "error")
         ELSE /\ conn' = [conn EXCEPT ![f.conn] = Closed(@)]
              /\ Goes(w, [run[w] EXCEPT !.mode = "connect", !.pc = f.at + 1,
                                        !.stack[Len(run[w].stack)].tries = f.tries - 1])
    /\ UNCHANGED <<driver, applied, broke>>

--------------------------------------------------------------------------------
(* tag_transaction *)

\* A client library may reconnect when a transaction begins (libpqxx does).
Usable(r) == r.state = "open" \/ (driver = "pgsql" /\ r.state = "dead")

\* new pqxx::work, BEGIN, begin_transaction
BeginTransaction(w) ==
    LET c == Visible(w, Instr(w).id) IN
    /\ At(w, "transaction")
    /\ c # NoConn
    /\ conn[c].tx = "none" /\ Usable(conn[c])
    /\ conn' = [conn EXCEPT ![c].tx = "open", ![c].state = "open"]
    /\ Push(w, NewFrame(w, "transaction", c), "run")
    /\ UNCHANGED <<driver, applied, broke>>

\* No such database in the context, a transaction is open already, or the
\* connection is gone: in each case an exception that no retry catches.
BeginTransactionFails(w) ==
    LET c == Visible(w, Instr(w).id) IN
    /\ At(w, "transaction")
    /\ \/ c = NoConn /\ UNCHANGED conn
       \/ c # NoConn /\ (conn[c].tx # "none" \/ conn[c].state = "dead") /\ UNCHANGED conn
       \/ /\ c # NoConn /\ driver # "sqlite"
          /\ conn' = [conn EXCEPT ![c].state = "dead",
                                  ![c].tx = IF @ = "none" THEN "none" ELSE "aborted",
                                  ![c].pending = {}]
    /\ Throw(w)
    /\ UNCHANGED <<driver, applied, broke>>

NoTx(c) == [conn EXCEPT ![c].tx = "none", ![c].pending = {}]

\* The content has ended and the commit succeeds.  PostgreSQL answers COMMIT in a
\* transaction that has failed with a rollback that is no error.
CommitTransaction(w) ==
    LET c == Last(run[w].stack).conn IN
    /\ At(w, "end") /\ Within(w, {"transaction"})
    /\ conn[c].state = "open"
    /\ \/ conn[c].tx = "open" /\ Commit(w, conn[c].pending)
       \/ conn[c].tx = "aborted" /\ driver \in {"pgsql", "odbc"} /\ UNCHANGED applied
    /\ conn' = NoTx(c)
    /\ Pop(w, run[w].pc + 1, "run")
    /\ UNCHANGED <<driver, broke>>

\* The commit fails: the server refuses it; or the connection is lost before it
\* was sent, which libpqxx reports as broken_connection, or after that, which
\* leaves it in doubt.  Then the catch clause rolls back.
CommitFails(w) ==
    LET c == Last(run[w].stack).conn IN
    /\ At(w, "end") /\ Within(w, {"transaction"})
    /\ \/ /\ conn' = NoTx(c)
          /\ Pop(w, run[w].pc, "error")
          /\ UNCHANGED <<applied, broke>>
       \/ /\ driver # "sqlite"
          /\ conn' = [NoTx(c) EXCEPT ![c].state = "dead"]
          /\ \/ /\ UNCHANGED applied
                /\ Pop(w, run[w].pc, IF driver = "pgsql" THEN "broken" ELSE "error")
                /\ broke' = [broke EXCEPT ![w] = @ \/ driver = "pgsql"]
             \/ /\ Commit(w, conn[c].pending)
                /\ Pop(w, run[w].pc, "error")
                /\ UNCHANGED broke
    /\ UNCHANGED driver

\* Mutant: an exception confirms what was done before it.
UnwindTransactionCommits(w) ==
    LET c == Last(run[w].stack).conn IN
    /\ Unwinding(w) /\ Within(w, {"transaction"})
    /\ Commit(w, conn[c].pending)
    /\ conn' = NoTx(c)
    /\ Pop(w, run[w].pc, run[w].mode)
    /\ UNCHANGED <<driver, broke>>

\* Mutant: nothing catches the exception.
UnwindTransactionForgets(w) ==
    /\ Unwinding(w) /\ Within(w, {"transaction"})
    /\ Pop(w, run[w].pc, run[w].mode)
    /\ UNCHANGED <<driver, conn, applied, broke>>

\* catch (...): abort, ROLLBACK or rollback.
UnwindTransaction(w) ==
    /\ Unwinding(w) /\ Within(w, {"transaction"})
    /\ conn' = NoTx(Last(run[w].stack).conn)
    /\ Pop(w, run[w].pc, run[w].mode)
    /\ UNCHANGED <<driver, applied, broke>>

--------------------------------------------------------------------------------
(* tag_query *)

\* The transactions of w on connection c; the stack with f done to them.
OnConn(w, c) == {i \in Frames(w, "transaction") : run[w].stack[i].conn = c}

\* Whether the content runs: for a row (bound: a result has one at most), which an
\* update may return as well; in dbp_sqlite also when the statement has no rows and
\* sqlite3_changes is positive; in dbp_redis for any reply but NIL.
Runs(row, changes) == row \/ (driver = "sqlite" /\ changes)

\* What sqlite3_changes says after a statement: an update counts the rows that it
\* changed, none perhaps, and no SELECT resets that.
Changes(c, stmt) ==
    IF driver = "sqlite" /\ stmt = "update" THEN BOOLEAN ELSE {conn[c].changes}

\* Mutant: a query commits what it did although a transaction tag is around it.
QueryCommits(w) ==
    LET c == Target(w, Instr(w).id)
        p == run[w].pc
    IN
    /\ At(w, "query")
    /\ c # NoConn
    /\ conn[c].state = "open"
    /\ Goes(w, [run[w] EXCEPT !.pc = EndOf(run[w].script, p) + 1,
                  !.stack = [k \in DOMAIN run[w].stack |->
                    IF Instr(w).stmt = "update" /\ k \in OnConn(w, c)
                      THEN [run[w].stack[k] EXCEPT !.done = @ \cup {p}]
                      ELSE run[w].stack[k]]])
    /\ Commit(w, IF Instr(w).stmt = "update" THEN {p} ELSE {})
    /\ UNCHANGED <<driver, conn, broke>>

\* The statement succeeds, in the transaction of the connection or on its own.
\* dbp_pgsql prepares it on the connection of its database and invokes it in the
\* innermost transaction: the connection of that one has to be the same.
Query(w) ==
    LET i == Instr(w)
        c == Target(w, i.id)
        p == run[w].pc
        update == i.stmt = "update"
        stack == [k \in DOMAIN run[w].stack |->
                    IF update /\ k \in OnConn(w, c)
                      THEN [run[w].stack[k] EXCEPT !.done = @ \cup {p}]
                      ELSE run[w].stack[k]]
    IN
    /\ At(w, "query")
    /\ c # NoConn /\ c = Visible(w, i.id)
    /\ conn[c].state = "open" \/ (conn[c].tx = "none" /\ Usable(conn[c]))
    /\ conn[c].tx # "aborted"
    /\ \E row \in BOOLEAN, changes \in Changes(c, i.stmt) :
         /\ Goes(w, IF Runs(row, changes)
                      THEN [run[w] EXCEPT !.pc = p + 1,
                              !.stack = Append(stack, NewFrame(w, "query", NoConn))]
                      ELSE [run[w] EXCEPT !.pc = EndOf(run[w].script, p) + 1,
                              !.stack = stack])
         /\ conn' = [conn EXCEPT ![c].state = "open", ![c].changes = changes,
                       ![c].pending = IF update /\ conn[c].tx = "open" THEN @ \cup {p} ELSE @]
    /\ IF update /\ conn[c].tx = "none" THEN Commit(w, {p}) ELSE UNCHANGED applied
    /\ UNCHANGED <<driver, broke>>

\* There is no such database, or the statement is not known in the transaction of
\* another one; or it fails.  Then the transaction of the connection is lost with
\* it on a server that is PostgreSQL, SQLite may roll back; an update on its own
\* may have been done.  tag_query turns the exception into one that no retry
\* catches.
QueryFails(w) ==
    LET c == Target(w, Instr(w).id) IN
    /\ At(w, "query")
    /\ IF c = NoConn \/ c # Visible(w, Instr(w).id)
         THEN UNCHANGED <<conn, applied>> /\ Throw(w)
         ELSE /\ \E st \in {conn[c].state} \cup (IF driver = "sqlite" THEN {} ELSE {"dead"}) :
                   \/ /\ conn[c].tx = "none"
                      /\ conn' = [conn EXCEPT ![c].state = st]
                      /\ \/ UNCHANGED applied
                         \/ Instr(w).stmt = "update" /\ st = "dead" /\ conn[c].state = "open"
                              /\ Commit(w, {run[w].pc})
                   \/ /\ conn[c].tx # "none"
                      /\ \/ driver # "pgsql" /\ st # "dead"
                              /\ conn' = [conn EXCEPT ![c].state = st]
                         \/ driver = "sqlite" /\ conn' = NoTx(c)
                         \/ driver # "sqlite"
                              /\ conn' = [conn EXCEPT ![c].state = st, ![c].tx = "aborted",
                                                      ![c].pending = {}]
                      /\ UNCHANGED applied
              /\ Goes(w, [run[w] EXCEPT !.mode = "error",
                            !.stack = [k \in DOMAIN run[w].stack |->
                               [run[w].stack[k] EXCEPT !.failed = @ \/ k \in OnConn(w, c)]]])
    /\ UNCHANGED <<driver, broke>>

--------------------------------------------------------------------------------
(* The other ends *)

\* The content of a query, a nested database tag or a dbp:try has ended.
LeavePlain(w) ==
    /\ At(w, "end") /\ Within(w, {"query", "nested", "try"})
    /\ Pop(w, run[w].pc + 1, "run")
    /\ UNCHANGED <<driver, conn, applied, broke>>

\* An exception passes a query or a nested database tag, and ends at a dbp:try.
UnwindPlain(w) ==
    /\ Unwinding(w)
    /\ \/ Within(w, {"query", "nested"}) /\ Pop(w, run[w].pc, run[w].mode)
       \/ /\ Within(w, {"try"})
          /\ Pop(w, EndOf(run[w].script, Last(run[w].stack).at) + 1, "run")
    /\ UNCHANGED <<driver, conn, applied, broke>>

Step(w) ==
    \/ Finish(w) \/ EnterTry(w) \/ EnterDatabase(w) \/ Connect(w) \/ ConnectFails(w)
    \/ LeaveDatabase(w) \/ UnwindDatabase(w) \/ Reconnect(w)
    \/ BeginTransaction(w) \/ BeginTransactionFails(w) \/ CommitTransaction(w)
    \/ CommitFails(w) \/ UnwindTransaction(w) \/ Query(w) \/ QueryFails(w)
    \/ LeavePlain(w) \/ UnwindPlain(w)

Next == \E w \in Workers : Start(w) \/ Step(w)

\* A worker goes on with its script; no request need arrive.
Fairness == \A w \in Workers : WF_vars(Step(w))

Spec == Init /\ [][Next]_vars /\ Fairness

--------------------------------------------------------------------------------
(* Properties *)

\* A transaction tag runs on a connection that its worker still leases.
TransactionLeased ==
    \A w \in Workers : \A i \in Frames(w, "transaction") :
        \E j \in Frames(w, "database") :
            j < i /\ run[w].stack[j].conn = run[w].stack[i].conn

\* A pointer to a connection that the content of a database tag finds in the
\* context, also through an open transaction, is that of an object which this
\* worker has leased, for this data source, which nobody else uses, and which has
\* not been freed by a reconnect.
LeaseAlive ==
    /\ TransactionLeased
    /\ \A w \in Workers : \A i \in Frames(w, "database") :
        LET f == run[w].stack[i] IN
        /\ conn[f.conn].owner = w /\ conn[f.conn].id = f.id
        /\ run[w].mode = "run" => conn[f.conn].state # "closed"
        /\ \A j \in Frames(w, "database") : run[w].stack[j].conn = f.conn => i = j

\* A connection that goes back to the pool carries no transaction into the next
\* request, however the one before ended.
IdleClean == \A c \in Conns :
    conn[c].owner = NoWorker => conn[c].tx = "none" /\ conn[c].pending = {}

\* While no statement of a transaction has failed, the server keeps exactly what
\* the tag has done in it: nothing is committed early, by a nested tag or by a
\* query that would commit on its own, and nothing of another tag is in it.
TransactionWhole ==
    \A w \in Workers : \A i \in Frames(w, "transaction") :
        LET f == run[w].stack[i] IN
        ~f.failed /\ conn[f.conn].state = "open" =>
            conn[f.conn].tx = "open" /\ conn[f.conn].pending = f.done

\* The next step of w sends a statement on the connection of its transaction tag i.
SendsIn(w, i) ==
    i \in Frames(w, "transaction") /\ At(w, "query")
      /\ Target(w, Instr(w).id) = run[w].stack[i].conn

\* The updates that succeed in a transaction tag are committed by its end, together,
\* or are not committed: the end of the tag commits all of them or none, none of them
\* only when a statement in the tag has failed or an exception leaves it, all of them
\* only when the content has ended.  No statement commits on its own before that,
\* though a query does so outside of a transaction; except that SQLite may have rolled
\* back by itself when a statement failed, and then commits what follows in the tag.
AllOrNothing ==
    [][\A w \in Workers :
         LET s == run[w].stack
             f == Last(s)
         IN
         /\ s # <<>> /\ f.kind = "transaction" /\ Len(run'[w].stack) < Len(s) =>
               \/ /\ applied'[w] = applied[w]
                  /\ f.failed \/ run'[w].mode # "run" \/ f.done = {}
               \/ /\ applied'[w] = [p \in Positions |->
                        applied[w][p] + (IF p \in f.done THEN 1 ELSE 0)]
                  /\ run[w].mode = "run"
         /\ \A i \in DOMAIN s : SendsIn(w, i) =>
               applied'[w] = applied[w] \/ (driver = "sqlite" /\ s[i].failed)]_vars

\* mod_odbc.ru.xml, of odbc:transaction: if nested tags raised no exception, or it was
\* caught, the transaction is confirmed when the tag is left: what succeeded in it has
\* been committed.
ConfirmedWhenCaught ==
    [][\A w \in Workers :
         LET s == run[w].stack
             f == Last(s)
         IN
         s # <<>> /\ f.kind = "transaction" /\ Len(run'[w].stack) < Len(s)
           /\ run'[w].mode = "run" =>
              \A p \in f.done : applied'[w][p] = applied[w][p] + 1]_vars

\* How often content can be executed inside n database tags, with three attempts
\* in each of them.
Repeats[n \in Nat] == IF n = 0 THEN 1 ELSE 3 * Repeats[n - 1]

\* A script whose connections did not break makes each of its updates once:
\* a database tag repeats its content for pqxx::broken_connection and for nothing
\* else, three times at most each.  (A query repeats its content for each row;
\* here there is one at most.)
RepeatedOnlyWhenBroken ==
    \A w \in Workers, p \in Positions :
        applied[w][p] > 1 => broke[w] /\ applied[w][p] <= Repeats[Cardinality(Ids)]

\* Every request comes to an end: the reconnecting stops.
Ends == \A w \in Workers : run[w].mode # "idle" ~> run[w].mode = "idle"

================================================================================
