----------------------------- MODULE DuckStore -----------------------------
(***************************************************************************)
(* internal/store/duckdb.go: the durable backend.  A run is a row of runs  *)
(* and rows of run_params, run_metrics and run_capture_attempted.  Record  *)
(* and Update hold d.mu, read the run with one query per table and then    *)
(* write in one transaction; Get and List run the same queries without the *)
(* mutex, each query on a snapshot of its own.  Queries and transactions   *)
(* borrow a connection from a bounded pool.  The process may die at any    *)
(* step; what is committed survives.                                       *)
(***************************************************************************)
EXTENDS StoreRules

CONSTANTS
    Goroutines,     \* the callers of the store
    Posts,          \* <<id, run>> that handlers ask Record to store
    Times,          \* what time.Now() may answer
    MaxConns        \* SetMaxOpenConns

\* The rows of runs.
Rows == [experiment : Experiments \union {Blank}, dirty : BOOLEAN,
         config : Configs \union {Empty}, fingerprint : Fingerprints,
         status : Statuses \union {UnknownStatus}, startedAt : Nat \ {0},
         endedAt : Nat \union {None}, prov : [ProvFields -> ProvValues],
         declared : BOOLEAN, client : Clients \union {Empty}]

ASSUME DuckAssumption ==
    /\ Posts \subseteq RunIDs \X Run
    /\ \A post \in Posts : post[2].fingerprint = Compute(post[2]) /\ Validate(post[2])
    /\ Times \subseteq Nat \ {0}
    /\ MaxConns \in Nat \ {0}
    /\ "free" \notin Goroutines
    /\ NoRun \notin Rows

VARIABLES
    db,             \* the committed tables, by id
    mu,             \* the goroutine that holds d.mu, or "free"
    call,           \* goroutine -> the call it is in and its locals
    conns,          \* goroutines whose transaction holds a connection
    acked,          \* history: <<id, run>> of every Record that returned nil
    past            \* history: id -> every version of the run there was

vars == <<db, mu, call, conns, acked, past>>

-----------------------------------------------------------------------------
(* Tables.                                                                 *)

NoRows == [k \in {} |-> k]

\* What the tables hold for one id: the row of runs, or NoRun, and the rows
\* of the side tables.
Absent == [row |-> NoRun, params |-> NoRows, metrics |-> NoRows, attempted |-> {}]

\* captureColumns, and the scalar columns of INSERT INTO runs.
RowOf(r) ==
    [experiment  |-> r.experiment,  dirty     |-> r.dirty,
     config      |-> r.config,      fingerprint |-> r.fingerprint,
     status      |-> r.status,      startedAt |-> r.startedAt,
     endedAt     |-> r.endedAt,     prov      |-> r.prov,
     declared    |-> r.capture # None,
     client      |-> IF r.capture = None THEN Empty ELSE r.capture.client]

\* loadKV makes the map when it meets the first row: no rows are a nil map.
LoadKV(rows) == IF DOMAIN rows = {} THEN None ELSE rows

\* get, and hydrate for each run of a page: a run out of what the queries of
\* its tables returned.
Assemble(t) ==
    [experiment  |-> t.row.experiment,
     dirty       |-> t.row.dirty,
     config      |-> t.row.config,
     params      |-> LoadKV(t.params),
     fingerprint |-> t.row.fingerprint,
     status      |-> t.row.status,
     startedAt   |-> t.row.startedAt,
     endedAt     |-> t.row.endedAt,
     prov        |-> t.row.prov,
     metrics     |-> LoadKV(t.metrics),
     capture     |-> IF t.row.declared
                     THEN [client |-> t.row.client, names |-> t.attempted, sorted |-> TRUE]
                     ELSE None]

Stored(id) == IF db[id].row = NoRun THEN NoRun ELSE Assemble(db[id])

-----------------------------------------------------------------------------
(* Calls.                                                                  *)

\* op is read (Get, List), record or update; ids are the runs it is about,
\* input the run to record, the patch or the status to filter by; seen is what
\* its queries returned, write the run to write, tx the transaction's view of
\* the tables.
Idle == [pc |-> "idle", op |-> "none", ids |-> {}, input |-> None,
         seen |-> [id \in {} |-> Absent], write |-> NoRun, tx |-> Absent, ok |-> FALSE]

Goto(c, pc) == call' = [call EXCEPT ![c].pc = pc]

\* The id a Record or an Update is about.
Target(c) == CHOOSE id \in call[c].ids : TRUE

NewCall(c, pc, op, ids, input) ==
    /\ call[c].pc \in {"idle", "answered"}
    /\ call' = [call EXCEPT ![c] = [Idle EXCEPT !.pc = pc, !.op = op, !.ids = ids, !.input = input]]
    /\ UNCHANGED <<db, mu, conns, acked, past>>

\* Get of one id, or List of the runs that columns which never change select,
\* with or without a filter on status.
CallRead(c) ==
    \E ids \in (SUBSET RunIDs) \ {{}}, status \in {None, Running, Succeeded} :
        NewCall(c, "row", "read", ids, status)

\* Record has validated the run and put its capture declaration in order.
CallRecord(c) ==
    \E post \in Posts :
        NewCall(c, "lock", "record", {post[1]},
                [post[2] EXCEPT !.capture = NormalizeCapture(@)])

CallUpdate(c) ==
    \E id \in RunIDs, p \in Patches : NewCall(c, "lock", "update", {id}, p)

\* Fault: the mutex is not waited for.
LockAnyway(c) ==
    /\ call[c].pc = "lock"
    /\ mu' = c
    /\ Goto(c, "row")
    /\ UNCHANGED <<db, conns, acked, past>>

\* d.mu.Lock()
Lock(c) ==
    /\ call[c].pc = "lock"
    /\ mu = "free"
    /\ mu' = c
    /\ Goto(c, "row")
    /\ UNCHANGED <<db, conns, acked, past>>

\* A query waits for a connection and gives it back when its rows are read.
Connected == Cardinality(conns) < MaxConns

\* The WHERE of the query of runs.
Selected(c, id) ==
    /\ id \in call[c].ids
    /\ db[id].row # NoRun
    /\ call[c].op = "read" /\ call[c].input # None => db[id].row.status = call[c].input

\* Fault: the rows stay open, and with them the connection.
QueryRowKeepingConn(c) ==
    /\ call[c].pc = "row"
    /\ Connected
    /\ conns' = conns \union {c}
    /\ LET found == {id \in RunIDs : Selected(c, id)}
       IN  call' = [call EXCEPT
             ![c].seen = [id \in found |-> [Absent EXCEPT !.row = db[id].row]],
             ![c].write = IF call[c].op = "record" THEN call[c].input ELSE @,
             ![c].pc = IF found # {} THEN "params"
                       ELSE CASE call[c].op = "read"   -> "answered"
                              [] call[c].op = "record" -> "begin"
                              [] call[c].op = "update" -> "return"]
    /\ UNCHANGED <<db, mu, acked, past>>

\* SELECT ... FROM runs.  Without a row, Record goes on to insert one and
\* every other call is over.
QueryRow(c) ==
    /\ call[c].pc = "row"
    /\ Connected
    /\ LET found == {id \in RunIDs : Selected(c, id)}
       IN  call' = [call EXCEPT
             ![c].seen = [id \in found |-> [Absent EXCEPT !.row = db[id].row]],
             ![c].write = IF call[c].op = "record" THEN call[c].input ELSE @,
             ![c].pc = IF found # {} THEN "params"
                       ELSE CASE call[c].op = "read"   -> "answered"
                              [] call[c].op = "record" -> "begin"
                              [] call[c].op = "update" -> "return"]
    /\ UNCHANGED <<db, mu, conns, acked, past>>

\* One query of a side table for the runs found.
QuerySide(c, table, next) ==
    /\ call[c].pc = table
    /\ Connected
    /\ call' = [call EXCEPT
          ![c].seen = [id \in DOMAIN @ |-> [@[id] EXCEPT ![table] = db[id][table]]],
          ![c].pc = next]
    /\ UNCHANGED <<db, mu, conns, acked, past>>

QueryParams(c)  == QuerySide(c, "params", "metrics")
QueryMetrics(c) == QuerySide(c, "metrics", "attempted")
QueryAttempted(c) ==
    QuerySide(c, "attempted", IF call[c].op = "read" THEN "answered" ELSE "decide")

\* A query, a scan or BeginTx fails, a cancelled request's included: the error
\* goes to the caller, and a write lets go of the mutex.
QueryFails(c) ==
    /\ call[c].pc \in {"row", "params", "metrics", "attempted", "begin"}
    /\ call' = IF call[c].op = "read" THEN [call EXCEPT ![c] = Idle]
               ELSE [call EXCEPT ![c].pc = "return"]
    /\ UNCHANGED <<db, mu, conns, acked, past>>

Existing(c) == Assemble(call[c].seen[Target(c)])

\* Record found a run: runsEqual says whether this is a retry.
DecideRecord(c) ==
    /\ call[c].pc = "decide"
    /\ call[c].op = "record"
    /\ call' = [call EXCEPT ![c].pc = "return", ![c].ok = Existing(c) = call[c].input]
    /\ UNCHANGED <<db, mu, conns, acked, past>>

DecideUpdate(c) ==
    /\ call[c].pc = "decide"
    /\ call[c].op = "update"
    /\ \E now \in Times :
          LET result == ApplyPatch(Existing(c), call[c].input, now)
          IN  call' = [call EXCEPT ![c].write = result.run,
                         ![c].pc = IF result.err = "nil" THEN "begin" ELSE "return"]
    /\ UNCHANGED <<db, mu, conns, acked, past>>

-----------------------------------------------------------------------------
(* The transaction.                                                        *)

\* BeginTx: a connection for as long as the transaction lasts.
Begin(c) ==
    /\ call[c].pc = "begin"
    /\ Connected
    /\ conns' = conns \union {c}
    /\ call' = [call EXCEPT ![c].pc = "exec_row", ![c].tx = db[Target(c)]]
    /\ UNCHANGED <<db, mu, acked, past>>

\* Fault: the statement runs on the database, not in the transaction.
ExecRowAutocommit(c) ==
    /\ call[c].pc = "exec_row"
    /\ db' = [db EXCEPT ![Target(c)].row = RowOf(call[c].write)]
    /\ call' = [call EXCEPT ![c].pc = "exec_side", ![c].tx.row = RowOf(call[c].write)]
    /\ UNCHANGED <<mu, conns, acked, past>>

\* INSERT INTO runs, or UPDATE of the columns a patch may change.
ExecRow(c) ==
    /\ call[c].pc = "exec_row"
    /\ LET new == RowOf(call[c].write)
       IN  call' = [call EXCEPT ![c].pc = "exec_side",
             ![c].tx.row = IF call[c].op = "record" THEN new
                           ELSE [@ EXCEPT !.status = new.status, !.endedAt = new.endedAt,
                                          !.prov = new.prov]]
    /\ UNCHANGED <<db, mu, conns, acked, past>>

\* The side tables: all the entries of a new run, or an upsert of the metrics
\* the patch names.
ExecSide(c) ==
    /\ call[c].pc = "exec_side"
    /\ LET r == call[c].write
       IN  call' = [call EXCEPT ![c].pc = "commit",
             ![c].tx = IF call[c].op = "record"
                       THEN [@ EXCEPT !.params = Entries(r.params),
                                      !.metrics = Entries(r.metrics),
                                      !.attempted = IF r.capture = None THEN {}
                                                    ELSE r.capture.names]
                       ELSE [@ EXCEPT !.metrics = Overlay(Entries(call[c].input.metrics),
                                                          call[c].tx.metrics)]]
    /\ UNCHANGED <<db, mu, conns, acked, past>>

\* Fault: the function returns without committing, and Rollback undoes it all.
CommitForgotten(c) ==
    /\ call[c].pc = "commit"
    /\ conns' = conns \ {c}
    /\ call' = [call EXCEPT ![c].pc = "return", ![c].ok = TRUE]
    /\ UNCHANGED <<db, mu, acked, past>>

Commit(c) ==
    /\ call[c].pc = "commit"
    /\ db' = [db EXCEPT ![Target(c)] = call[c].tx]
    /\ past' = [past EXCEPT ![Target(c)] = @ \union {Assemble(call[c].tx)}]
    /\ conns' = conns \ {c}
    /\ call' = [call EXCEPT ![c].pc = "return", ![c].ok = TRUE]
    /\ UNCHANGED <<mu, acked>>

\* Fault: the transaction is left open.
RollbackForgotten(c) ==
    /\ call[c].pc \in {"exec_row", "exec_side", "commit"}
    /\ Goto(c, "return")
    /\ UNCHANGED <<db, mu, conns, acked, past>>

\* A statement or the commit fails; the deferred Rollback undoes the rest.
Rollback(c) ==
    /\ call[c].pc \in {"exec_row", "exec_side", "commit"}
    /\ conns' = conns \ {c}
    /\ Goto(c, "return")
    /\ UNCHANGED <<db, mu, acked, past>>

\* The deferred Unlock, and the answer.
Return(c) ==
    /\ call[c].pc = "return"
    /\ mu' = "free"
    /\ acked' = IF call[c].op = "record" /\ call[c].ok
                THEN acked \union {<<Target(c), call[c].input>>}
                ELSE acked
    /\ call' = [call EXCEPT ![c] = Idle]
    /\ UNCHANGED <<db, conns, past>>

\* The process dies and is started again: NewDuckDB finds nothing to migrate.
Crash ==
    /\ mu' = "free"
    /\ conns' = {}
    /\ call' = [c \in Goroutines |-> Idle]
    /\ UNCHANGED <<db, acked, past>>

-----------------------------------------------------------------------------

Init ==
    /\ db = [id \in RunIDs |-> Absent]
    /\ mu = "free"
    /\ call = [c \in Goroutines |-> Idle]
    /\ conns = {}
    /\ acked = {}
    /\ past = [id \in RunIDs |-> {}]

\* What a goroutine does in a call while nothing fails, apart from waiting for
\* the lock.
Step(c) ==
    \/ QueryRow(c)
    \/ QueryParams(c)
    \/ QueryMetrics(c)
    \/ QueryAttempted(c)
    \/ DecideRecord(c)
    \/ DecideUpdate(c)
    \/ Begin(c)
    \/ ExecRow(c)
    \/ ExecSide(c)
    \/ Commit(c)
    \/ Return(c)

Next ==
    \/ \E c \in Goroutines : CallRead(c) \/ CallRecord(c) \/ CallUpdate(c)
    \/ \E c \in Goroutines : Lock(c) \/ Step(c)
    \/ \E c \in Goroutines : QueryFails(c) \/ Rollback(c)
    \/ Crash

(***************************************************************************)
(* Fairness: a goroutine that can go on does, a waiter is not overtaken    *)
(* for ever (sync.Mutex hands itself to a starving waiter; database/sql    *)
(* gives a connection that comes back to one of those that wait for it,    *)
(* picked at random, so nobody is passed over without end).  That anything *)
(* fails is not counted on.                                                *)
(***************************************************************************)
Spec == Init /\ [][Next]_vars /\ \A c \in Goroutines : SF_vars(Lock(c)) /\ SF_vars(Step(c))

-----------------------------------------------------------------------------
(* Properties.                                                             *)

Tables == [row       : Rows \union {NoRun},
           params    : ParamMaps,
           metrics   : MetricMaps,
           attempted : SUBSET CaptureFields]

Writing == {"row", "params", "metrics", "attempted", "decide", "begin", "exec_row",
            "exec_side", "commit", "return"}

\* The tables hold rows of their types, and the mutex and the connections are
\* held by exactly the goroutines whose code is between taking and releasing.
TypeOK ==
    /\ db \in [RunIDs -> Tables]
    /\ mu \in Goroutines \union {"free"}
    /\ \A c \in Goroutines :
          /\ call[c].tx \in Tables
          /\ mu = c <=> call[c].op # "read" /\ call[c].pc \in Writing
          /\ c \in conns <=> call[c].pc \in {"exec_row", "exec_side", "commit"}
    /\ Cardinality(conns) <= MaxConns
    /\ acked \subseteq RunIDs \X Run

\* The map of runs that callers see, and the runs Record may be asked to store.
Ledgered == [id \in RunIDs |-> IF Stored(id) = NoRun THEN NoRun ELSE Canonical(Stored(id))]

Sent == {[post[2] EXCEPT !.capture = NormalizeCapture(@)] : post \in Posts}

Abstract == INSTANCE Ledger WITH runs <- Ledgered, Recordable <- Sent

(***************************************************************************)
(* The committed tables behave like the map of runs a Store promises: no   *)
(* write is lost, mixed with another or seen half done, whatever fails or  *)
(* crashes and however calls interleave (d.mu and the transaction).        *)
(***************************************************************************)
ImplementsLedger == Abstract!Spec

(***************************************************************************)
(* A Record that returned nil is durable: the run is there with the        *)
(* identity, start time, declaration and metrics it was recorded with,     *)
(* after any crash (tx.Commit before the return).                          *)
(***************************************************************************)
AckedDurable ==
    \A a \in acked :
        /\ Stored(a[1]) # NoRun
        /\ LET r == Canonical(a[2])
               s == Canonical(Stored(a[1]))
           IN  /\ IdentityOf(s) = IdentityOf(r)
               /\ s.fingerprint = r.fingerprint
               /\ s.startedAt = r.startedAt
               /\ s.capture = r.capture
               /\ DOMAIN r.metrics \subseteq DOMAIN s.metrics

\* What a finished read returned, and the runs it is about.
Answered(c) == call[c].pc = "answered"
Answer(c)   == [id \in DOMAIN call[c].seen |-> Assemble(call[c].seen[id])]

(***************************************************************************)
(* The queries of a read see different snapshots, yet a run they return is *)
(* one that could be recorded and its parameters and declaration belong to *)
(* its row: the fingerprint is the hash of what was returned with it.      *)
(***************************************************************************)
ReadSound ==
    \A c \in Goroutines : Answered(c) =>
        \A id \in DOMAIN Answer(c) :
            /\ Validate(Answer(c)[id])
            /\ Answer(c)[id].fingerprint = Compute(Answer(c)[id])
            /\ Answer(c)[id].capture = Stored(id).capture

(***************************************************************************)
(* A run a read returns as finished is returned exactly as it is stored,   *)
(* then and for ever: the row is queried before the metrics, and a         *)
(* finished run's metrics are final.  Spread and compare rest on this.     *)
(***************************************************************************)
FinishedReadExact ==
    \A c \in Goroutines : Answered(c) =>
        \A id \in DOMAIN Answer(c) :
            Terminal(Answer(c)[id].status) => Answer(c)[id] = Stored(id)

(***************************************************************************)
(* Every call returns: no error path keeps the mutex, and no goroutine     *)
(* waits for a second connection while it holds one.                       *)
(***************************************************************************)
CallsReturn ==
    \A c \in Goroutines :
        call[c].pc \notin {"idle", "answered"} ~> call[c].pc \in {"idle", "answered"}

\* duckdb.go:36-38: reads "rely on DuckDB's MVCC snapshot isolation to never
\* observe a write's partial effect", so each returns a version there was.
ReadIsVersion ==
    \A c \in Goroutines : Answered(c) =>
        \A id \in DOMAIN Answer(c) : Answer(c)[id] \in past[id]

\* store.go:20-22: "Recording and updating are idempotent for a value that
\* matches what is already stored".  A run no patch has changed since it was
\* recorded is found equal to the run that was recorded.
RetryAccepted ==
    \A a \in acked : Cardinality(past[a[1]]) = 1 => Stored(a[1]) = a[2]

=============================================================================
