------------------------------- MODULE Server -------------------------------
(***************************************************************************)
(* The server process (cmd/runledger) with its routes, bearer tokens,      *)
(* instrumentation and metrics registry (internal/api, internal/metrics),  *)
(* and the rlctl commands (cmd/rlctl) that call it.                        *)
(*                                                                         *)
(* Each caller is one process that makes one request.  A request and its   *)
(* caller move independently: the caller may stop waiting and the handler  *)
(* goes on.  The store does what Ledger promises, or fails; the handlers   *)
(* meet in the registry's mutex, which a scrape holds while it lists the   *)
(* store and writes its answer.                                            *)
(***************************************************************************)
EXTENDS StoreRules, Bags

CONSTANTS
    Callers,        \* client processes, each of which makes one request
    Sends,          \* caller -> the requests it may make
    Token,          \* caller -> RUNLEDGER_TOKEN in its environment: none, read, write
    Clock,          \* caller -> the instant it reads off its clock
    Given,          \* the ids that callers choose themselves
    Old,            \* one of them, of a run recorded before the server started
    Limit,          \* rlctl list's --limit
    MaxFaults       \* bound: failures and panics of the store

\* rlctl record, start, finish (fail is a finish), show, and list as it is without
\* a filter or a cursor; post is a client's POST of a run that has a run_id.  The
\* others are what monitoring and strangers send.
Writing == {"record", "post", "start", "finish"}
Request == [op : Writing \union {"show", "list", "metrics", "readyz", "healthz", "no_route",
                                "other_method", "malformed"},
            id : RunIDs \union {None}, status : Statuses \union {UnknownStatus, None}]

\* An id the server assigns is named after the caller it was assigned for, and an
\* end time tells whose clock it was read off.
ASSUME ServerAssumption ==
    /\ IsFiniteSet(Callers) /\ "free" \notin Callers
    /\ IsFiniteSet(Given) /\ Given \cap Callers = {} /\ Old \in Given
    /\ RunIDs = Callers \union Given
    /\ Limit \in Nat \ {0}
    /\ Sends \in [Callers -> SUBSET Request]
    /\ Token \in [Callers -> {"none", "read", "write"}]
    /\ Clock \in [Callers -> Nat \ {0, 1}]
    /\ \A b, c \in Callers : Clock[b] = Clock[c] => b = c
    /\ MaxFaults \in Nat

\* cmdRecord validates the run, and a post is taken to be valid; cmdStart and
\* finishRun name a run, and only finish has a status that is not looked at.
ASSUME SendsAssumption ==
    \A c \in Callers : \A r \in Sends[c] :
        /\ r.op \in {"record", "post"} => r.status \in Statuses
        /\ r.op = "start" => r.status = Running
        /\ r.op = "finish" => r.status # None
        /\ r.op \in {"post", "start", "finish", "show"} => r.id \in RunIDs

\* cmdRecord has a project, a commit and a host.
ASSUME RunAssumption ==
    /\ Experiments # {} /\ Blank \notin Experiments
    /\ \E v \in ProvValues : v # Empty
    /\ "rlctl" \in Clients

VARIABLES
    auth,           \* Server.auth: the tokens that are set
    proc,           \* main: its phase and, once it is over, its exit code
    closed,         \* whether st.Close() was called
    runs,           \* the store
    request,        \* caller -> the request it makes and how far it is served
    exit,           \* caller -> how the command ended: none, ok, failed
    mu,             \* Registry.mu: the caller whose request holds it, or "free"
    recorded,       \* Registry.runsRecorded: status -> count
    storeErrors,    \* Registry.storeErrors: a bag of kinds
    requests,       \* Registry.reqCount: a bag of <<route, code>>
    faults          \* faults so far

vars == <<auth, proc, closed, runs, request, exit, mu, recorded, storeErrors,
          requests, faults>>

registry == <<mu, recorded, storeErrors, requests>>
process  == <<auth, proc, closed>>

-----------------------------------------------------------------------------
(* rlctl: what each command sends.                                         *)

Untouched ==
    [experiment |-> None, dirty |-> None, config |-> None, params |-> None,
     status |-> None, endedAt |-> None, prov |-> [f \in {} |-> f], metrics |-> None]

\* cmdRecord's run as api.record stamps it.
NewRun(status) ==
    LET e == CHOOSE x \in Experiments : TRUE
        i == [experiment |-> e, dirty |-> FALSE, config |-> Empty, params |-> None]
    IN  [experiment |-> e, dirty |-> FALSE, config |-> Empty, params |-> None,
         fingerprint |-> Compute(i), status |-> status, startedAt |-> 1, endedAt |-> None,
         prov |-> [f \in ProvFields |-> CHOOSE v \in ProvValues : v # Empty],
         metrics |-> None,
         capture |-> [client |-> "rlctl", names |-> {"host"}, sorted |-> TRUE]]

\* The run a writing request is about: the server names a new one.
Target(c) == IF request[c].op = "record" THEN c ELSE request[c].id

\* cmdStart's and finishRun's body.
PatchOf(c) ==
    LET r == request[c]
    IN  [Untouched EXCEPT !.status = r.status,
                          !.endedAt = IF r.op = "finish" THEN Clock[c] ELSE None]

-----------------------------------------------------------------------------
(* internal/api: authentication and the handlers' answers.                 *)

Writes(op) == op \in Writing \union {"malformed"}

\* The routes without requireAuth, and what no route matches.
Unguarded(op) == op \in {"healthz", "readyz", "metrics", "no_route", "other_method"}

\* Auth.allows, for a token that stands for its kind.
Allows(write, token) == token \in auth /\ (write => token = "write")

\* requireAuth.
AuthCode(op, token) ==
    IF Unguarded(op) \/ auth = {} \/ Allows(Writes(op), token) THEN 200
    ELSE IF Writes(op) /\ Allows(FALSE, token) THEN 403
    ELSE 401

\* What a handler answers, what it tells the registry (one of RecordRun and
\* StoreError, or nothing), what it reads and what it leaves in the store.
Answer(code, count, body, stored) ==
    [code |-> code, count |-> count, body |-> body, stored |-> stored]

Error(code, kind) == Answer(code, [call |-> "StoreError", label |-> kind], None, runs)

Plain(code, body) == Answer(code, [call |-> "none", label |-> None], body, runs)

\* Fault: an id that is taken is recorded again.
RecordOver(c, failing) ==
    LET run == NewRun(request[c].status)
    IN  IF failing THEN Error(400, "invalid")
        ELSE Answer(201, [call |-> "RecordRun", label |-> run.status], run,
                    [runs EXCEPT ![Target(c)] = run])

\* record: an id that is taken is a conflict, unless by the very same run; any
\* other failure of the store is a 400.
ServeRecord(c, failing) ==
    LET run == NewRun(request[c].status)
    IN  IF failing THEN Error(400, "invalid")
        ELSE IF runs[Target(c)] \notin {NoRun, run} THEN Error(409, "conflict")
        ELSE Answer(201, [call |-> "RecordRun", label |-> run.status], run,
                    [runs EXCEPT ![Target(c)] = run])

\* The error cases of update.
UpdateError(err) ==
    CASE err = "ErrNotFound"                                  -> Error(404, "not_found")
      [] err \in {"ErrIdentityConflict", "ErrIllegalTransition"} -> Error(409, "conflict")
      [] OTHER                                                -> Error(400, "invalid")

ServeUpdate(c, failing) ==
    LET id     == request[c].id
        result == IF failing THEN Refused("failure")
                  ELSE IF runs[id] = NoRun THEN Refused("ErrNotFound")
                  ELSE ApplyPatch(runs[id], PatchOf(c), Clock[c])
    IN  IF result.err # "nil" THEN UpdateError(result.err)
        ELSE Answer(200, [call |-> "RecordRun", label |-> result.run.status], result.run,
                    [runs EXCEPT ![id] = result.run])

ServeGet(c, failing) ==
    IF failing THEN Error(500, "internal")
    ELSE IF runs[request[c].id] = NoRun THEN Error(404, "not_found")
    ELSE Plain(200, runs[request[c].id])

Stored == {id \in RunIDs : runs[id] # NoRun}

\* What the first page may be: which runs come first depends on the start times
\* their clients gave, and on random ids.
Pages ==
    {page \in SUBSET Stored :
        IF Cardinality(Stored) <= Limit THEN page = Stored ELSE Cardinality(page) = Limit}

\* list: the page, and a cursor if there are more.
ServeList(failing, page) ==
    IF failing THEN Error(500, "internal")
    ELSE Plain(200, [page |-> page, more |-> Cardinality(Stored) > Limit])

ServeReadyz(failing) == IF failing THEN Error(503, "readyz") ELSE Plain(200, None)

\* The route table, and unmatched.
Serve(c, failing, page) ==
    LET op   == request[c].op
        code == AuthCode(op, Token[c])
    IN  IF code # 200 THEN Plain(code, None)
        ELSE CASE op = "no_route"         -> Plain(404, None)
               [] op = "other_method"     -> Plain(405, None)
               [] op = "healthz"          -> Plain(200, None)
               [] op = "malformed"        -> Plain(400, None)
               [] op = "readyz"           -> ServeReadyz(failing)
               [] op \in {"record", "post"} -> ServeRecord(c, failing)
               [] op \in {"start", "finish"} -> ServeUpdate(c, failing)
               [] op = "show"             -> ServeGet(c, failing)
               [] op = "list"             -> ServeList(failing, page)

-----------------------------------------------------------------------------
(* A request is served.                                                    *)

Serving == proc.phase \in {"serving", "draining"}

\* The store fails, or the request's context was cancelled because its caller
\* has hung up.
MayFail(c) == faults < MaxFaults \/ exit[c] # "none"

Handled(c, out) ==
    /\ runs' = out.stored
    /\ request' = [request EXCEPT
           ![c].pc = IF out.count.call = "none" THEN "observe" ELSE "count",
           ![c].code = out.code, ![c].count = out.count, ![c].body = out.body]

\* The handler up to its answer, or up to its call of the registry.
Handle(c) ==
    /\ Serving
    /\ request[c].pc = "sent"
    /\ request[c].op # "metrics"
    /\ \E page \in Pages :
          LET served == Serve(c, FALSE, page)
              failed == Serve(c, TRUE, page)
          IN  \/ Handled(c, served) /\ UNCHANGED faults
              \/ /\ MayFail(c)
                 /\ failed # served
                 /\ Handled(c, failed)
                 /\ faults' = IF exit[c] = "none" THEN faults + 1 ELSE faults
    /\ UNCHANGED <<process, exit, registry>>

\* RecordRun or StoreError, then the answer is written.
Count(c) ==
    /\ Serving
    /\ request[c].pc = "count"
    /\ mu = "free"
    /\ LET count == request[c].count
       IN  IF count.call = "RecordRun"
           THEN recorded' = [recorded EXCEPT ![count.label] = @ + 1] /\ UNCHANGED storeErrors
           ELSE storeErrors' = storeErrors (+) SetToBag({count.label}) /\ UNCHANGED recorded
    /\ request' = [request EXCEPT ![c].pc = "observe"]
    /\ UNCHANGED <<process, runs, exit, mu, requests, faults>>

\* A handler panics in the store; instrument recovers, and answers 500.
Panic(c) ==
    /\ Serving
    /\ request[c].pc = "sent"
    /\ request[c].op # "metrics"
    /\ faults < MaxFaults
    /\ faults' = faults + 1
    /\ request' = [request EXCEPT ![c].pc = "observe", ![c].code = 500]
    /\ UNCHANGED <<process, runs, exit, registry>>

\* The route a request is counted under.
Pattern(op) ==
    CASE op \in {"start", "finish"}          -> "update"
      [] op \in {"post", "malformed"}         -> "record"
      [] op \in {"no_route", "other_method"} -> "unmatched"
      [] OTHER                                -> op

\* instrument's deferred ObserveRequest.
Observe(c) ==
    /\ Serving
    /\ request[c].pc = "observe"
    /\ mu = "free"
    /\ requests' = requests (+) SetToBag({<<Pattern(request[c].op), request[c].code>>})
    /\ request' = [request EXCEPT ![c].pc = "done"]
    /\ UNCHANGED <<process, runs, exit, mu, recorded, storeErrors, faults>>

-----------------------------------------------------------------------------
(* GET /metrics: Registry.WriteTo, under the mutex from end to end.        *)

\* The counters are rendered.
ScrapeCounters(c) ==
    /\ Serving
    /\ request[c].pc = "sent"
    /\ request[c].op = "metrics"
    /\ mu = "free"
    /\ mu' = c
    /\ request' = [request EXCEPT ![c].pc = "gauge", ![c].body = [recorded |-> recorded, runs |-> 0]]
    /\ UNCHANGED <<process, runs, exit, recorded, storeErrors, requests, faults>>

\* Fault: the gauge is a counter of the registry's own.
ScrapeGaugeCounting(c) ==
    /\ Serving
    /\ request[c].pc = "gauge"
    /\ request' = [request EXCEPT ![c].pc = "write",
           ![c].body.runs = recorded[Created] + recorded[Running]]
    /\ UNCHANGED <<process, runs, exit, registry, faults>>

\* The runs gauge lists the store, -1 if that fails.
ScrapeGauge(c) ==
    /\ Serving
    /\ request[c].pc = "gauge"
    /\ \/ /\ request' = [request EXCEPT ![c].pc = "write", ![c].body.runs = Cardinality(Stored)]
          /\ UNCHANGED faults
       \/ /\ faults < MaxFaults
          /\ faults' = faults + 1
          /\ request' = [request EXCEPT ![c].pc = "write", ![c].body.runs = -1]
    /\ UNCHANGED <<process, runs, exit, registry>>

\* Fault: the mutex is unlocked at the end, not by a deferred call.
ScrapePanicsLocked(c) ==
    /\ Serving
    /\ request[c].pc = "gauge"
    /\ faults < MaxFaults
    /\ faults' = faults + 1
    /\ request' = [request EXCEPT ![c].pc = "observe", ![c].code = 500]
    /\ UNCHANGED <<process, runs, exit, registry>>

\* It may panic; the mutex is unlocked by a deferred call.
ScrapePanics(c) ==
    /\ Serving
    /\ request[c].pc = "gauge"
    /\ faults < MaxFaults
    /\ faults' = faults + 1
    /\ mu' = "free"
    /\ request' = [request EXCEPT ![c].pc = "observe", ![c].code = 500]
    /\ UNCHANGED <<process, runs, exit, recorded, storeErrors, requests>>

\* The text goes out, at the pace of its reader.
ScrapeWrite(c) ==
    /\ Serving
    /\ request[c].pc = "write"
    /\ mu' = "free"
    /\ request' = [request EXCEPT ![c].pc = "observe", ![c].code = 200]
    /\ UNCHANGED <<process, runs, exit, recorded, storeErrors, requests, faults>>

-----------------------------------------------------------------------------
(* The callers.                                                            *)

NoRequest ==
    [pc |-> "idle", op |-> "none", id |-> None, status |-> None, code |-> 0,
     count |-> None, body |-> None, before |-> {}]

\* The command ends before it has sent anything: its arguments are wrong, no git
\* commit, a metric that is no number, a run Validate refuses.
UsageError(c) ==
    /\ exit[c] = "none"
    /\ request[c].pc = "idle"
    /\ exit' = [exit EXCEPT ![c] = "failed"]
    /\ UNCHANGED <<process, runs, request, registry, faults>>

\* call, as far as the request.  Whoever posts a run under a name the server gave
\* has it from the server.  The history field before holds the callers that have
\* had their answer by now.
Send(c) ==
    /\ proc.phase = "serving"
    /\ exit[c] = "none"
    /\ request[c].pc = "idle"
    /\ \E r \in Sends[c] :
          /\ r.op = "post" => r.id \in Given \/ runs[r.id] # NoRun
          /\ request' = [request EXCEPT ![c] =
                [pc |-> "sent", op |-> r.op, id |-> r.id, status |-> r.status, code |-> 0,
                 count |-> None, body |-> None, before |-> {b \in Callers : exit[b] = "ok"}]]
    /\ UNCHANGED <<process, runs, exit, registry, faults>>

\* call, from the answer on.  A short answer leaves the server's buffer when the
\* handler returns, a long one may arrive before.
Receive(c) ==
    /\ exit[c] = "none"
    /\ request[c].pc \in {"observe", "done"}
    /\ exit' = [exit EXCEPT ![c] = IF request[c].code >= 300 THEN "failed" ELSE "ok"]
    /\ UNCHANGED <<process, runs, request, registry, faults>>

\* The client's timeout, or a connection that is refused or cut.
NoAnswer(c) ==
    /\ exit[c] = "none"
    /\ \/ request[c].pc # "idle"
       \/ proc.phase # "serving"
    /\ exit' = [exit EXCEPT ![c] = "failed"]
    /\ UNCHANGED <<process, runs, request, registry, faults>>

-----------------------------------------------------------------------------
(* cmd/runledger, main.                                                    *)

\* os.Exit: no deferred call runs, and the requests die with the process.
Exit(code) ==
    /\ proc' = [phase |-> "exited", code |-> code]
    /\ request' = [c \in Callers |->
           IF request[c].pc \in {"idle", "done"} THEN request[c]
           ELSE [request[c] EXCEPT !.pc = "dead"]]

\* The tokens are loaded and the store is opened, or main gives up.
Startup ==
    /\ proc.phase = "starting"
    /\ \/ proc' = [proc EXCEPT !.phase = "serving"] /\ UNCHANGED request
       \/ Exit(1)
    /\ UNCHANGED <<auth, closed, runs, exit, registry, faults>>

\* ListenAndServe fails: the address is taken, or a file descriptor missing.
ServeFails ==
    /\ proc.phase = "serving"
    /\ Exit(1)
    /\ UNCHANGED <<auth, closed, runs, exit, registry, faults>>

\* SIGTERM or an interrupt: srv.Shutdown closes the listener.
Sigterm ==
    /\ proc.phase = "serving"
    /\ proc' = [proc EXCEPT !.phase = "draining"]
    /\ UNCHANGED <<auth, closed, runs, request, exit, registry, faults>>

InFlight == {c \in Callers : request[c].pc \notin {"idle", "done"}}

\* Fault: the listener is closed and nobody waited for.
DrainedAtOnce ==
    /\ proc.phase = "draining"
    /\ proc' = [proc EXCEPT !.phase = "closing"]
    /\ UNCHANGED <<auth, closed, runs, request, exit, registry, faults>>

\* Shutdown returns once every connection is idle.
Drained ==
    /\ proc.phase = "draining"
    /\ InFlight = {}
    /\ proc' = [proc EXCEPT !.phase = "closing"]
    /\ UNCHANGED <<auth, closed, runs, request, exit, registry, faults>>

\* Ten seconds are over first.
ShutdownDeadline ==
    /\ proc.phase = "draining"
    /\ InFlight # {}
    /\ Exit(1)
    /\ UNCHANGED <<auth, closed, runs, exit, registry, faults>>

\* main returns: the deferred Close, exit code 0.
Return ==
    /\ proc.phase = "closing"
    /\ closed' = TRUE
    /\ Exit(0)
    /\ UNCHANGED <<auth, runs, exit, registry, faults>>

-----------------------------------------------------------------------------

Init ==
    /\ auth \in {{}, {"write", "read"}, {"read"}}
    /\ proc = [phase |-> "starting", code |-> -1]
    /\ closed = FALSE
    /\ \E old \in SUBSET Given :
          /\ Old \in old
          /\ runs = [id \in RunIDs |-> IF id \in old THEN NewRun(Running) ELSE NoRun]
    /\ request = [c \in Callers |-> NoRequest]
    /\ exit = [c \in Callers |-> "none"]
    /\ mu = "free"
    /\ recorded = [s \in Statuses |-> 0]
    /\ storeErrors = EmptyBag
    /\ requests = EmptyBag
    /\ faults = 0

Handler(c) ==
    \/ Handle(c)
    \/ Count(c)
    \/ ScrapeCounters(c)
    \/ ScrapeGauge(c)
    \/ ScrapeWrite(c)
    \/ Observe(c)

Main == Startup \/ Drained \/ ShutdownDeadline \/ Return

Next ==
    \/ \E c \in Callers : Handler(c) \/ Panic(c) \/ ScrapePanics(c)
    \/ \E c \in Callers : UsageError(c) \/ Send(c) \/ Receive(c) \/ NoAnswer(c)
    \/ Main
    \/ Sigterm
    \/ ServeFails

(***************************************************************************)
(* Fairness: as long as handlers can move, some handler does (a write ends *)
(* at the latest by WriteTimeout), and main goes on when it can.  Callers, *)
(* signals and faults are left open.                                       *)
(***************************************************************************)
Spec ==
    /\ Init
    /\ [][Next]_vars
    /\ WF_vars(\E c \in Callers : Handler(c))
    /\ WF_vars(Main)

-----------------------------------------------------------------------------
(* Properties.                                                             *)

Succeeds(c, op) == exit[c] = "ok" /\ request[c].op = op

\* The command was told no: a 4xx came back.
ToldNo(c) == exit[c] = "failed" /\ request[c].pc \in {"observe", "done"} /\ request[c].code \in 400..499

\* The run the command was to leave in the ledger is there.
Happened(c) ==
    LET r   == request[c]
        run == runs[Target(c)]
    IN  /\ run # NoRun
        /\ r.op \in {"record", "post"} /\ Terminal(r.status) => run.status = r.status
        /\ r.op = "start" => run.status # Created
        /\ r.op = "finish" => run.status = r.status /\ run.endedAt = Clock[c]

\* finish --status is not checked: only a terminal status ends the run, and lasts.
Lasting(c) == request[c].op = "finish" => Terminal(request[c].status)

\* The ledger as a reading command saw it shows what the writing command b did.
Shows(c, b) ==
    LET r == request[c]
    IN  CASE r.op = "list" -> request[b].op \in {"record", "post"} =>
                 Target(b) \in r.body.page \/ r.body.more
          [] r.op = "show" -> r.id = Target(b) =>
                 /\ request[b].op = "start" => r.body.status # Created
                 /\ Terminal(request[b].status) => r.body = runs[r.id]

(***************************************************************************)
(* What the exit status of rlctl (or of another client that fails on a     *)
(* status code as it does) says is true, whoever else writes, posts the    *)
(* same id, hangs up or shuts the server down: a writing command that ends *)
(* with 0 is in the ledger, one that gave a terminal status with that      *)
(* status, a finish with its end time, for good; a record or finish that   *)
(* was refused with a 4xx has changed nothing (cmd/rlctl, call); and a     *)
(* show begun after a writing command has ended with 0 sees it, as does a  *)
(* list, on its page or by saying that there are more.                     *)
(***************************************************************************)
ExitTruthful ==
    \A c \in Callers :
        /\ \A op \in Writing : Succeeds(c, op) /\ Lasting(c) => Happened(c)
        /\ ToldNo(c) /\ request[c].op \in {"record", "finish"} => ~Happened(c)
        /\ Succeeds(c, "show") \/ Succeeds(c, "list") =>
              \A b \in request[c].before : request[b].op \in Writing =>
                  Shows(c, b)

\* The posts of runs as created.  The second of two that are the same records
\* nothing, and is counted again.
Retries == {b \in Callers : request[b].op = "post" /\ request[b].status = Created}

(***************************************************************************)
(* A scrape tells the truth about the past: it counts, under the status    *)
(* they reported, all the writes that were answered before it was sent     *)
(* (RecordRun comes before the answer), and its gauge has all the runs     *)
(* they recorded and that of an earlier server.  The counter of created    *)
(* runs next to it gets ahead of the gauge only by runs that were posted   *)
(* again, "a local increment-only counter would overcount a retried        *)
(* record" (metrics.go:38), and by runs finished as created.               *)
(***************************************************************************)
ScrapeCurrent ==
    \A c \in Callers : Succeeds(c, "metrics") =>
        LET seen    == request[c].body
            written == {b \in request[c].before : request[b].op \in Writing}
            added   == {Target(b) : b \in {d \in written : request[d].op \in {"record", "post"}}}
        IN  /\ \A s \in Statuses :
                  seen.recorded[s] >= Cardinality({b \in written : request[b].status = s})
            /\ seen.runs # -1 =>
                  /\ seen.runs >= Cardinality(added \union {Old})
                  /\ (\A b \in Callers : request[b].op = "finish" => Lasting(b)) =>
                        seen.runs + Cardinality(Retries) > seen.recorded[Created]

(***************************************************************************)
(* Exit code 0 means an orderly stop: no request that was accepted is cut  *)
(* off, the store was closed, and it is closed only when nobody is left to *)
(* use it (main, srv.Shutdown before the deferred Close).                  *)
(***************************************************************************)
DrainedExit ==
    /\ proc.phase = "exited" /\ proc.code = 0 =>
          closed /\ \A c \in Callers : request[c].pc \in {"idle", "done"}
    /\ closed => InFlight = {}

\* cmd/rlctl/main.go:240: "finishRun moves a run to a terminal status"; with
\* --status running a running run gets an end time and runs on.
FinishEnds ==
    \A c \in Callers : Succeeds(c, "finish") => Terminal(runs[request[c].id].status)

(***************************************************************************)
(* Every request is answered and observed unless the process ends, although*)
(* each waits for the registry behind any scrape and the store may fail or *)
(* panic under the mutex; and a server that is told to stop stops.         *)
(***************************************************************************)
Settles ==
    /\ \A c \in Callers : request[c].pc = "sent" ~> request[c].pc \in {"done", "dead"}
    /\ proc.phase = "draining" ~> proc.phase = "exited"

=============================================================================
