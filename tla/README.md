# run-ledger: TLA+ models, checks and proofs

run-ledger records machine-learning runs: a Go server keeps them, a command
line client and a Python client write and read them. This directory holds TLA+
models of the parts that carry its logic, TLC configurations that check them on
small instances, and TLAPS proofs of what they check for instances of every size.
Paths and line numbers are those of the repository at the commit it was
modelled from (`internal/...`, `python/...`).

    tlc -workers 2 -config MCStore.cfg MCStore      # a run
    tlapm DuckProofs.tla                            # a proof module

`PROJECT.json` lists components, runs, mutants, hazards and theorems, and maps
each definition to the lines it models.

## Inventory

| Part | State | Operations | What is hard | What makes it right |
|---|---|---|---|---|
| lineage record (`internal/lineage`) | none | `Validate`, `NormalizeCapture`, `Compute`, `normalizeParamValue` | spelling of parameter values, the edges of float64, nil against empty | equal experiments, equal fingerprints |
| store rules (`store.go`) | none | `applyPatch`, `isNoopPatch`, `checkIdentityUnchanged` | order of the checks, retries of a finish | a patch never rewrites history |
| in-memory store, `POST` and `PATCH` handlers (`memory.go`, `api.go`) | map of runs, mutex | `record`, `update` | stamping happens before the mutex | each request takes effect at one instant |
| DuckDB store (`duckdb.go`) | four tables, mutex, pool | `Record`, `Update`, `Get`, `List` | several statements per call, failures, process death | durable, all or nothing, every call returns |
| migrations (`duckdb.go`) | schema, version rows | `migrate` | death between statement and version row | a file can always be opened, old rows keep their meaning |
| listing (`api.go`, both stores) | cursor held by the client | `GET /v1/runs` | writes between pages | nothing twice, nothing skipped, backends agree |
| comparison (`internal/compare`) | none | `GET /v1/comparisons` | two reads at two instants, rows of two fingerprint contracts | the verdict lasts and is explained |
| spread (`internal/spread`) | cursor held by the client | `GET /v1/fingerprints`, `.../{fingerprint}` | ranking recomputed for every page, runs in flight | statistics of finished runs only, one notion of a group |
| Python client, lifecycle (`_run.py`) | active runs, saved signal disposition, lock | `Run.start`, `_finish`, SIGTERM handler, atexit | a handler that interrupts anything, threads, lost answers | the signal takes effect, the outcome is recorded once |
| Python client, spool and replay (`_run.py`, `replay.py`) | spool and quarantine files | `_spool`, `replay_spool` | appends during a replay, death between steps | no record lost, repeated or stuck |
| routing, authentication, instrumentation (`api.go`) | tokens | every request | a panic under a lock, a caller that hangs up | each request is answered and counted, refused requests change nothing |
| metrics registry (`internal/metrics`) | counters, mutex | `RecordRun`, `StoreError`, `ObserveRequest`, `WriteTo` | a scrape lists the store and writes to the network under the mutex | a scrape is not behind what clients were told |
| server process (`cmd/runledger`) | its phase | start, serve, drain, exit | SIGTERM while handlers run, the drain's deadline | exit 0 only when nobody was cut off and the store is closed |
| `rlctl` (`cmd/rlctl`) | none | `record`, `start`, `finish`, `fail`, `show`, `list`, `diff`, `spread` | a timeout while the handler goes on | its exit code tells the truth |
| `read.py`, dashboard, capture helpers, examples, scripts | none | one request each, or rendering | | not modelled |

The handlers call a `Store`, an interface with two implementations held to one
conformance suite; both share `applyPatch`. `compare` and `spread` are functions
of runs a handler has just read. The Python client posts a `running` record,
patches it when the run ends, and writes the complete record to the spool file
when it cannot; `replay.py` posts the spool later. Every request passes through
the instrumentation, and most report to the metrics registry; the server's main
function waits for the handlers before it closes the store. Nothing else is
shared.

## Modules

    Lineage <- StoreRules <- Ledger       (contract)
                          <- Store
                          <- DuckStore
                          <- Compare      (over Ledger)
                          <- Server
    ParamNormal   Migrate   Listing   Spread   Spool   RunHooks

    RulesProofs (over StoreRules) <- StoreProofs
                                  <- DuckProofs      (and Migrate)
                                  <- CompareProofs
                                  <- ServerProofs
    PagingProofs (Spread and Listing)   SpoolProofs   HooksProofs

`MCStore`, `MCDuckStore`, `MCCompare`, `MCHooks` and `MCServer` give the constants
that are sets of records or functions; `MCCompare` joins `Compare` and
`ParamNormal`, whose `Normalize` is the `Canon` of that run; `MCSpread` defines a float
of three significant bits and declares a symmetry. `MCHooks`, `MCServer` and `MCSpread`
also hold the state constraints described under the bounds. The other modules are run
directly.

* **Lineage** (`internal/lineage/run.go`): statuses, `Validate`, the capture
  declaration and its normal form, and `Compute`. A fingerprint is the tuple of
  its hashed inputs (SHA-256 is taken to have no collisions), with project,
  commit, dataset, model and seed as one value, `experiment`. The normal form of
  a parameter value is the constant `Canon`, any function: what the models and
  proofs say holds for `normalizeParamValue` whatever it computes.
* **ParamNormal** (`run.go:335-427`): `normalizeParamValue` with its pattern and
  its zero test. A numeral is the record of its sign, digits and exponent; any
  other string is opaque. `ParseFloat` and `FormatFloat` (external) are those of a
  decimal float with few digits and a small range, so that rounding, overflow and
  underflow happen with short numerals. `SameNumber` is the reference: exact
  arithmetic on the digits.
* **StoreRules** (`internal/store/store.go`): runs, patches and `applyPatch`,
  with its checks in the code's order. A nil map and an empty one are different
  values (`None` and the empty function), and `paramsEqual` keeps Go's answer to
  a missing key. `CheckpointURI` is treated like a provenance field.
* **Ledger**: the contract of the `Store` interface. One map, which changes in
  two ways, each at one instant: a valid run appears under a free id, or a patch
  is applied whole to the run as it then is. `Canonical` removes what a backend
  may not tell apart (nil or empty, the order of capture names).
* **Store**: the handlers over the in-memory store. A `POST` is two steps,
  `Receive` (decode, default, fingerprint, assign an id) and `Commit`
  (`Memory.Record` under the mutex), because other handlers run in between; a
  `PATCH` reads nothing before the mutex and is one step, `Update`. Refusals
  before the store change nothing. The random part of an assigned id is taken to
  be fresh. `acked` and `finishes` remember what clients were told.
* **DuckStore**: `Record`, `Update`, `Get` and `List` of the durable store, one
  step per statement: mutex, one query per table, decision, `BeginTx`, row, side
  rows, commit. Any query, `Exec` or `Commit` may fail, and the process may die
  anywhere. Of the engine (external) it assumes atomic transactions that survive
  a crash once committed, and one snapshot per statement.
* **Migrate**: `migrate` over files of every earlier release, empty or not. A
  statement is described by what later statements need of it; adding a column
  twice fails, which is the hazard.
* **Listing**: keyset pagination. `MemoryList` filters, sorts and cuts by the times as
  they were given; in `DuckList` every start time, `since`, `until` and cursor is an
  int64 of nanoseconds that wraps around (`UnixNano`, `Column`, `ColumnMatches`,
  `Where`), and so is the cursor on the wire for both. A query selects runs by a
  `label`, which stands for the fields an equality filter reads and a patch can change
  (status, device, submitter_claim, job_id), so that a run under way may leave a query
  and come back. Sorting is stated by places: the i-th row is the one with i - 1 rows
  before it. A page without runs is an empty slice in memory and a nil one in DuckDB
  (`null`).
* **Compare**: the diff of `compare.Runs`, field by field under its kind, and
  the handler's two `Get`s as two steps over a Ledger that may also hold rows
  fingerprinted under the legacy contract; `RenderDiff` is the verdict `rlctl diff`
  prints.
* **Spread**: `spread.One`, `Compute`, `Widest`, the ranking and its cursor. What
  float64 makes of a mean, a deviation and their quotient is left open: the constants
  `Mean`, `StdDev` and `CV` are any functions of the values by run, a number is an
  integer in the place of the float, 0 is 0, and -1 stands for the NaN of a quotient,
  which is not greater than anything. Nothing is claimed of the mean: three values 0.1
  have one above all of them. The ranking is stated by places, as in Listing; `moved`
  remembers the groups in which a run finished, or came first, since the traversal
  began.
* **Spool**: an append is two steps (open, write), because `os.replace` may come
  between them and the line then goes to a file without a name. The replay is
  read, one step per line, read the tail, replace, quarantine. A POST may fail
  with or without effect, be refused because the record is bad, or be refused
  because the ledger's store failed (`PostRefused`: `record` answers both with
  400, and the replay cannot tell). One replay runs at a time.
* **RunHooks**: a frame per run, per signal handler and per exit. The main thread's
  frames are a stack: a run started in the block of another sits on it (`outer`,
  `Inner`), the handler sits on all of them, and only the top moves; workers go on.
  The steps of `_finish` (check, set, send, spool, unregister) are separate, and a
  critical section is take the lock, do its work, let go. At most one SIGTERM comes; a user's handler returns or
  calls `sys.exit()`; the spool can be written; the handler's loop takes the
  active runs in any order. `leaver` remembers which frame last left no run active.
  `caught` remembers which unfinished runs were in their
  block when the handler, or the exit callbacks, took over. The program (its
  disposition, its network, whether it has threads) is chosen from `Programs` at the
  start.
* **Server**: callers, handlers, the registry and the main function. A caller is a
  command of `rlctl`, a probe or a scrape; it may stop waiting at any time and the
  handler goes on, with a context that may now be cancelled. A handler is its store
  call, then `RecordRun` or `StoreError` under the registry's mutex, then the
  answer, then the deferred `ObserveRequest`. A scrape holds the mutex over three
  steps: counters, gauge (a `List`), write. The store does what Ledger allows, or
  fails, or panics. The main function starts, serves, and on SIGTERM drains, until
  all are done or the deadline passes. A run is recorded under a new id (`record`), or under
  one its client gave (`post`): the same run again is answered 201 and counted again,
  another run under a taken id is 409. `list` answers one page of `Limit` runs and says
  whether there are more; which runs come first is open. A body that cannot be decoded is one kind of request, whatever the
  reason. A `finish` may carry any status; only one to a terminal status is for good
  (`Lasting`), and the properties that speak of finished runs are about those.

Definitions marked "Fault" are mutants: plausible mistakes in the definition
below them. Replacing a definition by its fault makes TLC report the property
`PROJECT.json` names, which shows that the property depends on that code.

## Runs

| Run | Instance | Shows |
|---|---|---|
| `store` | one id, two handlers, 12 bodies, 17 patches, clock up to 3 | stored runs stay valid and keep their fingerprint, acknowledged runs stay, a finish can be retried, the lifecycle moves forward, history is kept, and the store implements Ledger |
| `duckstore` | one id, two goroutines, one connection, two runs, three patches, unbounded failures and deaths | acknowledged runs are durable, reads are sound and exact for finished runs, the tables implement Ledger, every call returns |
| `migrate` | the real chain of 11 statements, 3 faults | an opened file is up to date, old rows keep their contract, every file opens in the end |
| `listing` | 3 ids, 3 start times, the last of which wraps around in an int64, pages of 1 and 2, every `since` and `until`, runs patched into the query and out of it | no run twice; while the start times on record fit, none skipped, and both backends return the same page |
| `spool` | two acceptable records, one refused, 3 faults | no record lost, no line doubled or quarantined twice, the spool drains |
| `hooks` | three programs: two runs on the main thread, nested or one after the other, lossy network, default disposition; the same and a run on a worker, reliable network; any two of these runs under a user's handler | runs caught in their block are recorded, outcomes agree, the kill's outcome stands, the disposition is saved once and put back, SIGTERM takes effect, also behind a worker's lock |
| `compare` | two ids, 28 spellings of one parameter, runs in flight, a legacy row, three patches | verdicts last and agree with spread; they go by the numbers, not their spelling; a difference of experiments is named |
| `server` | two callers and a third that repeats a post, every kind of request, one or two runs on record before, pages of two, no token, both or the read token alone, one failure or panic of the store | exit codes tell the truth, scrapes are current, exit 0 cuts nobody off, every request and every shutdown ends |
| `spread` | 4 runs, 2 experiments, 2 devices, values 6 and -6 of one metric, a float of three significant bits, page of one | statistics are of what finished runs reported, runs in flight are invisible, a group with nothing measurable ranks last, a traversal lists what does not move once, in order and in full |
| `duck_torn` | as `duckstore` | violated: a read may return a run that never was |
| `spool_twice` | as `spool` | violated: an interrupted replay records a line twice |
| `hooks_stuck` | one run on the main thread | violated: SIGTERM inside the hooks lock hangs the process |

Why the bounds are enough to meet the cases that matter:

* One run id in `store` and `duckstore`: no code relates two ids, except the
  assignment of a fresh one, and every race is about one row. Two callers, since
  the mutex lets one in at a time and a second is enough to be overtaken or to
  overtake. One connection is the pool at its limit. The bodies and patches hold
  one of each kind the code tells apart: empty, defaulted, finished, invalid in
  each way `Validate` knows, declared out of order, changing identity, repeating,
  ending before the start, moving back.
* Three runs in `listing` give a full page and one behind it, with equal start times
  within a page and across its end. Of the start times 1, 2 and 3 an int64 (`MaxNano` 2)
  holds two; the third reads back as -3. Of the labels, one is final and two can be
  patched into each other.
* Four runs in `spread` give two experiments with repeats. `min_runs` is 1 there, so
  that a group of runs in flight is filtered and a lone run is not. The values 6 and -6
  give a mean of zero, and sums that three bits cannot hold: of two runs 6 and -6 the
  deviation is rounded, and the mean of three equal values is not always the value. The
  constraint `FirstOrAll` leaves out traversals of the second project, which are like
  those of the first.
* Three faults in `spool` are a lost answer, a crash and another one in its
  recovery; three in `migrate` interrupt a statement, its retry and the retry's.
* Two callers in `server`: each of the races is between two requests (write and
  scrape, write and read, two finishes, two posts of one id) or between a request and
  main. The third is there for the one that takes three: a scrape after a post and its
  repetition. The clock readings differ, so that a finish can be told from another's.
  With a limit of two, a list has fewer, as many or more runs to show. The constraint
  `Concerned` leaves out combinations that have no bearing on one another: a probe or
  stray request next to a command, the second run on record next to a command that
  neither lists nor posts, failures of the store where tokens are checked, commands at a
  server that refuses every write alike, and the third caller where it repeats nothing.
* The spellings in `compare` pair up around every branch: equal numbers in several
  spellings, zeros with signs and exponents, the exponents at which `FormatFloat`
  changes its layout, one digit too many, one power of ten too large or too small,
  leading zeros. Three digits and exponents from -8 to 8 stand for float64.
* Two nested or successive runs on the main thread are what makes registering
  and unregistering differ between the first, the last and one in the middle; a
  worker is what makes restoring the disposition fail. The constraint
  `FirstStartsFirst` names the run that starts first, since names mean nothing, and
  `TwoUnderUser` lets a program with a handler of its own have two runs, on whichever
  threads; three are for the program without one, as they differ in who puts the
  disposition back, not in what it is.

`CHECK_DEADLOCK FALSE` stands where the system may stop: a traversal that is
over on a full ledger, a spool that is empty with nobody left to append, a
process that has exited, callers that have had their answers. The other runs
check for deadlock.

### Fairness

* `DuckStore`: strong fairness of taking the mutex and of the steps that need a
  connection. `sync.Mutex` hands the lock over to a waiter that has waited for a
  millisecond, and `database/sql` gives a connection that is returned to one of those
  waiting for it, picked at random, so that nobody is passed over for ever.
  Failures and crashes are not fair; they may happen for ever or never.
* `Migrate`: a server that died is started again.
* `Spool`: somebody runs the replay again, and an answered request is processed.
  Faults are bounded, which stands for an outage that ends.
* `RunHooks`: a thread that can move is scheduled, and each request ends, by its
  timeout at the latest. Whether a run starts, its block ends, a signal comes or
  the program exits is not assumed.

* `Server`: as long as handlers can move, some handler does (an answer ends by
  `WriteTimeout` at the latest), and main goes on when it can. Callers, signals and
  faults are left open.

`Store`, `Listing`, `Compare` and `Spread` promise safety only.

## Proofs

Every component with a state of its own has its theorems: nine, in seven proof
modules, over the lemmas of an eighth. Each theorem below is checked by TLAPS for all
values of the constants that satisfy the named assumptions; the run of the same
component shows the property on its instance. `DuckProofs` is about `DuckStore` and
`Migrate`, `PagingProofs` about `Spread` and `Listing`; the two have no names in common,
so that one module can extend both.

| Theorem | Statement |
|---|---|
| `StoreProofs!Invariant` | `Spec => []IInv` |
| `StoreProofs!TypeCorrect` | `Spec => []TypeOK` |
| `StoreProofs!StoredLineageSound` | `Spec => []LineageSound` |
| `StoreProofs!AckedRunsKept` | `Spec => []AckedKept` |
| `StoreProofs!FinishesRetriable` | `Spec => []FinishRetriable` |
| `StoreProofs!LifecycleOnlyForward` | `Spec => LifecycleForward` |
| `StoreProofs!HistoryNeverRewritten` | `Spec => HistoryKept` |
| `StoreProofs!StoreImplementsLedger` | `Spec => ImplementsLedger` |
| `DuckProofs!DuckInvariant` | `Spec => []IInv` |
| `DuckProofs!DuckTypeCorrect` | `Spec => []TypeOK` |
| `DuckProofs!RecordsDurable` | `Spec => []AckedDurable` |
| `DuckProofs!ReadsSound` | `Spec => []ReadSound` |
| `DuckProofs!FinishedReadsExact` | `Spec => []FinishedReadExact` |
| `DuckProofs!DuckImplementsLedger` | `Spec => ImplementsLedger` |
| `DuckProofs!MigrateInvariant` | `SchemaSpec => []ChainInv` |
| `DuckProofs!MigrateTypeCorrect` | `SchemaSpec => []SchemaTypeOK` |
| `DuckProofs!OpensUpToDate` | `SchemaSpec => []OpenedUpToDate` |
| `DuckProofs!ChainContinues` | `SchemaSpec => []NeverBlocked` |
| `PagingProofs!ListingInvariant` | `ListingSpec => []ListInv` |
| `PagingProofs!ListingTypeCorrect` | `ListingSpec => []ListingTypeOK` |
| `PagingProofs!RunsNeverRepeated` | `ListingSpec => []NeverRepeats` |
| `PagingProofs!RunsNeverSkipped` | `ListingSpec => []NeverSkips` |
| `PagingProofs!BackendsReturnTheSame` | `ListingSpec => []BackendsAgree` |
| `PagingProofs!LedgerInvariant` | `Spec => []RunsOK` |
| `PagingProofs!SpreadInvariant` | `Spec => []SpreadInv` |
| `PagingProofs!SpreadTypeCorrect` | `Spec => []TypeOK` |
| `PagingProofs!ItemsAreListed` | `Spec => []EndpointsAgree` |
| `PagingProofs!InFlightUnseen` | `Spec => InFlightInvisible` |
| `PagingProofs!StablePaging` | `Spec => []StableTraversal` |
| `PagingProofs!MeasuredFirst` | `Spec => []UnmeasuredLast` |
| `PagingProofs!RankingComplete` | `Spec => []Ranked` |
| `CompareProofs!CompareInvariant` | `Spec => []IInv` |
| `CompareProofs!CompareTypeCorrect` | `Spec => []TypeOK` |
| `CompareProofs!VerdictsLast` | `Spec => []VerdictLasts` |
| `CompareProofs!DifferencesNamed` | `Spec => []DifferenceNamed` |
| `SpoolProofs!SpoolInvariant` | `Spec => []IInv` |
| `SpoolProofs!SpoolTypeCorrect` | `Spec => []TypeOK` |
| `SpoolProofs!SpooledIsKept` | `Spec => []SpooledNotLost` |
| `SpoolProofs!LinesOnce` | `Spec => []NoLineTwice` |
| `HooksProofs!HooksInvariant` | `Spec => []IInv` |
| `HooksProofs!HooksTypeCorrect` | `Spec => []TypeOK` |
| `HooksProofs!DispositionKept` | `Spec => []ChainIntact` |
| `HooksProofs!CaughtAreRecorded` | `Spec => []CaughtRecorded` |
| `HooksProofs!KillStands` | `Spec => []KillWins` |
| `HooksProofs!OneOutcome` | `Spec => []OutcomesAgree` |
| `ServerProofs!ServerInvariant` | `Spec => []IInv` |
| `ServerProofs!StopsDrained` | `Spec => []DrainedExit` |
| `ServerProofs!ExitsTruthful` | `Spec => []ExitTruthful` |
| `ServerProofs!ScrapesCurrent` | `Spec => []ScrapeCurrent` |

### Assumptions

They are named, in the module that declares the constants, and TLC evaluates them
on every instance. The constants are sets of the right kind: bodies, patches,
posts, programs; a clock and a pool that are not empty. `None`, `Empty`, `NoRun`
and `"free"` are not values of the kind they are told apart from. `Canon` is a
function that leaves its own results alone. What `DuckStore` is asked to `Record`
has passed `Validate` and carries its own fingerprint, as `api.record` sees to
(`Store` proves it); in `Compare` that holds of current rows, and legacy rows carry
the legacy hash. The columns `Migrate` adds are migrations of the chain.
Worker and main-thread runs are different runs. Run ids, projects and seeds are
numbers, because the models compare them; start times are any numbers but 0, and
`MaxNano` is any bound. That the listing's properties need start times that fit is part
of the properties (`AllFit`, `NoneEarly`, `Fits`): without it they are false of the
program (below). In `Spread` the means and deviations of finitely many values are
numbers and their quotient is none below -1 (`FloatAssumption`); which numbers, is not
assumed. In `Server` the callers are finitely many, as many as one likes, and so are the ids they
choose, which are not ids the server assigns (those are new, by their random suffix);
the page limit is any number above 0; an end time tells whose clock it was read off;
clients send what their commands let through: `record` and `post` a status that
`Validate` knows, `start` the status running, `finish` some status, and each of `post`,
`start`, `finish` and `show` an id. A post repeats a run that the server named only
once it is in the ledger, as its client has the name from there. No theorem bounds the number of runs, groups, metrics,
pages, goroutines, connections, faults, records, migrations, threads or callers.
That a state has finitely many runs is proved where it is needed, since a step
records one.

### The argument for each component

**The rules** (`RulesProofs`). Lemmas about `applyPatch` and what it is made of,
used by four of the other modules: merging maps gives a map that keeps all keys;
an applied patch yields a run of the right type, valid, with its identity, start
time and declaration unchanged and its metrics extended; and applying a patch to a
run or to its canonical form gives the same up to canonical form.

**Store.** The properties are not inductive one by one. `LineageSound` needs
the run a handler is about to record to carry the fingerprint of its own fields
although it was stamped earlier (`HandlingStamped`). `FinishRetriable` says what
`applyPatch` would answer, which depends on the whole run; what is inductive is
that for each acknowledged finish the run is terminal, still has the identity the
patch named, and already holds every value the patch would set
(`FinishesSettled`), and a terminal run never changes. `AckedKept` needs no more
than that each step extends the run. The two action properties follow from the
same lemmas. For the refinement, `runs` maps to the map of canonical runs.
Stamping and the clock are stutters; `Commit` is `Record` if the id was free and a
stutter otherwise; `Update` is `Update`, because `applyPatch` does not see more
than the canonical form.

**DuckStore.** The invariant says, for each goroutine and each place it can be in,
how its locals relate to the committed tables. Whoever holds `d.mu` has read what
is still committed, and its transaction is those tables changed by one rule as far
as its statements have come. A reader is not in the mutex, so what it saw of an id
may be behind; it is kept that params, declaration and row identity are those of
the tables (no version changes them), and that once the row it saw is finished, the
tables are final. `ReadSound` and `FinishedReadExact` are these facts at the end of
the read. For the refinement the tables map to the canonical runs they hold; a
commit is the abstract `Record` or `Update`, and all else, crash and rollback
included, is a stutter.

**Migrate.** A statement and its version row take effect together, so
`schema = versions`; the process knows all that was applied when it opened the
file and has done all before the migration it is at (`ChainKnown`); before the
version column is there all rows are of the legacy contract, and after it each row
reads back with its own (`RowsRead`). `NeverBlocked`,
that the next statement can be executed, is the safety half of the liveness
property `Reopens`.

**Orders** (`PagingProofs`). Both listings sort a set, so what is needed of finite sets
comes first. In a strict total
order the number of elements before an element is its place; places are different and
below the cardinality, so every place is taken (`Places`). A finite set has an element
no other is above (`Maximal`, hence `Extremes` for `Min` and `Max`).

**Listing.** The cursor holds the last run returned (`CursorPlace`), and the runs
returned are in order. A page is a stretch of the sorted rows that are after the
cursor (`PageOf`), for both backends: in memory the sorted rows are cut at the first
one after the cursor (`MemoryPage`), in SQL the rows after it are sorted (`DuckPage`),
and there is one way to sort them (`SortedOnce`). So a page starts behind everything
returned. While no time wraps forward, the cursor's is the last run's or an earlier one:
an earlier one can only skip. For `NeverSkips`, what is owed has been returned or is
still ahead of the cursor (`OwedAhead`), as long as the cursor's time is exact; start
times never leave the record (`StartsStay`), so `AllFit` was true before if it is now.
`BackendsAgree` comes down to the columns being the times themselves (`RowsSelected`).

**Spread.** A run's fingerprint has its own project in it, and a finished run is never
written again: that a group listed under a project is the item endpoint's
(`ItemsAreListed`, `EndpointsAgree`) and `InFlightInvisible` follow, the second because
what a group reports is a function of its finished runs. `Widest` is always defined, a
maximum of finitely many numbers and -1 (`WidestFound`), which a group with nothing
measurable has for its own; with the fingerprint to break ties, groups are in a strict
total order (`RanksOrder`), so the ranking has each of them once. As long as nothing
that was listed has moved, the listing is in rank order and every group that has not
moved and is not listed ranks behind the cursor (`Progress`). A page keeps this: `Start`
finds the cursor's group again, since no two groups have one fingerprint (`StartFound`),
and what the page adds are the groups that follow it. A run that is recorded or finishes
keeps it: it changes only its own group, which is then in `moved` (`WriteRanks`), and no
group leaves the ranking, since finished runs stay (`WriteKeeps`).

**Compare.** Of a run that a request has read, its identity and fingerprint, and
all of it if it was finished, are still in the ledger (`RequestKept`), because the
ledger moves by `applyPatch` only. `DifferenceNamed` needs no induction: the diff
looks at every input of `Compute`.

**Spool.** From its read to its rename the replay works on a prefix of the file
(`LinesRead`): appends go to the end, and nothing else changes the file. The lines
already dealt with are in the ledger or rejected (`LinesSent`, `Judged`), the
others are `remaining` (`LinesLeft`), and `tail` is the part of the file behind the
prefix as of the tail read (`TailRead`). Hence `remaining \o tail` is the file less
what was dealt with, less what was appended after the tail read, and those records
are in `overlapped`. Each record is written once, so the files have no line twice.

**RunHooks.** While the handler's frame is on, no other frame of the main thread
moves, and a worker's frame finishes no run but its own. `Duty` says of each run
caught in its block who has it still to record: the outcome is on record, or the
frame that caught it is sending or spooling it, or has it in its list with
`_finished` unset. A run the exit callbacks caught may be taken over by the handler,
which then sends it. `Killed` is the same for the main thread's runs and the status:
once the handler has set `failed`, the frame below can only come to the check of
`_finished`. `OneStatus` needs that the handler does not return, since a signal
between the check and the assignment lets two frames set the flag (`FinishedOnce`
below is that case). `Chain` is `ChainIntact` without regard to the lock, and that
the handler chains to the program's own disposition. That the disposition is put back
needs no count of the runs: whoever leaves `active` empty on the main thread puts it
back in the same step, and only a registration, which fills `active`, takes it away.
With nested runs a frame moves only if nothing was started in its block; the theorems
do not bound how deep they nest.

**Server.** A request has one status code in its life, 0 until it is answered
(`Served`). `Effective` says that a writing request with a 200 or 201 has had its
effect, whether or not its caller has heard; `Caused` is the converse: a run is there
because its recorder was answered 201, an end time because a finish with that clock
was answered 200, so a 4xx left nothing behind. A `post` may repeat a run, so its
201 does not say that it was the one to record it; `Known` says that it names a run its
client chose or one that is there. Both survive because the ledger only
moves ahead (`Ahead`: runs stay, no status goes back to created, a finished run is
final), which is what the lemmas about `applyPatch` give. `Current` follows for a
reading request at its handler's step: whoever had exited with 0 was effective then.
`Quiet` says that nothing is in flight from the end of the drain on. For scrapes,
each counter is the number of requests that have passed `RecordRun` (`Exact`), those
answered before the scrape among them; and as each run counted as created is in the
store, next to one from an earlier server, the gauge that is read after the counters
is larger by then, but for posts that repeated one another, at most as many as there
are posts of created runs (`Retries`, `LedgerLarger`, `NotBehind`). The proof is by cases on what a handler's work comes to:
refused, read, recorded, updated (`ServeOutcome`).

### What stays with TLC

* Liveness and everything about fairness: `CallsReturn`, `Reopens`, `SpoolDrains`,
  `SigtermTakesEffect`, `Settles`. The prover has no rule for them.
* `VerdictByValue`, about `ParamNormal`: which number a spelling denotes takes
  powers of ten and divisions by them, which the SMT backend does not interpret, and
  the reference itself is for numerals of bounded length. `ParamNormal` is an instance
  of `Canon`, of which the proofs use that it is idempotent.

Every other invariant and action property that a passing run checks is a theorem.

## Where code and documentation disagree

Three disagreements have a run of their own and are findings in `PROJECT.json`:

* `duckdb.go:36-38` says reads never observe a write's partial effect. `get` and
  `List` issue one statement per table, so they can (`ReadIsVersion`). What does
  hold is `ReadSound` and `FinishedReadExact`: torn reads only concern runs that
  are still in flight.
* `replay.py:3` says a crash cannot double-record. The server appends a random
  suffix to the id it derives (`api.go:412-419`), so a line that is sent twice
  makes two rows (`NoDoubleRecord`).
* `_run.py:74-76` says the process must die from SIGTERM. The handler takes a
  lock that the interrupted code may hold (`AlwaysDies`). `SigtermTakesEffect` is
  the promise outside that window.

The following were met on the way. Where a property is named, the module defines
it; giving it to the configuration as its only INVARIANT shows a counterexample.

| Property, configuration | Code | Documentation |
|---|---|---|
| `TerminalHasEnd`, `MCStore` | `POST` of a finished run without `ended_at` is stored as it is | `store.go:243` "so a terminal run never lacks an end time" |
| `AcceptedParamsMatch`, `MCStore` with `Patches <- MCMisnamed` | `paramsEqual` (`store.go:353`) takes a missing key for an empty value | `store.go:117-119` a set identity field that differs is `ErrConflict` |
| `RetryAccepted`, `DuckStore` with `Posts <- MCEmptyParams` | `{}` reads back as nil and `runsEqual` (`duckdb.go:743`) refuses the retry | `store.go:19-21` recording is idempotent |
| `AllListed`, `Listing` | a start time past 2262 wraps in the cursor (`api.go:641`), and the traversal skips what lies between | `README.md:239-241` no page skips a row |
| none | a start time before 1678 wraps forward, and the cursor leads back to runs already listed (`NeverRepeats` without `NoneEarly`) | `README.md:239-241` no page repeats a row |
| none | DuckDB stores and compares start times, `since` and `until` as int64 nanoseconds (`duckdb.go:267`, `522-533`, `579`), memory as times: outside 1678-2262 they list differently (`BackendsAgree` without `AllFit` and `Fits`) | `store.go:174-175` the in-memory store defines "the semantics every other backend must reproduce" |
| `EmptyPageIsList`, `Listing` | DuckDB's `List` returns a nil slice for a page without runs (`duckdb.go:560`), which is written as `null` | `api.go:749-750` "an empty result must still come back as [], the same rule list already follows via page.Runs" |
| `NoDroppedAppend`, `Spool` | a line appended between the tail read and `os.replace` (`replay.py:135`) is lost | `replay.py:39-41` "cannot silently drop a line" |
| `RefusedKept`, `Spool` | the spool is rewritten before the quarantine is written (`replay.py:231`) | ADR 0008:69 "moved out of the spool once, onto disk, where it stays" |
| `QuarantinedDeserved`, `Spool` | a failure of the store is answered 400 (`api.go:428-430`), and the replay quarantines a record nothing is wrong with | `replay.py:16-18` "the server has looked at this exact payload and will never accept it" |
| none | `remaining` leaves out the lines appended meanwhile (`replay.py:237`) | `replay.py:75-77` |
| `KilledRunsRecorded`, `HooksStuck` | SIGTERM after `_finished = True` and before the send records nothing (`_run.py:512`) | ADR 0014:99-101 such a run is recorded `failed` |
| `FinishedOnce`, `Hooks` | the check of `_finished` and its assignment are under no lock (`_run.py:505-512`): the end of a worker's block and the SIGTERM handler or the exit callback, or the handler and a main-thread block it returns to, both get past the check and send two outcomes | `_run.py:296-298` "runs at most once" |
| `IgnoredStaysIgnored`, `HooksStuck` with `Programs <- MCIgnoring` | `SIG_IGN` is replaced by `SIG_DFL` (`_run.py:218`) | `_run.py:216` "the same way it would have if runledger had never installed anything" |
| `OrphanStaysRunning`, `HooksStuck` | a PATCH applied whose answer is lost is spooled as well, and a replay makes a second finished row | `_run.py:48-52` the row left behind is a running one, invisible to spread |
| `SameHasNoIdentityField`, `Compare` | params are compared as spelled, hashed in normal form (`compare.go:136`) | `compare.go:79-82` "no identity field differs" |
| `DifferentHasField`, `Compare` | a legacy row and its like of today differ in no field | `cmd/rlctl/main.go:418` "should not be possible" |
| `UnmeasurableLast`, `Spread` | `Widest` counts a metric that a single run reported (`spread.go:83`) | `spread.go:74-77` such a metric is skipped |
| `NoRepeatsOneRun`, `Spread` | a group whose other runs are in flight, or all of them, has `NoRepeats` | `cmd/rlctl/main.go:501` "only one run has been recorded for this experiment" |
| `LikeForLike`, `Compare` | a number with more digits than float64 holds is rounded, and two such numbers may share a fingerprint | `run.go:374-376` "only ever a no-op or a like-for-like rewrite" |
| `FinishEnds`, `Server` | `finish --status running` is accepted: the status is not looked at, and a running run gets an end time and runs on (`cmd/rlctl/main.go:243-247`) | `cmd/rlctl/main.go:240` "finishRun moves a run to a terminal status" |
| none | `/readyz` and `/metrics` need no token either (`api.go:167-168`) | `api.go:92` "on every request except /healthz" |
| none | a `finish` that timed out and is repeated carries a new `ended_at`, so it is a conflict although the first one took effect (`cmd/rlctl/main.go:246`) | `store.go:19-20` updating is idempotent for a value that matches |
| none | a run that finishes between two pages moves its group across the cursor: listed twice, or never (`api.go:773`; `StableTraversal` is what holds of the others) | `openapi.yaml:385-386` "a deterministic, resumable order" |

## Not modelled

* Two replays of one spool at the same time; a program that installs its own
  SIGTERM handler inside a run; a second SIGTERM.
* A capture declaration that names a field twice, which DuckDB's primary key
  refuses and the in-memory store accepts: names are a set here.
* The digits of float64 in `spread`, which its proofs leave open and its run replaces by
  three bits; a mean that overflows, which JSON cannot encode; float64's binary digits and denormal numbers in
  `ParamNormal`; JSON and SQL encoding, except where a value is changed by it (nil
  maps, nanoseconds, the order of names).
* A signal between two statements under `_hooks_lock`: registering and unregistering
  are one step each, and a signal under the lock comes before or after it.
* In `Server`: a kill of the process at any instant, which is DuckStore's subject;
  filters and the cursor of `list`, which are Listing's, and `diff` and `spread`, which
  are Compare's and Spread's; posts of invalid runs, which are Store's;
  request ids, logs, durations and the text of a scrape; a PATCH without a status,
  which `rlctl` never sends.
* `rlctl`'s flags and tables; `read.py`, the dashboard, the capture helpers,
  examples and scripts: one request or a rendering each, without state.
* `conformance.go`, a test suite: the contract it tests is Ledger.

## Plan

Done, in this order: the inventory; Lineage, StoreRules, Ledger and Store; DuckStore,
Migrate, Listing, Compare with ParamNormal, Spread, Spool, RunHooks and Server with
their runs; the proofs about Store and DuckStore (with both refinements of Ledger),
Migrate, Compare, Spool, RunHooks, Server, Listing and Spread. Left:

1. Spread over a store whose `List` returns runs in flight at different instants, as
   DuckStore's does, in place of one state per request.
2. Two replays of one spool.
