------------------------------- MODULE Spread -------------------------------
(***************************************************************************)
(* GET /v1/fingerprints and /v1/fingerprints/{fingerprint}: internal/spread*)
(* groups the runs of an experiment and ranks the groups by how much their *)
(* metrics vary; the handlers (internal/api, spreadList and spreadOne)     *)
(* compute the groups anew for every request and page through the ranking  *)
(* by the fingerprint seen last.  Runs are recorded, report metrics and    *)
(* finish between two pages.                                               *)
(*                                                                         *)
(* The statistics are float64, and rounding is visible in them: three      *)
(* equal values can have a mean above all three.  Numbers are integers     *)
(* that keep the order of the floats they stand for, 0 being 0; what the   *)
(* arithmetic yields is left open, as the constants Mean, StdDev and CV,   *)
(* and MCSpread takes a float of three significant bits for them.  One     *)
(* request sees one state of the ledger: for finished runs DuckStore shows *)
(* that of the durable store too.                                          *)
(***************************************************************************)
EXTENDS Integers, Sequences, FiniteSets, FiniteSetsExt, SequencesExt

CONSTANTS
    RunIDs,
    Projects,       \* numbers, in the order of the fingerprints they lead to
    Seeds,          \* what else tells two experiments apart, likewise
    Devices,
    MetricKeys,
    MetricValues,   \* 0 and negative ones allowed
    MinRuns,        \* the min_runs of a traversal
    MaxLimit,
    NoRun,
    None,
    Mean(_),        \* of the values of a metric by run: the sum, in the order
                    \* List has the runs in, over the count
    StdDev(_),      \* likewise: the root of the mean square deviation
    CV(_, _)        \* |stddev / mean|, -1 for the NaN of Inf / Inf

ASSUME SpreadAssumption ==
    /\ Projects \union Seeds \subseteq Nat \ {0}
    /\ MetricValues \subseteq Int
    /\ MinRuns \subseteq Nat
    /\ MaxLimit \in Nat \ {0}
    /\ None \notin Projects \union (Projects \X Seeds)

ASSUME FloatAssumption ==
    \A ids \in (SUBSET RunIDs) \ {{}} : \A values \in [ids -> MetricValues] :
      IsFiniteSet(ids) =>
        /\ Mean(values) \in Int
        /\ StdDev(values) \in Int
        /\ CV(StdDev(values), Mean(values)) \in Nat \union {-1}

VARIABLES
    runs,           \* id -> run, or NoRun
    client,         \* the traversal: its query, the cursor and what it was given
    moved           \* history: the groups a run joined or left in flight since

vars == <<runs, client, moved>>

Terminal(s) == s \in {"succeeded", "failed", "cancelled"}

Recorded == {id \in RunIDs : runs[id] # NoRun}

\* lineage.Compute: the experiment, as a pair, project among its inputs.
FingerprintOf(project, seed) == <<project, seed>>

Fingerprints == {FingerprintOf(p, s) : p \in Projects, s \in Seeds}

\* What the ranking reads of a run.
Run == [project : Projects, seed : Seeds, device : Devices, fingerprint : Fingerprints,
        status : {"running", "succeeded"},
        metrics : UNION {[keys -> MetricValues] : keys \in SUBSET MetricKeys}]

ASSUME NoRunAssumption == NoRun \notin Run

\* The order of the hex strings, which is some total order.
Less(f, g) == f[1] < g[1] \/ (f[1] = g[1] /\ f[2] < g[2])

-----------------------------------------------------------------------------
(* internal/spread/spread.go.                                              *)

\* Fault: min starts from 0, not from the first value.
StatFromZero(values) ==
    [count |-> Cardinality(DOMAIN values),
     min |-> Min(Range(values) \union {0}), max |-> Max(Range(values)),
     mean |-> Mean(values), stddev |-> StdDev(values)]

\* stat, of the values of one metric by run.
Stat(values) ==
    [count |-> Cardinality(DOMAIN values),
     min |-> Min(Range(values)), max |-> Max(Range(values)),
     mean |-> Mean(values), stddev |-> StdDev(values)]

\* metricStats: a metric is summarised over the runs that report it.
MetricStats(ids) ==
    LET reporting(k) == {id \in ids : k \in DOMAIN runs[id].metrics}
    IN  [k \in {m \in MetricKeys : reporting(m) # {}} |->
            Stat([id \in reporting(k) |-> runs[id].metrics[k]])]

\* provenanceDiffs: the values of a field the runs do not agree on.
ProvenanceDiffs(ids) ==
    LET values == {runs[id].device : id \in ids}
    IN  IF Cardinality(values) > 1 THEN values ELSE {}

NoMetrics == [k \in {} |-> k]

\* Fault: runs still in flight are summarised with the finished ones.
OneUnfiltered(fingerprint, ids) ==
    LET repeats  == Cardinality(ids) >= 2
        terminal == {id \in ids : Terminal(runs[id].status)}
    IN  [fingerprint |-> fingerprint, ids |-> terminal, count |-> Cardinality(terminal),
         inFlight    |-> Cardinality(ids \ terminal),
         noRepeats   |-> ~repeats,
         metrics     |-> IF repeats THEN MetricStats(ids) ELSE NoMetrics,
         provenance  |-> IF repeats THEN ProvenanceDiffs(ids) ELSE {}]

\* spread.One.
One(fingerprint, ids) ==
    LET terminal == {id \in ids : Terminal(runs[id].status)}
        repeats  == Cardinality(terminal) >= 2
    IN  [fingerprint |-> fingerprint, ids |-> terminal, count |-> Cardinality(terminal),
         inFlight    |-> Cardinality(ids \ terminal),
         noRepeats   |-> ~repeats,
         metrics     |-> IF repeats THEN MetricStats(terminal) ELSE NoMetrics,
         provenance  |-> IF repeats THEN ProvenanceDiffs(terminal) ELSE {}]

\* spread.Compute.
Groups(ids) ==
    {One(fp, {id \in ids : runs[id].fingerprint = fp}) : fp \in {runs[id].fingerprint : id \in ids}}

\* Fault: a metric with mean zero is not skipped.
WidestOfAll(g) ==
    Max({-1} \union {CV(g.metrics[k].stddev, g.metrics[k].mean) : k \in DOMAIN g.metrics})

\* Group.Widest: the largest coefficient of variation, -1 without any.  A NaN
\* is not greater than anything.
Widest(g) ==
    LET measured == {k \in DOMAIN g.metrics : g.metrics[k].mean # 0}
    IN  Max({-1} \union {CV(g.metrics[k].stddev, g.metrics[k].mean) : k \in measured})

-----------------------------------------------------------------------------
(* internal/api/api.go.                                                    *)

\* spreadList: list, group, filter and rank.
ListProject(project) == {id \in Recorded : project # None => runs[id].project = project}

Ranks(g, h) ==
    \/ Widest(g) > Widest(h)
    \/ Widest(g) = Widest(h) /\ Less(g.fingerprint, h.fingerprint)

\* How many groups rank before a group, and the groups in order.
Place(groups, g) == Cardinality({h \in groups : Ranks(h, g)})

Ranking(project, minRuns) ==
    LET groups == {g \in Groups(ListProject(project)) : g.count >= minRuns}
    IN  [i \in 1..Cardinality(groups) |-> CHOOSE g \in groups : Place(groups, g) = i - 1]

\* spreadOne: the group of the runs that List finds under a fingerprint.
Item(fp) == One(fp, {id \in Recorded : runs[id].fingerprint = fp})

Begin(project, minRuns, limit) ==
    /\ client.pc = "idle"
    /\ client' = [pc |-> "paging", project |-> project, minRuns |-> minRuns, limit |-> limit,
                  after |-> None, listed |-> <<>>]
    /\ moved' = {}
    /\ UNCHANGED runs

\* Fault: the group of the cursor itself is not skipped.
StartAt(groups, cursor) ==
    IF cursor = None THEN 0
    ELSE SelectInSeq(groups, LAMBDA g : g.fingerprint = cursor) - 1

\* How many groups a page skips: those up to the cursor's.
Start(groups, cursor) ==
    IF cursor = None THEN 0
    ELSE SelectInSeq(groups, LAMBDA g : g.fingerprint = cursor)

\* One request.  A cursor whose group is no longer ranked is refused; without
\* next_cursor the traversal is over.
FetchPage ==
    /\ client.pc = "paging"
    /\ LET groups == Ranking(client.project, client.minRuns)
           ranked == {g.fingerprint : g \in Range(groups)}
           start  == Start(groups, client.after)
           last   == Min({start + client.limit, Len(groups)})
           page   == [i \in 1..last - start |-> groups[start + i].fingerprint]
       IN  client' = IF client.after \notin ranked \union {None}
                     THEN [client EXCEPT !.pc = "refused"]
                     ELSE [client EXCEPT !.listed = @ \o page,
                             !.pc = IF last < Len(groups) THEN "paging" ELSE "done",
                             !.after = IF last < Len(groups) THEN groups[last].fingerprint
                                       ELSE None]
    /\ UNCHANGED <<runs, moved>>

-----------------------------------------------------------------------------
(* The ledger underneath.                                                  *)

\* The run under this id is now r, and these groups are no longer what a
\* traversal may have seen of them.
Write(id, r, groups) ==
    /\ runs' = [runs EXCEPT ![id] = r]
    /\ UNCHANGED client
    /\ moved' = IF client.pc = "idle" THEN {} ELSE moved \union groups

\* A first run makes the group; another one in flight is only counted.
Record(id, project, seed, device) ==
    /\ runs[id] = NoRun
    /\ LET fp == FingerprintOf(project, seed)
       IN  Write(id, [project |-> project, seed |-> seed, device |-> device,
                      fingerprint |-> fp, status |-> "running", metrics |-> NoMetrics],
                 {fp} \ {runs[other].fingerprint : other \in Recorded})

\* A running run reports its first value of a metric.
LogMetric(id, k, v) ==
    /\ id \in Recorded
    /\ ~Terminal(runs[id].status)
    /\ k \notin DOMAIN runs[id].metrics
    /\ Write(id, [runs[id] EXCEPT !.metrics =
                    [m \in DOMAIN @ \union {k} |-> IF m = k THEN v ELSE @[m]]], {})

Finish(id) ==
    /\ id \in Recorded
    /\ ~Terminal(runs[id].status)
    /\ Write(id, [runs[id] EXCEPT !.status = "succeeded"], {runs[id].fingerprint})

Init ==
    /\ runs = [id \in RunIDs |-> NoRun]
    /\ client = [pc |-> "idle", project |-> None, minRuns |-> 0, limit |-> 1, after |-> None,
                 listed |-> <<>>]
    /\ moved = {}

Next ==
    \/ \E p \in Projects \union {None}, n \in MinRuns, limit \in 1..MaxLimit : Begin(p, n, limit)
    \/ FetchPage
    \/ \E id \in RunIDs, p \in Projects, s \in Seeds, d \in Devices : Record(id, p, s, d)
    \/ \E id \in RunIDs, k \in MetricKeys, v \in MetricValues : LogMetric(id, k, v)
    \/ \E id \in RunIDs : Finish(id)

Spec == Init /\ [][Next]_vars

-----------------------------------------------------------------------------
(* Properties.                                                             *)

(***************************************************************************)
(* Ledger and traversal have their types, and the statistics of every      *)
(* group are those of values its runs reported: no more of them than the   *)
(* group has finished runs, and min and max are two of them, in order.     *)
(* Nothing is said of the mean: rounding can put it outside (stat).        *)
(***************************************************************************)
TypeOK ==
    /\ runs \in [RunIDs -> Run \union {NoRun}]
    /\ client \in [pc : {"idle", "paging", "done", "refused"},
                   project : Projects \union {None}, minRuns : Nat, limit : 1..MaxLimit,
                   after : Fingerprints \union {None}, listed : Seq(Fingerprints)]
    /\ moved \subseteq Fingerprints
    /\ \A g \in Groups(Recorded) : \A k \in DOMAIN g.metrics :
          LET m        == g.metrics[k]
              reported == {runs[id].metrics[k] : id \in {r \in g.ids : k \in DOMAIN runs[r].metrics}}
          IN  /\ m.count \in 1..g.count
              /\ m.min <= m.max
              /\ {m.min, m.max} \subseteq reported

(***************************************************************************)
(* Runs are recorded, report and finish between the pages, and every page  *)
(* is computed from scratch (spreadList).  A traversal is never refused    *)
(* its cursor, for no group leaves the ranking; and while no run of a      *)
(* group it has listed finishes, it lists groups in rank order, none       *)
(* twice, and ends with every ranked group in which no run finished, or    *)
(* was recorded first, in the meantime: other groups may move across the   *)
(* cursor, but do not move the cursor.                                     *)
(***************************************************************************)
StableTraversal ==
    /\ client.pc # "refused"
    /\ Range(client.listed) \intersect moved = {} =>
          /\ \A i, j \in DOMAIN client.listed :
                i < j => Ranks(Item(client.listed[i]), Item(client.listed[j]))
          /\ client.pc = "done" =>
                {g.fingerprint : g \in Range(Ranking(client.project, client.minRuns))}
                    \subseteq Range(client.listed) \union moved

(***************************************************************************)
(* A group with nothing measurable, without repeats or with means of zero  *)
(* only, ranks behind every group that has a spread to show, whatever the  *)
(* division by zero would have made of it (Widest).                        *)
(***************************************************************************)
Measured(g) ==
    \E k \in DOMAIN g.metrics :
        /\ g.metrics[k].mean # 0
        /\ CV(g.metrics[k].stddev, g.metrics[k].mean) >= 0

UnmeasuredLast ==
    \A g, h \in Groups(Recorded) : Measured(g) /\ ~Measured(h) => Ranks(g, h)

(***************************************************************************)
(* A run in flight is counted as such and nothing else: recording one, or  *)
(* a metric it reports, moves no group's statistics, membership or rank    *)
(* (ADR 0012).                                                             *)
(***************************************************************************)
Unaffected(g, h) == [g EXCEPT !.inFlight = 0] = [h EXCEPT !.inFlight = 0]

InFlightInvisible ==
    [][(\A id \in Recorded' : Terminal(runs[id].status)' => id \in Recorded /\ runs'[id] = runs[id])
          => \A fp \in Fingerprints : Unaffected(Item(fp), Item(fp)')]_vars

(***************************************************************************)
(* The two endpoints never disagree: a group listed under a project filter *)
(* is the group the item endpoint reports, whose List has no such filter,  *)
(* and every recorded fingerprint is listed with min_runs=0.               *)
(***************************************************************************)
EndpointsAgree ==
    \A p \in Projects :
        Groups(ListProject(p)) = {Item(runs[id].fingerprint) : id \in ListProject(p)}

\* spread.go:73-79: a metric "only one run in the group reported, contributes
\* nothing measurable and is skipped", and a group "with nothing measurable ...
\* ranks last".
Measurable(g) ==
    \E k \in DOMAIN g.metrics : g.metrics[k].mean # 0 /\ g.metrics[k].count > 1

UnmeasurableLast ==
    \A g, h \in Groups(Recorded) : Measurable(g) /\ ~Measurable(h) => Ranks(g, h)

\* cmd/rlctl/main.go:501: for a group marked NoRepeats, "only one run has been
\* recorded for this experiment".
NoRepeatsOneRun ==
    \A id \in Recorded : Item(runs[id].fingerprint).noRepeats =>
        Cardinality({r \in Recorded : runs[r].fingerprint = runs[id].fingerprint}) = 1

=============================================================================
