------------------------------ MODULE Compare ------------------------------
(***************************************************************************)
(* GET /v1/comparisons: internal/compare over two runs that the handler    *)
(* (internal/api, compare) reads one after the other while the ledger      *)
(* changes.  The ledger is the one every Store promises (Ledger), opened   *)
(* on a file that may hold runs of an older release, whose fingerprints    *)
(* were computed before parameter values were normalised.                  *)
(***************************************************************************)
EXTENDS StoreRules

CONSTANTS
    Recordable,     \* the runs that get recorded
    LegacyRuns,     \* the runs an older release may have left in the file
    Times

VARIABLES
    runs,           \* the ledger
    request         \* the comparison under way, or the last one answered

vars == <<runs, request>>

Store == INSTANCE Ledger

ASSUME CompareAssumption ==
    /\ Recordable \union LegacyRuns \subseteq Run
    /\ Times \subseteq Nat \ {0}
    /\ None \notin ParamValues /\ None \notin ProvValues /\ None \notin MetricValues
    /\ \A r \in Recordable : r.fingerprint = Compute(r) /\ Validate(r)
    /\ \A r \in LegacyRuns : r.fingerprint = LegacyCompute(r) /\ Validate(r)

-----------------------------------------------------------------------------
(* internal/compare/compare.go.                                            *)

\* Fault: the question is answered by hashing both runs again.
SameExperimentRecomputed(a, b) == Compute(a) = Compute(b)

\* The stored fingerprints decide; every stored run has one.
SameExperiment(a, b) == a.fingerprint = b.fingerprint

\* "" and "not recorded" are the same claim.
Optional(s) == IF s = Empty THEN None ELSE s

\* Fault: a bare map index, "" for a parameter that is not set.
ParamIndex(m, k) == IF k \in DOMAIN m THEN m[k] ELSE Empty

\* lookup, and fmtMetric: nil for a key the run does not have.
ParamLookup(m, k) == IF k \in DOMAIN m THEN m[k] ELSE None

MetricLookup(m, k) == IF k \in DOMAIN m THEN m[k] ELSE None

CaptureClient(c) == IF c = None THEN Empty ELSE c.client

\* The names in lexical order, so the set of them; optional("") if there is none.
CaptureAttempted(c) == IF c = None \/ c.names = {} THEN None ELSE c.names

\* The fields compare.Runs looks at, each under its kind; a parameter or a
\* metric is looked at if either run has it (unionKeys).
ParamNames(r)  == {<<"identity", "params", k>> : k \in DOMAIN Entries(r.params)}
MetricNames(r) == {<<"metric", "metrics", k>> : k \in DOMAIN Entries(r.metrics)}

Names(a, b) ==
    {<<"identity", "experiment">>, <<"identity", "git_dirty">>, <<"identity", "config_hash">>,
     <<"provenance", "status">>, <<"provenance", "capture.client">>,
     <<"provenance", "capture.attempted">>}
    \union {<<"provenance", "host", f>> : f \in ProvFields}
    \union ParamNames(a) \union ParamNames(b) \union MetricNames(a) \union MetricNames(b)

\* What a run recorded under a name, None if it recorded nothing.
Recorded(r, n) ==
    CASE n[2] = "experiment"        -> r.experiment
      [] n[2] = "git_dirty"         -> r.dirty
      [] n[2] = "config_hash"       -> Optional(r.config)
      [] n[2] = "params"            -> ParamLookup(Entries(r.params), n[3])
      [] n[2] = "host"              -> Optional(r.prov[n[3]])
      [] n[2] = "status"            -> r.status
      [] n[2] = "capture.client"    -> Optional(CaptureClient(r.capture))
      [] n[2] = "capture.attempted" -> CaptureAttempted(r.capture)
      [] n[2] = "metrics"           -> MetricLookup(Entries(r.metrics), n[3])

\* The fields that differ, with both values.  Their order is left out.
Fields(a, b) ==
    [n \in {m \in Names(a, b) : Recorded(a, m) # Recorded(b, m)} |->
        [a |-> Recorded(a, n), b |-> Recorded(b, n)]]

OfKind(kind, fields) == {n \in DOMAIN fields : n[1] = kind}

\* compare.Runs.
Diff(a, b) ==
    [same           |-> SameExperiment(a, b),
     fields         |-> Fields(a, b),
     unattributable |-> SameExperiment(a, b) /\ OfKind("metric", Fields(a, b)) # {}]

\* renderDiff (cmd/rlctl): what the caller is told.
RenderDiff(res) ==
    CASE DOMAIN res.fields = {} /\ res.same  -> "identical"
      [] DOMAIN res.fields = {} /\ ~res.same -> "report"
      [] DOMAIN res.fields # {} /\ res.unattributable -> "unattributable"
      [] OTHER -> IF res.same THEN "same" ELSE "different"

-----------------------------------------------------------------------------
(* The handler.                                                            *)

Idle == [pc |-> "idle", a |-> None, b |-> None, left |-> NoRun, right |-> NoRun,
         answer |-> None]

Ask(a, b) ==
    /\ request.pc \in {"idle", "answered"}
    /\ request' = [Idle EXCEPT !.pc = "get_a", !.a = a, !.b = b]
    /\ UNCHANGED runs

\* The first Get; a run that is not there is a 404.
GetA ==
    /\ request.pc = "get_a"
    /\ request' = IF runs[request.a] = NoRun THEN Idle
                  ELSE [request EXCEPT !.pc = "get_b", !.left = runs[request.a]]
    /\ UNCHANGED runs

\* The second, and the answer.
GetB ==
    /\ request.pc = "get_b"
    /\ request' = IF runs[request.b] = NoRun THEN Idle
                  ELSE [request EXCEPT !.pc = "answered", !.right = runs[request.b],
                                       !.answer = Diff(request.left, runs[request.b])]
    /\ UNCHANGED runs

Init ==
    /\ runs \in [RunIDs -> {Canonical(r) : r \in LegacyRuns} \union {NoRun}]
    /\ request = Idle

Next ==
    \/ \E id \in RunIDs : Store!Record(id) /\ UNCHANGED request
    \/ \E id \in RunIDs, p \in Patches : Store!Update(id, p) /\ UNCHANGED request
    \/ \E a, b \in RunIDs : Ask(a, b)
    \/ GetA
    \/ GetB

Spec == Init /\ [][Next]_vars

-----------------------------------------------------------------------------
(* Properties.                                                             *)

\* The ledger holds valid runs, and a request goes on only with runs it found.
TypeOK ==
    /\ \A id \in RunIDs : runs[id] # NoRun => Validate(runs[id]) /\ runs[id].status \in Statuses
    /\ request.pc \in {"idle", "get_a", "get_b", "answered"}
    /\ request.pc # "idle" => request.a \in RunIDs /\ request.b \in RunIDs
    /\ request.pc \in {"get_b", "answered"} => request.left # NoRun
    /\ request.pc = "answered" => request.right # NoRun

Answered == request.pc = "answered"

Now(id) == runs[id]

(***************************************************************************)
(* The two runs are read at different instants and patched in between, yet *)
(* the answer stays true.  A comparison of two finished runs is what asking*)
(* again at any later time would give.  Of any two runs, "one answer to    *)
(* the question rather than two" (SameExperiment's comment): compare calls *)
(* them the same experiment exactly when spread groups them, by the        *)
(* fingerprint stored now, runs of an older release included, and the      *)
(* identity fields it names are those that differ now.                     *)
(***************************************************************************)
VerdictLasts ==
    Answered =>
        LET now == Diff(Now(request.a), Now(request.b))
        IN  /\ Terminal(request.left.status) /\ Terminal(request.right.status) =>
                  request.answer = now
            /\ request.answer.same <=> Now(request.a).fingerprint = Now(request.b).fingerprint
            /\ OfKind("identity", request.answer.fields) = OfKind("identity", now.fields)

(***************************************************************************)
(* A difference of experiments is always explained: two runs fingerprinted *)
(* under the current contract that are different experiments differ in an  *)
(* identity field the diff shows (cmd/rlctl/main.go:412 "compare.Runs      *)
(* covers every input lineage.Run.Compute hashes"), so that renderDiff has *)
(* no need to ask for a report, and what it calls identical is so.         *)
(***************************************************************************)
DifferenceNamed ==
    Answered /\ (\A r \in {request.left, request.right} : r.fingerprint = Compute(r)) =>
        /\ request.answer.same \/ OfKind("identity", request.answer.fields) # {}
        /\ RenderDiff(request.answer) # "report"
        /\ RenderDiff(request.answer) = "identical" =>
              /\ request.left.prov = request.right.prov
              /\ Entries(request.left.params) = Entries(request.right.params)
              /\ Entries(request.left.metrics) = Entries(request.right.metrics)

\* compare.go:80-82: "SameExperiment is true when the fingerprints match - no
\* identity field differs".
SameHasNoIdentityField ==
    Answered /\ request.answer.same =>
        OfKind("identity", request.answer.fields) = {}

\* cmd/rlctl/main.go:418-419: "No field differs, which should not be possible
\* for fingerprints that differ".
DifferentHasField ==
    Answered /\ ~request.answer.same => DOMAIN request.answer.fields # {}

=============================================================================
