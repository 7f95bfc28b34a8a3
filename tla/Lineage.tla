------------------------------ MODULE Lineage ------------------------------
(***************************************************************************)
(* internal/lineage: the run record, what Validate refuses and what        *)
(* Compute hashes.  Constant-level operators only; the store and the HTTP  *)
(* handlers that use them are in Store.                                    *)
(*                                                                         *)
(* Fields that the code only copies, compares and hashes are grouped:      *)
(*   experiment  project, git_commit, dataset_version, model_version, seed *)
(* and the provenance strings (host, device, framework_version,            *)
(* submitter_claim, job_id, checkpoint_uri) are one map.  A time is a      *)
(* natural number and 0 is Go's zero time.                                 *)
(***************************************************************************)
EXTENDS Integers, FiniteSets

CONSTANTS
    Experiments,    \* values of the grouped scalar identity fields
    Blank,          \* the same, with project or git_commit blank
    Configs,        \* non-empty config hashes
    ParamKeys,
    ParamValues,    \* spellings of a parameter's value, Empty among them
    Canon,          \* normalizeParamValue: a spelling's canonical spelling
    ProvFields,     \* names of the provenance strings
    ProvValues,
    MetricKeys,
    MetricValues,
    Clients,        \* capture.client strings
    None,           \* a nil pointer, or a nil map
    Empty           \* the empty string

(***************************************************************************)
(* normalizeParamValue rewrites a number to one canonical spelling and     *)
(* leaves everything else alone, so it is a function that is its own       *)
(* fixed point.                                                            *)
(***************************************************************************)
ASSUME CanonAssumption ==
    /\ Canon \in [ParamValues -> ParamValues]
    /\ \A v \in ParamValues : Canon[Canon[v]] = Canon[v]

ASSUME EmptyAssumption ==
    /\ Empty \in ParamValues
    /\ Canon[Empty] = Empty
    /\ Empty \notin Configs

-----------------------------------------------------------------------------
(* Status, lineage/run.go:215-238.                                         *)

Created   == "created"
Running   == "running"
Succeeded == "succeeded"
Failed    == "failed"
Cancelled == "cancelled"

Statuses == {Created, Running, Succeeded, Failed, Cancelled}

\* A string no status map contains, as a client may send one.
UnknownStatus == "paused"

Terminal(s) == s \in {Succeeded, Failed, Cancelled}

-----------------------------------------------------------------------------
(* Records.                                                                *)

MapsOver(keys, values) == UNION {[K -> values] : K \in SUBSET keys}

ParamMaps  == MapsOver(ParamKeys, ParamValues)
MetricMaps == MapsOver(MetricKeys, MetricValues)

\* What ranging over a Go map sees: a nil map (None) has no entries, like an
\* empty one, although reflect.DeepEqual tells the two apart.
Entries(m) == IF m = None THEN [k \in {} |-> k] ELSE m

\* The map m with the entries of new laid over it.
Overlay(new, m) ==
    [k \in DOMAIN new \union DOMAIN m |-> IF k \in DOMAIN new THEN new[k] ELSE m[k]]

\* The fields a capture declaration may name, and a name that is not one.
CaptureFields == {"config_hash", "dataset_version", "model_version", "host",
                  "device", "framework_version", "checkpoint_uri"}
UnknownField  == "wall_clock"

\* capture.attempted is a list that stands for a set: the names it holds, and
\* whether it holds them in lexical order.
CaptureDeclaration ==
    [client : Clients,
     names  : SUBSET (CaptureFields \union {UnknownField}),
     sorted : BOOLEAN]

Captures == CaptureDeclaration \union {None}

\* nil is none of the values above.
ASSUME NoneAssumption ==
    /\ None \notin Nat \union BOOLEAN \union Statuses \union {UnknownStatus}
    /\ None \notin Experiments \union {Blank} \union Configs \union {Empty}
    /\ None \notin ParamMaps \union MetricMaps \union CaptureDeclaration

\* sort.Strings on Attempted.
NormalizeCapture(c) == IF c = None THEN c ELSE [c EXCEPT !.sorted = TRUE]

Validate(r) ==
    /\ r.experiment # Blank
    /\ r.status \in Statuses \union {""}
    /\ ~(r.dirty /\ r.config = Empty)
    /\ r.endedAt # None => r.startedAt <= r.endedAt
    /\ r.capture # None => r.capture.names \subseteq CaptureFields

(***************************************************************************)
(* The fingerprint: SHA-256 over the length-prefixed identity fields and   *)
(* the sorted, normalised parameters.  Two inputs of the hash are equal    *)
(* exactly when these tuples are, and the model takes the hash to be free  *)
(* of collisions.                                                          *)
(***************************************************************************)
Compute(r) ==
    <<r.experiment, r.dirty, r.config,
      [k \in DOMAIN Entries(r.params) |-> Canon[Entries(r.params)[k]]]>>

\* FingerprintVersionLegacy: the hash before ADR 0013, of the parameters as spelled.
LegacyCompute(r) == <<r.experiment, r.dirty, r.config, Entries(r.params)>>

=============================================================================
