---------------------------- MODULE StoreRules ----------------------------
(***************************************************************************)
(* internal/store/store.go: what every backend's Update does to a run it   *)
(* has loaded.  applyPatch is a pure function of the run, the patch and    *)
(* the time, and the backends (Store, DuckStore) share it.                 *)
(***************************************************************************)
EXTENDS Lineage

CONSTANTS
    RunIDs,
    Patches,        \* the PATCH bodies clients send
    NoRun           \* no run is stored under this id

-----------------------------------------------------------------------------
(* Runs and patches.                                                       *)

Identity == [experiment : Experiments \union {Blank},
             dirty      : BOOLEAN,
             config     : Configs \union {Empty},
             params     : ParamMaps \union {None}]

\* Under the current contract, and under that of an older release.
Fingerprints ==
    {Compute(i) : i \in Identity} \union {LegacyCompute(i) : i \in Identity}

\* A run once api.record has stamped it.
Run == [experiment  : Experiments \union {Blank},
        dirty       : BOOLEAN,
        config      : Configs \union {Empty},
        params      : ParamMaps \union {None},
        fingerprint : Fingerprints,
        status      : Statuses \union {UnknownStatus},
        startedAt   : Nat \ {0},
        endedAt     : Nat \union {None},
        prov        : [ProvFields -> ProvValues],
        metrics     : MetricMaps \union {None},
        capture     : Captures]

\* store.Patch: None is a field the request does not mention, and so is a
\* provenance field that prov has no entry for.
Patch == [experiment : Experiments \union {Blank, None},
          dirty      : BOOLEAN \union {None},
          config     : Configs \union {Empty, None},
          params     : ParamMaps \union {None},
          status     : Statuses \union {UnknownStatus, None},
          endedAt    : Nat \union {None},
          prov       : MapsOver(ProvFields, ProvValues),
          metrics    : MetricMaps \union {None}]

ASSUME PatchesAssumption == Patches \subseteq Patch
ASSUME NoRunAssumption   == NoRun \notin Run /\ Empty \notin RunIDs

IdentityOf(r) == [experiment |-> r.experiment, dirty |-> r.dirty,
                  config |-> r.config, params |-> r.params]

\* A run up to nil maps: a nil map and an empty one "mean the same thing"
\* (paramsEqual's comment).
Canonical(r) == [r EXCEPT !.params = Entries(@), !.metrics = Entries(@)]

-----------------------------------------------------------------------------
(* internal/store/store.go: the rules every backend's Update applies.      *)

LegalTransition(from, to) ==
    \/ from = Created /\ to = Running
    \/ from = Running /\ Terminal(to)

\* Go's m[k], which is "" for a key that m does not have.
Lookup(m, k) == IF k \in DOMAIN m THEN m[k] ELSE Empty

\* paramsEqual: as many keys, and every key of a indexed in b.
ParamsEqual(a, b) ==
    /\ Cardinality(DOMAIN a) = Cardinality(DOMAIN b)
    /\ \A k \in DOMAIN a : Lookup(b, k) = a[k]

IdentityUnchanged(existing, p) ==
    /\ p.experiment # None => p.experiment = existing.experiment
    /\ p.dirty # None => p.dirty = existing.dirty
    /\ p.config # None => p.config = existing.config
    /\ p.params # None => ParamsEqual(p.params, Entries(existing.params))

\* Fault: a repeated end time is taken for a change, as if the two pointers
\* were compared instead of the instants.
IsNoopPatchByPointer(existing, p) ==
    /\ p.status # None => p.status = existing.status
    /\ p.endedAt = None
    /\ \A f \in DOMAIN p.prov : p.prov[f] = existing.prov[f]
    /\ \A k \in DOMAIN Entries(p.metrics) :
          /\ k \in DOMAIN Entries(existing.metrics)
          /\ Entries(existing.metrics)[k] = Entries(p.metrics)[k]

IsNoopPatch(existing, p) ==
    /\ p.status # None => p.status = existing.status
    /\ p.endedAt # None => p.endedAt = existing.endedAt
    /\ \A f \in DOMAIN p.prov : p.prov[f] = existing.prov[f]
    /\ \A k \in DOMAIN Entries(p.metrics) :
          /\ k \in DOMAIN Entries(existing.metrics)
          /\ Entries(existing.metrics)[k] = Entries(p.metrics)[k]

\* Fault: the patch's metrics replace the stored map.
MergedReplacing(existing, p, now) ==
    LET status == IF p.status # None THEN p.status ELSE existing.status
        ended  == IF p.endedAt # None THEN p.endedAt ELSE existing.endedAt
    IN  [existing EXCEPT
           !.status  = status,
           !.endedAt = IF Terminal(status) /\ ended = None THEN now ELSE ended,
           !.prov    = Overlay(p.prov, @),
           !.metrics = IF p.metrics # None THEN p.metrics ELSE @]

\* The field-by-field merge of applyPatch, lines 229-275.
Merged(existing, p, now) ==
    LET status == IF p.status # None THEN p.status ELSE existing.status
        ended  == IF p.endedAt # None THEN p.endedAt ELSE existing.endedAt
    IN  [existing EXCEPT
           !.status  = status,
           !.endedAt = IF Terminal(status) /\ ended = None THEN now ELSE ended,
           !.prov    = Overlay(p.prov, @),
           !.metrics = IF p.metrics # None THEN Overlay(p.metrics, Entries(@)) ELSE @]

Ok(run)      == [err |-> "nil", run |-> run]
Refused(err) == [err |-> err, run |-> NoRun]

\* Fault: only a change of status is checked against the lifecycle, so a
\* finished run still takes metrics and provenance.
ApplyPatchToFinished(existing, p, now) ==
    IF ~IdentityUnchanged(existing, p) THEN Refused("ErrIdentityConflict")
    ELSE IF p.status \notin Statuses \union {None} THEN Refused("ErrUnknownStatus")
    ELSE IF /\ p.status # None
            /\ p.status # existing.status
            /\ ~LegalTransition(existing.status, p.status)
         THEN Refused("ErrIllegalTransition")
    ELSE IF ~Validate(Merged(existing, p, now)) THEN Refused("invalid")
    ELSE Ok(Merged(existing, p, now))

\* Fault: the merged run is not validated again.
ApplyPatchUnvalidated(existing, p, now) ==
    IF ~IdentityUnchanged(existing, p) THEN Refused("ErrIdentityConflict")
    ELSE IF p.status \notin Statuses \union {None} THEN Refused("ErrUnknownStatus")
    ELSE IF Terminal(existing.status)
         THEN IF IsNoopPatch(existing, p) THEN Ok(existing)
              ELSE Refused("ErrIllegalTransition")
    ELSE IF /\ p.status # None
            /\ p.status # existing.status
            /\ ~LegalTransition(existing.status, p.status)
         THEN Refused("ErrIllegalTransition")
    ELSE Ok(Merged(existing, p, now))

ApplyPatch(existing, p, now) ==
    IF ~IdentityUnchanged(existing, p) THEN Refused("ErrIdentityConflict")
    ELSE IF p.status \notin Statuses \union {None} THEN Refused("ErrUnknownStatus")
    ELSE IF Terminal(existing.status)
         THEN IF IsNoopPatch(existing, p) THEN Ok(existing)
              ELSE Refused("ErrIllegalTransition")
    ELSE IF /\ p.status # None
            /\ p.status # existing.status
            /\ ~LegalTransition(existing.status, p.status)
         THEN Refused("ErrIllegalTransition")
    ELSE IF ~Validate(Merged(existing, p, now)) THEN Refused("invalid")
    ELSE Ok(Merged(existing, p, now))

=============================================================================
