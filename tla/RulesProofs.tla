---------------------------- MODULE RulesProofs ----------------------------
(***************************************************************************)
(* Lemmas about the run record and the rules every backend shares          *)
(* (Lineage, StoreRules): what a merge of maps, an applied patch and a     *)
(* normalised declaration are, for every run, patch and time.              *)
(***************************************************************************)
EXTENDS StoreRules, TLAPS

(***************************************************************************)
(* Merging two maps gives a map: what the metric and provenance merges of  *)
(* applyPatch rest on.                                                     *)
(***************************************************************************)
LEMMA MergeIsMap ==
    \A K, V : \A f, g \in MapsOver(K, V) : Overlay(f, g) \in MapsOver(K, V)
<1> TAKE K, V
<1> TAKE f, g \in MapsOver(K, V)
<1>1. PICK A \in SUBSET K : f \in [A -> V]
  BY DEF MapsOver
<1>2. PICK B \in SUBSET K : g \in [B -> V]
  BY DEF MapsOver
<1>3. Overlay(f, g) \in [A \union B -> V]
  BY <1>1, <1>2 DEF Overlay
<1> QED
  BY <1>3 DEF MapsOver

\* A patch's provenance entries are laid over a complete set of them.
LEMMA MergeIsTotal ==
    ASSUME NEW K, NEW V, NEW f \in MapsOver(K, V), NEW g \in [K -> V]
    PROVE  /\ Overlay(f, g) \in [K -> V]
           /\ \A k \in DOMAIN f : Overlay(f, g)[k] = f[k]
<1>1. PICK A \in SUBSET K : f \in [A -> V]
  BY DEF MapsOver
<1> QED
  BY <1>1 DEF Overlay

\* Entries of a nil or non-nil metric map is a metric map.
LEMMA EntriesIsMap ==
    ASSUME NEW K, NEW V, NEW m \in MapsOver(K, V) \union {None}
    PROVE  Entries(m) \in MapsOver(K, V)
<1>1. CASE m = None
  <2>1. [k \in {} |-> k] \in [{} -> V]
    OBVIOUS
  <2>2. {} \in SUBSET K
    OBVIOUS
  <2> QED
    BY <1>1, <2>1, <2>2 DEF Entries, MapsOver
<1>2. CASE m # None
  BY <1>2 DEF Entries
<1> QED
  BY <1>1, <1>2

-----------------------------------------------------------------------------
(* What applyPatch can do to a stored run.                                 *)

\* The two ways to a 200: a repeat to a finished run, or a merge.
LEMMA PatchOutcome ==
    ASSUME NEW e, NEW p, NEW now, ApplyPatch(e, p, now).err = "nil"
    PROVE  /\ IdentityUnchanged(e, p)
           /\ p.status \in Statuses \union {None}
           /\ \/ /\ Terminal(e.status)
                 /\ IsNoopPatch(e, p)
                 /\ ApplyPatch(e, p, now).run = e
              \/ /\ ~Terminal(e.status)
                 /\ p.status = None \/ p.status = e.status \/ LegalTransition(e.status, p.status)
                 /\ Validate(Merged(e, p, now))
                 /\ ApplyPatch(e, p, now).run = Merged(e, p, now)
  BY DEF ApplyPatch, Refused, Ok

\* The fields of a merge, one by one.
LEMMA MergedFields ==
    ASSUME NEW e \in Run, NEW p \in Patch, NEW now \in Nat \ {0},
           p.status \in Statuses \union {None}
    PROVE  LET r == Merged(e, p, now)
           IN  /\ r \in Run
               /\ IdentityOf(r) = IdentityOf(e)
               /\ r.params = e.params
               /\ Compute(r) = Compute(e)
               /\ r.fingerprint = e.fingerprint
               /\ r.startedAt = e.startedAt
               /\ r.capture = e.capture
               /\ r.status = IF p.status # None THEN p.status ELSE e.status
               /\ p.endedAt # None => r.endedAt = p.endedAt
               /\ Terminal(r.status) => r.endedAt # None
               /\ \A f \in DOMAIN p.prov : r.prov[f] = p.prov[f]
               /\ DOMAIN Entries(e.metrics) \subseteq DOMAIN Entries(r.metrics)
               /\ \A k \in DOMAIN Entries(p.metrics) :
                     /\ k \in DOMAIN Entries(r.metrics)
                     /\ Entries(r.metrics)[k] = Entries(p.metrics)[k]
<1> DEFINE r == Merged(e, p, now)
           status == IF p.status # None THEN p.status ELSE e.status
           ended  == IF p.endedAt # None THEN p.endedAt ELSE e.endedAt
           endedAt == IF Terminal(status) /\ ended = None THEN now ELSE ended
           prov == Overlay(p.prov, e.prov)
           metrics == IF p.metrics # None THEN Overlay(p.metrics, Entries(e.metrics)) ELSE e.metrics
<1>0. /\ e.prov \in [ProvFields -> ProvValues]
      /\ p.prov \in MapsOver(ProvFields, ProvValues)
      /\ e.metrics \in MapsOver(MetricKeys, MetricValues) \union {None}
      /\ p.metrics \in MapsOver(MetricKeys, MetricValues) \union {None}
  BY DEF Run, Patch, MetricMaps
<1>1. /\ prov \in [ProvFields -> ProvValues]
      /\ \A f \in DOMAIN p.prov : prov[f] = p.prov[f]
  BY <1>0, MergeIsTotal
<1>2. Entries(e.metrics) \in MapsOver(MetricKeys, MetricValues)
  BY <1>0, EntriesIsMap
<1>3. /\ metrics \in MetricMaps \union {None}
      /\ DOMAIN Entries(e.metrics) \subseteq DOMAIN Entries(metrics)
      /\ \A k \in DOMAIN Entries(p.metrics) :
            /\ k \in DOMAIN Entries(metrics)
            /\ Entries(metrics)[k] = Entries(p.metrics)[k]
  <2>1. CASE p.metrics = None
    BY <1>0, <2>1 DEF Entries, MetricMaps
  <2>2. CASE p.metrics # None
    <3>1. p.metrics \in MapsOver(MetricKeys, MetricValues)
      BY <1>0, <2>2
    <3> DEFINE both == Overlay(p.metrics, Entries(e.metrics))
    <3>2. both \in MapsOver(MetricKeys, MetricValues)
      BY <3>1, <1>2, MergeIsMap
    <3>3. metrics = both
      BY <2>2
    <3>4. /\ metrics \in MapsOver(MetricKeys, MetricValues)
          /\ DOMAIN metrics = DOMAIN p.metrics \union DOMAIN Entries(e.metrics)
          /\ \A k \in DOMAIN p.metrics : metrics[k] = p.metrics[k]
      BY <3>2, <3>3 DEF Overlay
    <3>5. metrics # None /\ Entries(metrics) = metrics /\ Entries(p.metrics) = p.metrics
      BY <3>4, <2>2, NoneAssumption DEF Entries, MetricMaps
    <3> QED
      BY <3>4, <3>5 DEF MetricMaps
  <2> QED
    BY <2>1, <2>2
<1>4. status \in Statuses \union {UnknownStatus}
  BY DEF Run
<1>5. endedAt \in Nat \union {None} /\ (Terminal(status) => endedAt # None)
  <2>1. e.endedAt \in Nat \union {None} /\ p.endedAt \in Nat \union {None}
    BY DEF Run, Patch
  <2>2. None \notin Nat
    BY NoneAssumption
  <2> QED
    BY <2>1, <2>2
<1>6. r = [e EXCEPT !.status = status, !.endedAt = endedAt, !.prov = prov, !.metrics = metrics]
  BY DEF Merged
<1> HIDE DEF r, status, ended, endedAt, prov, metrics
<1>7. r \in Run
  BY <1>1, <1>3, <1>4, <1>5, <1>6 DEF Run
<1>8. /\ r.status = status /\ r.endedAt = endedAt /\ r.prov = prov /\ r.metrics = metrics
      /\ r.experiment = e.experiment /\ r.dirty = e.dirty /\ r.config = e.config
      /\ r.params = e.params /\ r.fingerprint = e.fingerprint
      /\ r.startedAt = e.startedAt /\ r.capture = e.capture
  BY <1>6 DEF Run
<1>9. IdentityOf(r) = IdentityOf(e) /\ Compute(r) = Compute(e)
  BY <1>8 DEF IdentityOf, Compute
<1>10. p.endedAt # None => endedAt = p.endedAt
  BY DEF endedAt, ended
<1>11. status = IF p.status # None THEN p.status ELSE e.status
  BY DEF status
<1> QED
  BY <1>1, <1>3, <1>5, <1>7, <1>8, <1>9, <1>10, <1>11 DEF r

(***************************************************************************)
(* A patch answered 200 leaves a valid run with the identity, fingerprint, *)
(* start time and declaration it had and no metric less; it moves the      *)
(* status one legal step or not at all; and it leaves a finished run alone.*)
(***************************************************************************)
LEMMA PatchKeeps ==
    ASSUME NEW e \in Run, NEW p \in Patch, NEW now \in Nat \ {0},
           ApplyPatch(e, p, now).err = "nil",
           Validate(e), e.status \in Statuses
    PROVE  LET r == ApplyPatch(e, p, now).run
           IN  /\ r \in Run
               /\ Validate(r)
               /\ r.status \in Statuses
               /\ Compute(r) = Compute(e)
               /\ IdentityOf(r) = IdentityOf(e)
               /\ r.fingerprint = e.fingerprint
               /\ r.startedAt = e.startedAt
               /\ r.capture = e.capture
               /\ DOMAIN Entries(e.metrics) \subseteq DOMAIN Entries(r.metrics)
               /\ Terminal(e.status) => r = e
               /\ r.status # e.status =>
                     /\ LegalTransition(e.status, r.status)
                     /\ Terminal(r.status) => r.endedAt # None
<1> DEFINE r == ApplyPatch(e, p, now).run
<1>1. CASE Terminal(e.status)
  <2>1. r = e
    BY <1>1, PatchOutcome
  <2> QED
    BY <2>1
<1>2. CASE ~Terminal(e.status)
  <2>1. /\ r = Merged(e, p, now)
        /\ Validate(r)
        /\ p.status \in Statuses \union {None}
        /\ p.status = None \/ p.status = e.status \/ LegalTransition(e.status, p.status)
    BY <1>2, PatchOutcome
  <2>2. /\ r \in Run
        /\ IdentityOf(r) = IdentityOf(e)
        /\ Compute(r) = Compute(e)
        /\ r.fingerprint = e.fingerprint
        /\ r.startedAt = e.startedAt
        /\ r.capture = e.capture
        /\ r.status = IF p.status # None THEN p.status ELSE e.status
        /\ Terminal(r.status) => r.endedAt # None
        /\ DOMAIN Entries(e.metrics) \subseteq DOMAIN Entries(r.metrics)
    BY <2>1, MergedFields
  <2> HIDE DEF r
  <2>3. r.status \in Statuses
    BY <2>1, <2>2
  <2>4. r.status # e.status => LegalTransition(e.status, r.status)
    BY <2>1, <2>2
  <2> QED
    BY <1>2, <2>1, <2>2, <2>3, <2>4 DEF r
<1> QED
  BY <1>1, <1>2

\* A run that is valid and stamped stays so when its declaration is put in order.
LEMMA NormalizedRun ==
    ASSUME NEW r \in Run, r.fingerprint = Compute(r), Validate(r)
    PROVE  LET new == [r EXCEPT !.capture = NormalizeCapture(@)]
           IN  /\ new \in Run
               /\ Validate(new)
               /\ new.status \in Statuses
               /\ new.fingerprint = Compute(new)
               /\ new.capture # None => new.capture.sorted = TRUE
<1> DEFINE new == [r EXCEPT !.capture = NormalizeCapture(@)]
<1>1. r.capture \in Captures
  BY DEF Run
<1>2. /\ NormalizeCapture(r.capture) \in Captures
      /\ NormalizeCapture(r.capture) # None =>
            /\ r.capture # None
            /\ NormalizeCapture(r.capture).names = r.capture.names
            /\ NormalizeCapture(r.capture).sorted = TRUE
  BY <1>1 DEF Captures, CaptureDeclaration, NormalizeCapture
<1>3. new \in Run
  BY <1>2 DEF Run
<1>4. /\ new.capture = NormalizeCapture(r.capture)
      /\ new.experiment = r.experiment /\ new.dirty = r.dirty /\ new.config = r.config
      /\ new.params = r.params /\ new.fingerprint = r.fingerprint
      /\ new.status = r.status /\ new.startedAt = r.startedAt /\ new.endedAt = r.endedAt
  BY DEF Run
<1> HIDE DEF new
<1>5. Validate(new)
  BY <1>2, <1>4 DEF Validate
<1>6. new.fingerprint = Compute(new)
  BY <1>4 DEF Compute
<1>7. new.status \in Statuses
  <2>1. new.status # ""
    BY <1>3 DEF Run, Statuses, UnknownStatus, Created, Running, Succeeded, Failed, Cancelled
  <2> QED
    BY <2>1, <1>5 DEF Validate
<1> QED
  BY <1>2, <1>3, <1>4, <1>5, <1>6, <1>7 DEF new

\* applyPatch does not tell a nil map from an empty one: what it answers for
\* the run as clients see it is what they see of its answer for the run.
LEMMA PatchCanonical ==
    ASSUME NEW e \in Run, NEW p \in Patch, NEW now \in Nat \ {0},
           ApplyPatch(e, p, now).err = "nil"
    PROVE  /\ ApplyPatch(Canonical(e), p, now).err = "nil"
           /\ Canonical(ApplyPatch(Canonical(e), p, now).run)
                = Canonical(ApplyPatch(e, p, now).run)
<1> DEFINE c == Canonical(e)
<1>1. /\ c.experiment = e.experiment /\ c.dirty = e.dirty /\ c.config = e.config
      /\ c.status = e.status /\ c.startedAt = e.startedAt /\ c.endedAt = e.endedAt
      /\ c.prov = e.prov /\ c.capture = e.capture
      /\ c.params = Entries(e.params) /\ c.metrics = Entries(e.metrics)
  BY DEF Canonical, Run
<1>2. Entries(e.params) # None /\ Entries(e.metrics) # None
  <2>1. Entries(e.params) \in ParamMaps
    BY EntriesIsMap DEF Run, ParamMaps
  <2>2. Entries(e.metrics) \in MetricMaps
    BY EntriesIsMap DEF Run, MetricMaps
  <2> QED
    BY <2>1, <2>2, NoneAssumption
<1>3. Entries(c.params) = Entries(e.params) /\ Entries(c.metrics) = Entries(e.metrics)
  BY <1>1, <1>2 DEF Entries
<1>4. IdentityUnchanged(c, p) /\ p.status \in Statuses \union {None}
  BY <1>1, <1>3, PatchOutcome DEF IdentityUnchanged
<1>5. CASE Terminal(e.status)
  <2>1. ApplyPatch(e, p, now).run = e /\ IsNoopPatch(e, p)
    BY <1>5, PatchOutcome
  <2>2. IsNoopPatch(c, p)
    BY <2>1, <1>1, <1>3 DEF IsNoopPatch
  <2>3. ApplyPatch(c, p, now) = Ok(c)
    BY <2>2, <1>1, <1>4, <1>5 DEF ApplyPatch
  <2>4. Canonical(c) = c
    BY <1>1, <1>3 DEF Canonical, Run
  <2> QED
    BY <2>1, <2>3, <2>4 DEF Ok
<1>6. CASE ~Terminal(e.status)
  <2> DEFINE r == Merged(e, p, now)
             s == Merged(c, p, now)
  <2>1. /\ ApplyPatch(e, p, now).run = r
        /\ Validate(r)
        /\ p.status = None \/ p.status = e.status \/ LegalTransition(e.status, p.status)
    BY <1>6, PatchOutcome
  <2>2. s = [r EXCEPT !.params = Entries(e.params),
                      !.metrics = IF p.metrics # None THEN @ ELSE Entries(e.metrics)]
    BY <1>1, <1>3, ZenonT(60) DEF Merged, Canonical, Run
  <2>3. Validate(s)
    BY <2>1, <2>2 DEF Validate, Merged, Run
  <2>4. ApplyPatch(c, p, now) = Ok(s)
    BY <2>1, <2>3, <1>1, <1>4, <1>6 DEF ApplyPatch
  <2>5. Canonical(s) = Canonical(r)
    <3>1. r \in Run
      BY <1>4, MergedFields
    <3>2. r.params = e.params /\ (p.metrics = None => r.metrics = e.metrics)
      BY DEF Merged, Run
    <3>3. Entries(Entries(e.params)) = Entries(e.params)
      BY <1>1, <1>3
    <3>4. Entries(Entries(e.metrics)) = Entries(e.metrics)
      BY <1>1, <1>3
    <3> HIDE DEF r, s
    <3>5. CASE p.metrics = None
      BY <2>2, <3>1, <3>2, <3>3, <3>4, <3>5 DEF Canonical, Run
    <3>6. CASE p.metrics # None
      BY <2>2, <3>1, <3>2, <3>3, <3>6 DEF Canonical, Run
    <3> QED
      BY <3>5, <3>6
  <2> QED
    BY <2>1, <2>4, <2>5 DEF Ok
<1> QED
  BY <1>5, <1>6

=============================================================================
