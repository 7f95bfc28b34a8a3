---------------------------- MODULE CompareProofs ----------------------------
(***************************************************************************)
(* Proofs about Compare, for every set of runs and patches.                *)
(*                                                                         *)
(* The argument: of a run that a comparison has read, everything that is   *)
(* identity, and all of it if it is finished, is still so in the ledger.   *)
(* And the diff looks at every input of the fingerprint.                   *)
(***************************************************************************)
EXTENDS Compare, RulesProofs

-----------------------------------------------------------------------------
(* The inductive invariant.                                                *)

\* A run as the ledger holds it: valid, its maps not nil.
Sound(r) ==
    /\ r \in Run
    /\ Validate(r)
    /\ r.status \in Statuses
    /\ Canonical(r) = r

\* What is left of r in every later version s of it.
Kept(r, s) ==
    /\ Sound(r) /\ Sound(s)
    /\ s.experiment = r.experiment /\ s.dirty = r.dirty /\ s.config = r.config
    /\ s.params = r.params
    /\ s.fingerprint = r.fingerprint
    /\ Terminal(r.status) => s = r

RunsSound ==
    /\ runs \in [RunIDs -> Run \union {NoRun}]
    /\ \A id \in RunIDs : runs[id] # NoRun => Sound(runs[id])

RequestKept ==
    /\ request \in [pc : {"idle", "get_a", "get_b", "answered"}, a : RunIDs \union {None},
                    b : RunIDs \union {None}, left : Run \union {NoRun},
                    right : Run \union {NoRun}, answer : {request.answer}]
    /\ request.pc # "idle" => request.a \in RunIDs /\ request.b \in RunIDs
    /\ request.pc \in {"get_b", "answered"} => Kept(request.left, runs[request.a])
    /\ request.pc = "answered" =>
          /\ Kept(request.right, runs[request.b])
          /\ request.answer = Diff(request.left, request.right)

IInv == RunsSound /\ RequestKept

-----------------------------------------------------------------------------
(* The ledger.                                                             *)

\* Ledger's copy of the rules is the store's: they are the same definitions
\* over the same constants.
LEMMA SameRules ==
    ASSUME NEW e, NEW p, NEW now
    PROVE  /\ Store!ApplyPatch(e, p, now) = ApplyPatch(e, p, now)
           /\ Store!Canonical(e) = Canonical(e)
           /\ Store!Validate(e) = Validate(e)
<1>1. /\ \A s : Store!Terminal(s) = Terminal(s)
      /\ Store!Statuses = Statuses
      /\ Store!CaptureFields = CaptureFields
      /\ \A s, t : Store!LegalTransition(s, t) = LegalTransition(s, t)
  BY DEF Store!Terminal, Terminal, Store!Statuses, Statuses,
         Store!CaptureFields, CaptureFields, Store!LegalTransition, LegalTransition,
         Store!Created, Created, Store!Running, Running, Store!Succeeded, Succeeded,
         Store!Failed, Failed, Store!Cancelled, Cancelled
<1>2. /\ \A m : Store!Entries(m) = Entries(m)
      /\ \A m, n : Store!Overlay(m, n) = Overlay(m, n)
      /\ \A m, n : Store!ParamsEqual(m, n) = ParamsEqual(m, n)
  <2>1. \A m : Store!Entries(m) = Entries(m)
    BY DEF Store!Entries, Entries
  <2>2. \A m, n : Store!Overlay(m, n) = Overlay(m, n)
    BY DEF Store!Overlay, Overlay
  <2>3. \A m, n : Store!ParamsEqual(m, n) = ParamsEqual(m, n)
    <3>1. \A m, k : Store!Lookup(m, k) = Lookup(m, k)
      BY DEF Store!Lookup, Lookup
    <3>2. \A S : Store!Cardinality(S) = Cardinality(S)
      BY Zenon DEF Store!Cardinality, Cardinality
    <3> QED
      BY <3>1, <3>2 DEF Store!ParamsEqual, ParamsEqual
  <2> QED
    BY <2>1, <2>2, <2>3
<1>3. \A r : Store!Validate(r) = Validate(r) /\ Store!Canonical(r) = Canonical(r)
  BY <1>1, <1>2 DEF Store!Validate, Validate, Store!Canonical, Canonical
<1>4. Store!IdentityUnchanged(e, p) = IdentityUnchanged(e, p)
  BY <1>2 DEF Store!IdentityUnchanged, IdentityUnchanged
<1>5. Store!IsNoopPatch(e, p) = IsNoopPatch(e, p)
  BY <1>2 DEF Store!IsNoopPatch, IsNoopPatch
<1>6. Store!Merged(e, p, now) = Merged(e, p, now)
  BY <1>1, <1>2 DEF Store!Merged, Merged
<1>7. /\ \A r : Store!Ok(r) = Ok(r)
      /\ \A err : Store!Refused(err) = Refused(err)
  BY DEF Store!Ok, Ok, Store!Refused, Refused
<1>8. Store!ApplyPatch(e, p, now) = ApplyPatch(e, p, now)
  BY <1>1, <1>3, <1>4, <1>5, <1>6, <1>7 DEF Store!ApplyPatch, ApplyPatch
<1> QED
  BY <1>3, <1>8

\* Making nil maps empty changes nothing else, and nothing the second time.
LEMMA CanonicalRun ==
    ASSUME NEW r \in Run
    PROVE  LET c == Canonical(r)
           IN  /\ c \in Run
               /\ c.experiment = r.experiment /\ c.dirty = r.dirty /\ c.config = r.config
               /\ c.params = Entries(r.params) /\ c.metrics = Entries(r.metrics)
               /\ c.fingerprint = r.fingerprint /\ c.status = r.status
               /\ c.startedAt = r.startedAt /\ c.endedAt = r.endedAt /\ c.prov = r.prov
               /\ c.capture = r.capture
               /\ Canonical(c) = c
               /\ Validate(r) => Validate(c)
<1> DEFINE c == Canonical(r)
<1>1. Entries(r.params) \in ParamMaps /\ Entries(r.metrics) \in MetricMaps
  BY EntriesIsMap DEF Run, ParamMaps, MetricMaps
<1>2. /\ c \in Run
      /\ c.experiment = r.experiment /\ c.dirty = r.dirty /\ c.config = r.config
      /\ c.params = Entries(r.params) /\ c.metrics = Entries(r.metrics)
      /\ c.fingerprint = r.fingerprint /\ c.status = r.status
      /\ c.startedAt = r.startedAt /\ c.endedAt = r.endedAt /\ c.prov = r.prov
      /\ c.capture = r.capture
  BY <1>1 DEF Canonical, Run
<1>3. \A m \in ParamMaps \union MetricMaps : Entries(m) = m
  BY NoneAssumption DEF Entries
<1> HIDE DEF c
<1>4. Canonical(c) = c
  BY <1>1, <1>2, <1>3 DEF Canonical, Run
<1>5. Validate(r) => Validate(c)
  BY <1>2, Zenon DEF Validate
<1> QED
  BY <1>2, <1>4, <1>5 DEF c

\* A run that was stamped has a status, and a valid one is known.
LEMMA ValidStatus ==
    ASSUME NEW r \in Run, Validate(r)
    PROVE  r.status \in Statuses
  BY DEF Run, Validate, Statuses, UnknownStatus, Created, Running, Succeeded, Failed, Cancelled

\* Record: what the ledger then holds is sound.
LEMMA RecordSound ==
    ASSUME IInv, NEW id \in RunIDs, Store!Record(id)
    PROVE  /\ RunsSound'
           /\ \A i \in RunIDs : runs[i] # NoRun => runs'[i] = runs[i]
<1>1. PICK r \in Recordable :
         /\ Store!Validate(r)
         /\ runs' = [runs EXCEPT ![id] = Store!Canonical(r)]
         /\ runs[id] = NoRun
  BY DEF Store!Record
<1>2. r \in Run /\ r.fingerprint = Compute(r) /\ Validate(r)
  BY CompareAssumption
<1>3. r.status \in Statuses
  BY <1>2, ValidStatus
<1>4. runs' = [runs EXCEPT ![id] = Canonical(r)]
  BY <1>1, SameRules
<1>5. Sound(Canonical(r))
  BY <1>2, <1>3, CanonicalRun DEF Sound
<1> QED
  BY <1>1, <1>4, <1>5 DEF IInv, RunsSound, Sound

\* Update: the next version of a run keeps what Kept says.
LEMMA UpdateSound ==
    ASSUME IInv, NEW id \in RunIDs, NEW p \in Patches, Store!Update(id, p)
    PROVE  /\ RunsSound'
           /\ \A i \in RunIDs : runs[i] # NoRun => Kept(runs[i], runs'[i])
<1> DEFINE e == runs[id]
<1>1. PICK now \in Times :
         /\ e # NoRun
         /\ Store!ApplyPatch(e, p, now).err = "nil"
         /\ runs' = [runs EXCEPT ![id] = Store!Canonical(Store!ApplyPatch(e, p, now).run)]
  BY DEF Store!Update
<1>2. p \in Patch /\ now \in Nat \ {0}
  BY PatchesAssumption, CompareAssumption
<1>3. Sound(e) /\ e \in Run
  BY <1>1 DEF IInv, RunsSound, Sound
<1> DEFINE r == ApplyPatch(e, p, now).run
<1>4. ApplyPatch(e, p, now).err = "nil" /\ runs' = [runs EXCEPT ![id] = Canonical(r)]
  BY <1>1, SameRules
<1> HIDE DEF e
<1>5. /\ r \in Run /\ Validate(r) /\ r.status \in Statuses
      /\ IdentityOf(r) = IdentityOf(e) /\ r.fingerprint = e.fingerprint
      /\ Terminal(e.status) => r = e
  BY <1>2, <1>3, <1>4, PatchKeeps DEF Sound
<1>6. /\ r.experiment = e.experiment /\ r.dirty = e.dirty /\ r.config = e.config
      /\ r.params = e.params
  BY <1>5 DEF IdentityOf
<1> HIDE DEF r
<1> DEFINE s == Canonical(r)
<1>7. /\ Sound(s)
      /\ s.experiment = r.experiment /\ s.dirty = r.dirty /\ s.config = r.config
      /\ s.params = Entries(r.params) /\ s.fingerprint = r.fingerprint
  BY <1>5, CanonicalRun DEF Sound
<1>8. Entries(e.params) = e.params
  BY <1>3, CanonicalRun DEF Sound
<1>9. Terminal(e.status) => s = e
  BY <1>3, <1>5 DEF Sound
<1> HIDE DEF s
<1>10. Kept(e, s)
  BY <1>3, <1>5, <1>6, <1>7, <1>8, <1>9 DEF Kept
<1>11. \A x : Sound(x) => Kept(x, x)
  BY DEF Kept
<1>12. /\ runs' \in [RunIDs -> Run \union {NoRun}] /\ runs'[id] = s
       /\ \A i \in RunIDs \ {id} : runs'[i] = runs[i]
  BY <1>4, <1>7 DEF IInv, RunsSound, Sound, s
<1> QED
  BY <1>7, <1>10, <1>11, <1>12 DEF IInv, RunsSound, e

\* A comparison under way loses nothing it relies on.
LEMMA RequestSurvives ==
    ASSUME IInv, RunsSound', request' = request,
           \A i \in RunIDs : runs[i] # NoRun => Kept(runs[i], runs'[i])
    PROVE  IInv'
<1>1. \A x, i : i \in RunIDs /\ Kept(x, runs[i]) => Kept(x, runs'[i])
  <2> TAKE x, i
  <2> HAVE i \in RunIDs /\ Kept(x, runs[i])
  <2>1. runs[i] # NoRun
    BY NoRunAssumption DEF Kept, Sound
  <2>2. Kept(runs[i], runs'[i])
    BY <2>1
  <2> QED
    BY <2>2 DEF Kept
<1> QED
  BY <1>1 DEF IInv, RequestKept

-----------------------------------------------------------------------------
(* The handler.                                                            *)

LEMMA InitIInv == Init => IInv
<1> SUFFICES ASSUME Init PROVE IInv
  OBVIOUS
<1>1. RunsSound
  <2>1. \A r \in LegacyRuns : Sound(Canonical(r))
    <3> TAKE r \in LegacyRuns
    <3>1. r \in Run /\ Validate(r)
      BY CompareAssumption
    <3>2. r.status \in Statuses
      BY <3>1, ValidStatus
    <3> QED
      BY <3>1, <3>2, CanonicalRun DEF Sound
  <2> QED
    BY <2>1 DEF Init, RunsSound, Sound
<1>2. RequestKept
  BY DEF Init, Idle, RequestKept
<1> QED
  BY <1>1, <1>2 DEF IInv

LEMMA NextIInv == IInv /\ [Next]_vars => IInv'
<1> SUFFICES ASSUME IInv, [Next]_vars PROVE IInv'
  OBVIOUS
<1>1. ASSUME NEW id \in RunIDs, Store!Record(id), UNCHANGED request PROVE IInv'
  <2>1. /\ RunsSound' /\ \A i \in RunIDs : runs[i] # NoRun => runs'[i] = runs[i]
    BY <1>1, RecordSound
  <2>2. \A i \in RunIDs : runs[i] # NoRun => Kept(runs[i], runs'[i])
    BY <2>1 DEF IInv, RunsSound, Kept
  <2> QED
    BY <1>1, <2>1, <2>2, RequestSurvives
<1>2. ASSUME NEW id \in RunIDs, NEW p \in Patches, Store!Update(id, p), UNCHANGED request
      PROVE  IInv'
  BY <1>2, UpdateSound, RequestSurvives
<1>3. ASSUME NEW a \in RunIDs, NEW b \in RunIDs, Ask(a, b) PROVE IInv'
  BY <1>3 DEF Ask, Idle, IInv, RunsSound, RequestKept
<1>4. CASE GetA
  <2>1. CASE runs[request.a] = NoRun
    BY <1>4, <2>1 DEF GetA, Idle, IInv, RunsSound, RequestKept
  <2>2. CASE runs[request.a] # NoRun
    <3>1. /\ request' = [request EXCEPT !.pc = "get_b", !.left = runs[request.a]]
          /\ request.pc = "get_a" /\ runs' = runs
      BY <1>4, <2>2 DEF GetA
    <3>2. request.a \in RunIDs /\ request.b \in RunIDs
      BY <3>1 DEF IInv, RequestKept
    <3>3. Kept(runs[request.a], runs[request.a]) /\ runs[request.a] \in Run
      BY <2>2, <3>2 DEF IInv, RunsSound, Kept, Sound
    <3>4. RequestKept'
      BY <3>1, <3>2, <3>3 DEF IInv, RequestKept
    <3> QED
      BY <3>1, <3>4 DEF IInv, RunsSound
  <2> QED
    BY <2>1, <2>2
<1>5. CASE GetB
  <2>1. CASE runs[request.b] = NoRun
    BY <1>5, <2>1 DEF GetB, Idle, IInv, RunsSound, RequestKept
  <2>2. CASE runs[request.b] # NoRun
    <3> DEFINE answer == Diff(request.left, runs[request.b])
    <3>1. /\ request' = [request EXCEPT !.pc = "answered", !.right = runs[request.b],
                                        !.answer = answer]
          /\ request.pc = "get_b" /\ runs' = runs
      BY <1>5, <2>2 DEF GetB
    <3>2. request.a \in RunIDs /\ request.b \in RunIDs /\ Kept(request.left, runs[request.a])
      BY <3>1 DEF IInv, RequestKept
    <3>3. Kept(runs[request.b], runs[request.b]) /\ runs[request.b] \in Run
      BY <2>2, <3>2 DEF IInv, RunsSound, Kept, Sound
    <3> HIDE DEF answer
    <3>4. /\ request' \in [pc : {"idle", "get_a", "get_b", "answered"}, a : RunIDs \union {None},
                           b : RunIDs \union {None}, left : Run \union {NoRun},
                           right : Run \union {NoRun}, answer : {request'.answer}]
          /\ request'.pc = "answered" /\ request'.a = request.a /\ request'.b = request.b
          /\ request'.left = request.left /\ request'.right = runs[request.b]
          /\ request'.answer = answer
      BY <3>1, <3>3 DEF IInv, RequestKept
    <3>5. RequestKept'
      BY <3>1, <3>2, <3>3, <3>4 DEF RequestKept, answer
    <3> QED
      BY <3>1, <3>5 DEF IInv, RunsSound
  <2> QED
    BY <2>1, <2>2
<1>6. CASE UNCHANGED vars
  BY <1>6 DEF vars, IInv, RunsSound, RequestKept
<1> QED
  BY <1>1, <1>2, <1>3, <1>4, <1>5, <1>6 DEF Next

\* Whatever is recorded or patched while two runs are read, the invariant holds.
THEOREM CompareInvariant == Spec => []IInv
  BY InitIInv, NextIInv, PTL DEF Spec

-----------------------------------------------------------------------------
(* The diff.                                                               *)

\* The identity fields the diff looks at.
IdentityNames(a, b) ==
    {<<"identity", "experiment">>, <<"identity", "git_dirty">>, <<"identity", "config_hash">>}
    \union ParamNames(a) \union ParamNames(b)

\* Which identity fields differ is a matter of the identity alone.
LEMMA IdentityFields ==
    ASSUME NEW a, NEW b
    PROVE  OfKind("identity", Fields(a, b))
              = {n \in IdentityNames(a, b) : Recorded(a, n) # Recorded(b, n)}
<1>1. \A n \in Names(a, b) : n[1] = "identity" <=> n \in IdentityNames(a, b)
  BY DEF Names, IdentityNames, ParamNames, MetricNames
<1>2. IdentityNames(a, b) \subseteq Names(a, b)
  BY DEF Names, IdentityNames
<1>3. DOMAIN Fields(a, b) = {m \in Names(a, b) : Recorded(a, m) # Recorded(b, m)}
  BY DEF Fields
<1> QED
  BY <1>1, <1>2, <1>3 DEF OfKind

\* A later version of a run has the same under every identity field.
LEMMA IdentityRecorded ==
    ASSUME NEW r, NEW s, Kept(r, s), NEW x, NEW y
    PROVE  /\ ParamNames(s) = ParamNames(r)
           /\ \A n \in IdentityNames(x, y) : Recorded(s, n) = Recorded(r, n)
<1>1. /\ s.experiment = r.experiment /\ s.dirty = r.dirty /\ s.config = r.config
      /\ s.params = r.params
  BY DEF Kept
<1>2. ParamNames(s) = ParamNames(r)
  BY <1>1 DEF ParamNames
<1>3. \A n \in IdentityNames(x, y) :
         n[2] \in {"experiment", "git_dirty", "config_hash", "params"}
  BY DEF IdentityNames, ParamNames
<1>4. \A n : n[2] \in {"experiment", "git_dirty", "config_hash", "params"} =>
         Recorded(s, n) = Recorded(r, n)
  BY <1>1 DEF Recorded
<1> QED
  BY <1>2, <1>3, <1>4

(***************************************************************************)
(* The answer to a comparison outlives the instants its runs were read at: *)
(* of finished runs it is what asking again would give, and whether they   *)
(* are the same experiment, and in which identity fields they differ, is   *)
(* so of the runs as they are now.                                         *)
(***************************************************************************)
THEOREM VerdictsLast == Spec => []VerdictLasts
<1>1. IInv => VerdictLasts
  <2> SUFFICES ASSUME IInv, Answered
               PROVE  LET now == Diff(Now(request.a), Now(request.b))
                      IN  /\ Terminal(request.left.status) /\ Terminal(request.right.status) =>
                                request.answer = now
                          /\ request.answer.same
                                <=> Now(request.a).fingerprint = Now(request.b).fingerprint
                          /\ OfKind("identity", request.answer.fields)
                                = OfKind("identity", now.fields)
    BY DEF VerdictLasts
  <2> DEFINE l == request.left
             r == request.right
             a == runs[request.a]
             b == runs[request.b]
  <2>1. Kept(l, a) /\ Kept(r, b) /\ request.answer = Diff(l, r)
    BY DEF IInv, RequestKept, Answered
  <2>2. Now(request.a) = a /\ Now(request.b) = b
    BY DEF Now
  <2> HIDE DEF l, r, a, b
  <2>3. /\ request.answer.same = (l.fingerprint = r.fingerprint)
        /\ request.answer.fields = Fields(l, r)
        /\ Diff(a, b).fields = Fields(a, b)
    BY <2>1 DEF Diff, SameExperiment
  <2>4. Terminal(l.status) /\ Terminal(r.status) => request.answer = Diff(a, b)
    BY <2>1 DEF Kept
  <2>5. request.answer.same <=> a.fingerprint = b.fingerprint
    BY <2>1, <2>3 DEF Kept
  <2>6. OfKind("identity", Fields(l, r)) = OfKind("identity", Fields(a, b))
    <3>1. ParamNames(a) = ParamNames(l) /\ ParamNames(b) = ParamNames(r)
      BY <2>1, IdentityRecorded
    <3>2. IdentityNames(a, b) = IdentityNames(l, r)
      BY <3>1 DEF IdentityNames
    <3>3. \A n \in IdentityNames(l, r) : Recorded(a, n) = Recorded(l, n)
      BY <2>1, IdentityRecorded
    <3>4. \A n \in IdentityNames(l, r) : Recorded(b, n) = Recorded(r, n)
      BY <2>1, IdentityRecorded
    <3> QED
      BY <3>2, <3>3, <3>4, IdentityFields
  <2> QED
    BY <2>2, <2>3, <2>4, <2>5, <2>6 DEF l, r
<1> QED
  BY <1>1, CompareInvariant, PTL

\* Two maps that look the same under every key of either are one map.
LEMMA SameLookups ==
    ASSUME NEW K, NEW V, None \notin V, NEW f \in MapsOver(K, V), NEW g \in MapsOver(K, V),
           \A k \in DOMAIN f \union DOMAIN g : ParamLookup(f, k) = ParamLookup(g, k)
    PROVE  f = g
<1>1. PICK A \in SUBSET K : f \in [A -> V]
  BY DEF MapsOver
<1>2. PICK B \in SUBSET K : g \in [B -> V]
  BY DEF MapsOver
<1>3. DOMAIN f = DOMAIN g
  BY <1>1, <1>2 DEF ParamLookup
<1> QED
  BY <1>1, <1>2, <1>3 DEF ParamLookup

\* An optional value that is rendered the same is the same.
LEMMA SameOptional ==
    ASSUME NEW V, None \notin V, NEW v \in V, NEW w \in V, Optional(v) = Optional(w)
    PROVE  v = w
  BY DEF Optional

\* Runs that differ in no identity field have the same identity.
LEMMA SameIdentity ==
    ASSUME NEW a \in Run, NEW b \in Run,
           OfKind("identity", Fields(a, b)) = {}
    PROVE  /\ Entries(a.params) = Entries(b.params)
           /\ Compute(a) = Compute(b)
<1> DEFINE p == Entries(a.params)
           q == Entries(b.params)
<1>1. \A n \in IdentityNames(a, b) : Recorded(a, n) = Recorded(b, n)
  BY IdentityFields
<1>2. /\ Recorded(a, <<"identity", "experiment">>) = Recorded(b, <<"identity", "experiment">>)
      /\ Recorded(a, <<"identity", "git_dirty">>) = Recorded(b, <<"identity", "git_dirty">>)
      /\ Recorded(a, <<"identity", "config_hash">>) = Recorded(b, <<"identity", "config_hash">>)
  BY <1>1 DEF IdentityNames
<1>3. a.experiment = b.experiment /\ a.dirty = b.dirty /\ Optional(a.config) = Optional(b.config)
  BY <1>2 DEF Recorded
<1>4. a.config = b.config
  BY <1>3, NoneAssumption DEF Optional, Run
<1>5. p \in MapsOver(ParamKeys, ParamValues) /\ q \in MapsOver(ParamKeys, ParamValues)
  BY EntriesIsMap DEF Run, ParamMaps
<1>6. \A k \in DOMAIN p \union DOMAIN q : ParamLookup(p, k) = ParamLookup(q, k)
  <2> TAKE k \in DOMAIN p \union DOMAIN q
  <2>1. <<"identity", "params", k>> \in IdentityNames(a, b)
    BY DEF IdentityNames, ParamNames
  <2>2. Recorded(a, <<"identity", "params", k>>) = Recorded(b, <<"identity", "params", k>>)
    BY <1>1, <2>1
  <2> QED
    BY <2>2 DEF Recorded
<1>7. None \notin ParamValues
  BY CompareAssumption
<1> HIDE DEF p, q
<1>8. p = q
  BY <1>5, <1>6, <1>7, SameLookups
<1> QED
  BY <1>3, <1>4, <1>8 DEF Compute, p, q

\* Runs that differ in no field at all have the same machine and metrics too.
LEMMA SameMeasured ==
    ASSUME NEW a \in Run, NEW b \in Run, DOMAIN Fields(a, b) = {}
    PROVE  a.prov = b.prov /\ Entries(a.metrics) = Entries(b.metrics)
<1> DEFINE p == Entries(a.metrics)
           q == Entries(b.metrics)
<1>1. \A n \in Names(a, b) : Recorded(a, n) = Recorded(b, n)
  BY DEF Fields
<1>2. ASSUME NEW f \in ProvFields PROVE a.prov[f] = b.prov[f]
  <2>1. <<"provenance", "host", f>> \in Names(a, b)
    BY DEF Names
  <2>2. Recorded(a, <<"provenance", "host", f>>) = Recorded(b, <<"provenance", "host", f>>)
    BY <1>1, <2>1
  <2>3. Optional(a.prov[f]) = Optional(b.prov[f])
    BY <2>2 DEF Recorded
  <2>4. a.prov[f] \in ProvValues /\ b.prov[f] \in ProvValues /\ None \notin ProvValues
    BY CompareAssumption DEF Run
  <2> QED
    BY <2>3, <2>4, SameOptional
<1>3. a.prov = b.prov
  BY <1>2 DEF Run
<1>4. p \in MapsOver(MetricKeys, MetricValues) /\ q \in MapsOver(MetricKeys, MetricValues)
  BY EntriesIsMap DEF Run, MetricMaps
<1>5. \A k \in DOMAIN p \union DOMAIN q : ParamLookup(p, k) = ParamLookup(q, k)
  <2> TAKE k \in DOMAIN p \union DOMAIN q
  <2>1. <<"metric", "metrics", k>> \in Names(a, b)
    BY DEF Names, MetricNames
  <2>2. Recorded(a, <<"metric", "metrics", k>>) = Recorded(b, <<"metric", "metrics", k>>)
    BY <1>1, <2>1
  <2>3. MetricLookup(p, k) = MetricLookup(q, k)
    BY <2>2 DEF Recorded
  <2> QED
    BY <2>3 DEF MetricLookup, ParamLookup
<1>6. None \notin MetricValues
  BY CompareAssumption
<1> HIDE DEF p, q
<1>7. p = q
  BY <1>4, <1>5, <1>6, SameLookups
<1> QED
  BY <1>3, <1>7 DEF p, q

(***************************************************************************)
(* Two runs of the current contract that are different experiments differ  *)
(* in an identity field that the diff names, so renderDiff never has to    *)
(* ask for a report; and runs it calls identical are so in parameters,     *)
(* machine and metrics.                                                    *)
(***************************************************************************)
THEOREM DifferencesNamed == Spec => []DifferenceNamed
<1>1. IInv => DifferenceNamed
  <2> SUFFICES ASSUME IInv, Answered,
                      \A r \in {request.left, request.right} : r.fingerprint = Compute(r)
               PROVE  /\ request.answer.same \/ OfKind("identity", request.answer.fields) # {}
                      /\ RenderDiff(request.answer) # "report"
                      /\ RenderDiff(request.answer) = "identical" =>
                            /\ request.left.prov = request.right.prov
                            /\ Entries(request.left.params) = Entries(request.right.params)
                            /\ Entries(request.left.metrics) = Entries(request.right.metrics)
    BY DEF DifferenceNamed
  <2> DEFINE a == request.left
             b == request.right
             res == request.answer
  <2>1. a \in Run /\ b \in Run /\ res = Diff(a, b)
    BY DEF IInv, RequestKept, Answered, Kept, Sound
  <2>2. a.fingerprint = Compute(a) /\ b.fingerprint = Compute(b)
    OBVIOUS
  <2> HIDE DEF a, b, res
  <2>3. res.same = (a.fingerprint = b.fingerprint) /\ res.fields = Fields(a, b)
    BY <2>1 DEF Diff, SameExperiment
  <2>4. res.same \/ OfKind("identity", res.fields) # {}
    BY <2>1, <2>2, <2>3, SameIdentity
  <2>5. DOMAIN res.fields = {} => OfKind("identity", res.fields) = {}
    BY DEF OfKind
  <2>6. DOMAIN res.fields # {} \/ res.same
    BY <2>4, <2>5
  <2>7. RenderDiff(res) # "report"
    BY <2>6 DEF RenderDiff
  <2>8. RenderDiff(res) = "identical" => DOMAIN res.fields = {}
    BY DEF RenderDiff
  <2>9. DOMAIN Fields(a, b) = {} =>
           /\ a.prov = b.prov
           /\ Entries(a.params) = Entries(b.params)
           /\ Entries(a.metrics) = Entries(b.metrics)
    BY <2>1, <2>3, <2>5, SameIdentity, SameMeasured
  <2> QED
    BY <2>3, <2>4, <2>7, <2>8, <2>9 DEF a, b, res
<1> QED
  BY <1>1, CompareInvariant, PTL

\* The ledger holds valid runs, and a comparison goes on only with runs it found.
THEOREM CompareTypeCorrect == Spec => []TypeOK
<1>1. IInv => TypeOK
  BY NoRunAssumption DEF IInv, RunsSound, RequestKept, Kept, Sound, TypeOK
<1> QED
  BY <1>1, CompareInvariant, PTL

=============================================================================
