----------------------------- MODULE DuckProofs -----------------------------
(***************************************************************************)
(* Proofs about DuckStore, for every set of goroutines, runs, posts and    *)
(* patches and every size of the connection pool, and, at the end, about   *)
(* the migrations that opened the file (Migrate).                          *)
(*                                                                         *)
(* The argument: whoever holds d.mu has read what is committed and writes  *)
(* it changed by one rule, so the tables of one id go through the versions *)
(* applyPatch makes; and of a version, a reader that is not in the mutex   *)
(* relies only on what no later version changes.                           *)
(***************************************************************************)
EXTENDS DuckStore, Migrate, RulesProofs, FiniteSetTheorems

-----------------------------------------------------------------------------
(* The inductive invariant.                                                *)

Queries == {"params", "metrics", "attempted"}
InTx    == {"exec_row", "exec_side", "commit"}

Inputs == Sent \union Patches \union {None, Running, Succeeded}

CallRecords ==
    [pc : {"idle", "lock", "answered"} \union Writing,
     op : {"none", "read", "record", "update"}, ids : SUBSET RunIDs, input : Inputs,
     seen : MapsOver(RunIDs, Tables), write : Run \union {NoRun}, tx : Tables, ok : BOOLEAN]

\* A record and an update are about one id; a read is never in the mutex.
CallShape(k) ==
    /\ k.op = "none" <=> k.pc = "idle"
    /\ k.op = "read" => k.pc \in {"row", "answered"} \union Queries
    /\ k.op \in {"record", "update"} => k.pc # "answered" /\ \E id \in RunIDs : k.ids = {id}
    /\ k.op = "record" => k.input \in Sent
    /\ k.op = "update" => k.input \in Patches
    /\ k.ok => k.pc = "return"

\* What the tables of an id hold is a valid run under its own fingerprint.
TableSound(t) ==
    t.row # NoRun =>
        /\ Assemble(t) \in Run
        /\ Validate(Assemble(t))
        /\ t.row.status \in Statuses
        /\ t.row.fingerprint = Compute(Assemble(t))
        /\ t.row.declared => t.row.client \in Clients

\* What no patch changes of a row, and a finished row whole.
RowKept(r, s) ==
    /\ s # NoRun
    /\ s.experiment = r.experiment /\ s.dirty = r.dirty /\ s.config = r.config
    /\ s.fingerprint = r.fingerprint /\ s.startedAt = r.startedAt
    /\ s.declared = r.declared /\ s.client = r.client
    /\ Terminal(r.status) => s = r

\* What is left of t in every later version u of it.
TableKept(t, u) ==
    /\ RowKept(t.row, u.row)
    /\ u.params = t.params
    /\ u.attempted = t.attempted
    /\ DOMAIN t.metrics \subseteq DOMAIN u.metrics
    /\ Terminal(t.row.status) => u.metrics = t.metrics

\* What the queries of a call have returned so far of a run, against the
\* version committed now.
SeenKept(pc, s, t) ==
    /\ s.row # NoRun
    /\ s.row.status \in Statuses
    /\ s.row.endedAt # None => s.row.startedAt <= s.row.endedAt
    /\ RowKept(s.row, t.row)
    /\ pc \in {"metrics", "attempted", "decide", "answered"} => s.params = t.params
    /\ pc \in {"attempted", "decide", "answered"} /\ Terminal(s.row.status) =>
          s.metrics = t.metrics
    /\ pc \in {"decide", "answered"} => s.attempted = t.attempted

SeenSound(k, d) ==
    k.pc \in Queries \union {"decide", "answered"} =>
        \A id \in DOMAIN k.seen : SeenKept(k.pc, k.seen[id], d[id])

\* In the mutex, what was queried is what is committed.
HolderSees(k, d) ==
    k.op # "read" /\ k.pc \in Queries \union {"decide"} =>
        \A id \in k.ids :
            /\ id \in DOMAIN k.seen
            /\ k.seen[id].row = d[id].row
            /\ k.pc \in {"metrics", "attempted", "decide"} => k.seen[id].params = d[id].params
            /\ k.pc \in {"attempted", "decide"} => k.seen[id].metrics = d[id].metrics
            /\ k.pc = "decide" => k.seen[id].attempted = d[id].attempted

\* The tables of a new run, and of a patched one.
Inserted(r) ==
    [row |-> RowOf(r), params |-> Entries(r.params), metrics |-> Entries(r.metrics),
     attempted |-> IF r.capture = None THEN {} ELSE r.capture.names]

PatchedRow(row, r) ==
    [row EXCEPT !.status = r.status, !.endedAt = r.endedAt, !.prov = r.prov]

Patched(t, r, p) ==
    [t EXCEPT !.row = PatchedRow(@, r), !.metrics = Overlay(Entries(p.metrics), @)]

\* What the transaction is about to make of the version that is committed.
HolderWrites(k, d) ==
    k.pc \in InTx \union {"begin"} =>
        \A id \in k.ids :
            /\ k.op = "record" =>
                  /\ d[id].row = NoRun
                  /\ k.write = k.input
                  /\ k.pc = "exec_side" => k.tx.row = RowOf(k.write)
                  /\ k.pc = "commit" => k.tx = Inserted(k.write)
            /\ k.op = "update" =>
                  /\ d[id].row # NoRun
                  /\ \E now \in Times : ApplyPatch(Assemble(d[id]), k.input, now) = Ok(k.write)
                  /\ k.pc = "exec_row" => k.tx = d[id]
                  /\ k.pc = "exec_side" => k.tx = [d[id] EXCEPT !.row = PatchedRow(@, k.write)]
                  /\ k.pc = "commit" => k.tx = Patched(d[id], k.write, k.input)

\* A run that Record acknowledges, or has acknowledged, is in the tables.
Durable(d, id, r) ==
    /\ d[id].row # NoRun
    /\ LET s == Assemble(d[id])
       IN  /\ s.experiment = r.experiment /\ s.dirty = r.dirty /\ s.config = r.config
           /\ Entries(s.params) = Entries(r.params)
           /\ s.fingerprint = r.fingerprint
           /\ s.startedAt = r.startedAt
           /\ s.capture = r.capture
           /\ DOMAIN Entries(r.metrics) \subseteq DOMAIN Entries(s.metrics)

AckIsDue(k, d) == k.op = "record" /\ k.ok => \A id \in k.ids : Durable(d, id, k.input)

CallInv(k, d) ==
    /\ CallShape(k)
    /\ SeenSound(k, d)
    /\ HolderSees(k, d)
    /\ HolderWrites(k, d)
    /\ AckIsDue(k, d)

TypeInv ==
    /\ db \in [RunIDs -> Tables]
    /\ mu \in Goroutines \union {"free"}
    /\ call \in [Goroutines -> CallRecords]
    /\ \A c \in Goroutines :
          /\ mu = c <=> call[c].op # "read" /\ call[c].pc \in Writing
          /\ c \in conns <=> call[c].pc \in InTx
    /\ conns \subseteq Goroutines
    /\ IsFiniteSet(conns)
    /\ Cardinality(conns) <= MaxConns
    /\ acked \subseteq RunIDs \X Sent

IInv ==
    /\ TypeInv
    /\ \A id \in RunIDs : TableSound(db[id])
    /\ \A c \in Goroutines : CallInv(call[c], db)
    /\ \A a \in acked : Durable(db, a[1], a[2])

-----------------------------------------------------------------------------
(* Tables and the runs they hold.                                          *)

\* loadKV loses nothing but the difference between a nil and an empty map.
LEMMA LoadedMap ==
    ASSUME NEW K, NEW V, NEW m \in MapsOver(K, V), None \notin MapsOver(K, V)
    PROVE  /\ LoadKV(m) \in MapsOver(K, V) \union {None}
           /\ Entries(LoadKV(m)) = m
<1>1. PICK A \in SUBSET K : m \in [A -> V]
  BY DEF MapsOver
<1>2. CASE DOMAIN m = {}
  <2>1. m = [k \in {} |-> k]
    BY <1>1, <1>2
  <2> QED
    BY <1>2, <2>1 DEF LoadKV, Entries
<1>3. CASE DOMAIN m # {}
  BY <1>3 DEF LoadKV, Entries
<1> QED
  BY <1>2, <1>3

\* The fields of the run in the tables of an id.
LEMMA AssembledFields ==
    ASSUME NEW t \in Tables, t.row # NoRun
    PROVE  LET r == Assemble(t)
           IN  /\ r.experiment = t.row.experiment /\ r.dirty = t.row.dirty
               /\ r.config = t.row.config /\ r.fingerprint = t.row.fingerprint
               /\ r.status = t.row.status /\ r.startedAt = t.row.startedAt
               /\ r.endedAt = t.row.endedAt /\ r.prov = t.row.prov
               /\ r.params \in ParamMaps \union {None} /\ Entries(r.params) = t.params
               /\ r.metrics \in MetricMaps \union {None} /\ Entries(r.metrics) = t.metrics
               /\ r.capture = IF t.row.declared
                              THEN [client |-> t.row.client, names |-> t.attempted, sorted |-> TRUE]
                              ELSE None
<1>1. /\ t.params \in MapsOver(ParamKeys, ParamValues)
      /\ t.metrics \in MapsOver(MetricKeys, MetricValues)
      /\ None \notin MapsOver(ParamKeys, ParamValues)
      /\ None \notin MapsOver(MetricKeys, MetricValues)
  BY NoneAssumption DEF Tables, ParamMaps, MetricMaps
<1>2. /\ LoadKV(t.params) \in MapsOver(ParamKeys, ParamValues) \union {None}
      /\ Entries(LoadKV(t.params)) = t.params
  BY <1>1, LoadedMap
<1>3. /\ LoadKV(t.metrics) \in MapsOver(MetricKeys, MetricValues) \union {None}
      /\ Entries(LoadKV(t.metrics)) = t.metrics
  BY <1>1, LoadedMap
<1> QED
  BY <1>2, <1>3 DEF Assemble, ParamMaps, MetricMaps

\* It is a run, if a declaration names a client.
LEMMA AssembledRun ==
    ASSUME NEW t \in Tables, t.row # NoRun, t.row.declared => t.row.client \in Clients
    PROVE  Assemble(t) \in Run
<1>1. /\ t.row \in Rows
      /\ t.attempted \in SUBSET CaptureFields
  BY DEF Tables
<1>2. Assemble(t).capture \in Captures
  <2>1. CASE t.row.declared
    <3>1. Assemble(t).capture = [client |-> t.row.client, names |-> t.attempted, sorted |-> TRUE]
      BY <2>1 DEF Assemble
    <3> QED
      BY <1>1, <2>1, <3>1 DEF Captures, CaptureDeclaration
  <2>2. CASE ~t.row.declared
    BY <2>2 DEF Assemble, Captures
  <2> QED
    BY <2>1, <2>2
<1>3. /\ Assemble(t).params \in ParamMaps \union {None}
      /\ Assemble(t).metrics \in MetricMaps \union {None}
  BY AssembledFields
<1> QED
  BY <1>1, <1>2, <1>3 DEF Assemble, Rows, Run

\* Two runs that differ at most in a nil and an empty map are one run to callers.
LEMMA SameCanonical ==
    ASSUME NEW r \in Run, NEW s \in Run,
           r.experiment = s.experiment, r.dirty = s.dirty, r.config = s.config,
           Entries(r.params) = Entries(s.params), r.fingerprint = s.fingerprint,
           r.status = s.status, r.startedAt = s.startedAt, r.endedAt = s.endedAt,
           r.prov = s.prov, Entries(r.metrics) = Entries(s.metrics), r.capture = s.capture
    PROVE  Canonical(r) = Canonical(s)
  BY DEF Canonical, Run

\* INSERT INTO the four tables: they hold the run that was to be recorded.
LEMMA InsertedTables ==
    ASSUME NEW r \in Run, Validate(r), r.status \in Statuses, r.fingerprint = Compute(r),
           r.capture # None => r.capture.sorted = TRUE
    PROVE  LET t == Inserted(r)
               s == Assemble(t)
           IN  /\ t \in Tables /\ t.row # NoRun
               /\ TableSound(t)
               /\ Canonical(s) = Canonical(r)
               /\ s.experiment = r.experiment /\ s.dirty = r.dirty /\ s.config = r.config
               /\ Entries(s.params) = Entries(r.params) /\ Entries(s.metrics) = Entries(r.metrics)
               /\ s.fingerprint = r.fingerprint /\ s.startedAt = r.startedAt
               /\ s.capture = r.capture
<1> DEFINE t == Inserted(r)
           s == Assemble(t)
<1>1. /\ Entries(r.params) \in ParamMaps
      /\ Entries(r.metrics) \in MetricMaps
  BY EntriesIsMap DEF Run, ParamMaps, MetricMaps
<1>2. r.capture \in Captures /\ (r.capture # None => r.capture.names \subseteq CaptureFields)
  BY DEF Run, Validate
<1>3. /\ t.row \in Rows
      /\ t.row.declared <=> r.capture # None
      /\ r.capture # None => t.row.client = r.capture.client /\ t.row.client \in Clients
      /\ t.attempted = IF r.capture = None THEN {} ELSE r.capture.names
  <2>1. t.row.client = IF r.capture = None THEN Empty ELSE r.capture.client
    BY DEF Inserted, RowOf
  <2>2. t.row.client \in Clients \union {Empty} /\ (r.capture # None => t.row.client \in Clients)
    BY <1>2, <2>1 DEF Captures, CaptureDeclaration
  <2>3. t.row.declared = (r.capture # None)
    BY DEF Inserted, RowOf
  <2>4. t.row.declared \in BOOLEAN
    BY <2>3
  <2>5. t.row \in Rows
    BY <2>2, <2>4 DEF Inserted, RowOf, Rows, Run
  <2>6. t.attempted = IF r.capture = None THEN {} ELSE r.capture.names
    BY DEF Inserted
  <2> QED
    BY <2>1, <2>2, <2>3, <2>5, <2>6
<1>4. t \in Tables /\ t.row # NoRun
  <2>1. t.attempted \in SUBSET CaptureFields
    BY <1>2, <1>3
  <2> QED
    BY <1>1, <1>3, <2>1, DuckAssumption DEF Inserted, Tables
<1>5. /\ t.row.experiment = r.experiment /\ t.row.dirty = r.dirty /\ t.row.config = r.config
      /\ t.row.fingerprint = r.fingerprint /\ t.row.status = r.status
      /\ t.row.startedAt = r.startedAt /\ t.row.endedAt = r.endedAt /\ t.row.prov = r.prov
      /\ t.params = Entries(r.params) /\ t.metrics = Entries(r.metrics)
  BY DEF Inserted, RowOf
<1> HIDE DEF t
<1>6. s \in Run
  BY <1>3, <1>4, AssembledRun
<1>7. s.capture = r.capture
  <2>1. CASE r.capture = None
    BY <1>3, <2>1 DEF Assemble
  <2>2. CASE r.capture # None
    <3>1. s.capture = [client |-> t.row.client, names |-> t.attempted, sorted |-> TRUE]
      BY <1>3, <2>2 DEF Assemble
    <3>2. r.capture \in CaptureDeclaration /\ r.capture.sorted = TRUE
      BY <1>2, <2>2 DEF Captures
    <3> QED
      BY <1>3, <2>2, <3>1, <3>2 DEF CaptureDeclaration
  <2> QED
    BY <2>1, <2>2
<1>8. /\ s.experiment = r.experiment /\ s.dirty = r.dirty /\ s.config = r.config
      /\ s.fingerprint = r.fingerprint /\ s.status = r.status
      /\ s.startedAt = r.startedAt /\ s.endedAt = r.endedAt /\ s.prov = r.prov
      /\ Entries(s.params) = Entries(r.params) /\ Entries(s.metrics) = Entries(r.metrics)
  BY <1>4, <1>5, AssembledFields
<1> HIDE DEF s
<1>9. Canonical(s) = Canonical(r)
  BY <1>6, <1>7, <1>8, SameCanonical
<1>10. Validate(s) /\ Compute(s) = Compute(r)
  BY <1>7, <1>8 DEF Validate, Compute
<1>11. TableSound(t)
  BY <1>3, <1>5, <1>6, <1>10 DEF TableSound, s
<1> QED
  BY <1>4, <1>7, <1>8, <1>9, <1>11 DEF s, t

\* The upsert of a patch's metrics makes of the stored ones those of the run
\* applyPatch returned, and changes none of a finished run's.
LEMMA UpsertedMetrics ==
    ASSUME NEW e \in Run, NEW p \in Patch, NEW now \in Nat \ {0},
           ApplyPatch(e, p, now).err = "nil"
    PROVE  LET m == Overlay(Entries(p.metrics), Entries(e.metrics))
           IN  /\ m \in MetricMaps
               /\ Entries(ApplyPatch(e, p, now).run.metrics) = m
               /\ Terminal(e.status) => m = Entries(e.metrics)
<1> DEFINE new == Entries(p.metrics)
           old == Entries(e.metrics)
           m   == Overlay(new, old)
<1>1. new \in MapsOver(MetricKeys, MetricValues) /\ old \in MapsOver(MetricKeys, MetricValues)
  BY EntriesIsMap DEF Run, Patch, MetricMaps
<1>2. m \in MetricMaps
  BY <1>1, MergeIsMap DEF MetricMaps
<1>3. PICK A \in SUBSET MetricKeys : new \in [A -> MetricValues]
  BY <1>1 DEF MapsOver
<1>4. PICK B \in SUBSET MetricKeys : old \in [B -> MetricValues]
  BY <1>1 DEF MapsOver
<1>5. CASE Terminal(e.status)
  <2>1. ApplyPatch(e, p, now).run = e /\ IsNoopPatch(e, p)
    BY <1>5, PatchOutcome
  <2>2. \A k \in DOMAIN new : k \in DOMAIN old /\ old[k] = new[k]
    BY <2>1 DEF IsNoopPatch
  <2> HIDE DEF new, old
  <2>3. m = old
    BY <1>3, <1>4, <2>2 DEF Overlay
  <2> QED
    BY <1>2, <2>1, <2>3 DEF old, new
<1>6. CASE ~Terminal(e.status)
  <2>1. ApplyPatch(e, p, now).run = Merged(e, p, now)
    BY <1>6, PatchOutcome
  <2>2. Merged(e, p, now).metrics = IF p.metrics # None THEN Overlay(p.metrics, old) ELSE e.metrics
    BY DEF Merged, Run
  <2>3. CASE p.metrics = None
    <3>1. DOMAIN new = {}
      BY <2>3 DEF Entries
    <3> HIDE DEF new, old
    <3>2. m = old
      BY <1>3, <1>4, <3>1 DEF Overlay
    <3> QED
      BY <1>2, <1>6, <2>1, <2>2, <2>3, <3>2 DEF old, new
  <2>4. CASE p.metrics # None
    <3>1. new = p.metrics
      BY <2>4 DEF Entries
    <3>2. Entries(m) = m
      BY <1>2, NoneAssumption DEF Entries
    <3> HIDE DEF new, old
    <3> QED
      BY <1>2, <1>6, <2>1, <2>2, <2>4, <3>1, <3>2 DEF old, new
  <2> QED
    BY <2>3, <2>4
<1> QED
  BY <1>5, <1>6

(***************************************************************************)
(* UPDATE runs and the upsert of the metrics: the tables go from one sound *)
(* version to the next, which holds the run applyPatch returned and all    *)
(* that the version before it has promised its readers.                    *)
(***************************************************************************)
LEMMA PatchedTables ==
    ASSUME NEW t \in Tables, t.row # NoRun, TableSound(t),
           NEW p \in Patch, NEW now \in Nat \ {0}, NEW r,
           ApplyPatch(Assemble(t), p, now) = Ok(r)
    PROVE  LET u == Patched(t, r, p)
           IN  /\ r \in Run
               /\ u \in Tables /\ u.row # NoRun
               /\ TableSound(u)
               /\ TableKept(t, u)
               /\ Canonical(Assemble(u)) = Canonical(r)
<1> DEFINE e == Assemble(t)
           u == Patched(t, r, p)
           s == Assemble(u)
<1>1. /\ e \in Run /\ Validate(e) /\ t.row.status \in Statuses
      /\ t.row.fingerprint = Compute(e)
  BY DEF TableSound
<1>2. /\ e.experiment = t.row.experiment /\ e.dirty = t.row.dirty /\ e.config = t.row.config
      /\ e.fingerprint = t.row.fingerprint /\ e.status = t.row.status
      /\ e.startedAt = t.row.startedAt /\ e.endedAt = t.row.endedAt /\ e.prov = t.row.prov
      /\ Entries(e.params) = t.params /\ Entries(e.metrics) = t.metrics
      /\ e.capture = IF t.row.declared
                     THEN [client |-> t.row.client, names |-> t.attempted, sorted |-> TRUE]
                     ELSE None
  BY AssembledFields
<1>3. ApplyPatch(e, p, now).err = "nil" /\ ApplyPatch(e, p, now).run = r
  BY DEF Ok
<1> HIDE DEF e
<1>4. /\ r \in Run /\ Validate(r) /\ r.status \in Statuses
      /\ Compute(r) = Compute(e)
      /\ IdentityOf(r) = IdentityOf(e) /\ r.fingerprint = e.fingerprint
      /\ r.startedAt = e.startedAt /\ r.capture = e.capture
      /\ DOMAIN Entries(e.metrics) \subseteq DOMAIN Entries(r.metrics)
      /\ Terminal(e.status) => r = e
  BY <1>1, <1>2, <1>3, PatchKeeps
<1>5. /\ Overlay(Entries(p.metrics), t.metrics) \in MetricMaps
      /\ Entries(r.metrics) = Overlay(Entries(p.metrics), t.metrics)
      /\ Terminal(e.status) => Entries(r.metrics) = t.metrics
  BY <1>1, <1>2, <1>3, UpsertedMetrics
<1>6. t.row \in Rows
  BY DEF Tables
<1>7. /\ u.row = PatchedRow(t.row, r) /\ u.params = t.params /\ u.attempted = t.attempted
      /\ u.metrics = Entries(r.metrics)
  BY <1>5 DEF Patched, Tables
<1>8. /\ u.row \in Rows
      /\ u.row.experiment = t.row.experiment /\ u.row.dirty = t.row.dirty
      /\ u.row.config = t.row.config /\ u.row.fingerprint = t.row.fingerprint
      /\ u.row.startedAt = t.row.startedAt /\ u.row.declared = t.row.declared
      /\ u.row.client = t.row.client
      /\ u.row.status = r.status /\ u.row.endedAt = r.endedAt /\ u.row.prov = r.prov
  BY <1>4, <1>6, <1>7 DEF PatchedRow, Rows, Run
<1>9. u \in Tables /\ u.row # NoRun
  BY <1>5, <1>7, <1>8, DuckAssumption DEF Patched, Tables
<1> HIDE DEF u
<1>10. TableKept(t, u)
  <2>1. Terminal(t.row.status) => u.row = t.row
    <3>1. Terminal(t.row.status) => r = e
      BY <1>2, <1>4
    <3>2. r = e => PatchedRow(t.row, r) = t.row
      BY <1>2, <1>6 DEF PatchedRow, Rows
    <3> QED
      BY <1>7, <3>1, <3>2
  <2>2. Terminal(t.row.status) => u.metrics = t.metrics
    BY <1>2, <1>5, <1>7
  <2>3. DOMAIN t.metrics \subseteq DOMAIN u.metrics
    BY <1>2, <1>4, <1>7
  <2> QED
    BY <1>7, <1>8, <1>9, <2>1, <2>2, <2>3 DEF TableKept, RowKept
<1>11. u.row.declared => u.row.client \in Clients
  BY <1>8 DEF TableSound
<1>12. s \in Run
  BY <1>9, <1>11, AssembledRun
<1>13. /\ s.experiment = r.experiment /\ s.dirty = r.dirty /\ s.config = r.config
       /\ s.fingerprint = r.fingerprint /\ s.status = r.status
       /\ s.startedAt = r.startedAt /\ s.endedAt = r.endedAt /\ s.prov = r.prov
       /\ Entries(s.params) = Entries(r.params) /\ Entries(s.metrics) = Entries(r.metrics)
       /\ s.capture = r.capture
  <2>1. /\ s.experiment = u.row.experiment /\ s.dirty = u.row.dirty /\ s.config = u.row.config
        /\ s.fingerprint = u.row.fingerprint /\ s.status = u.row.status
        /\ s.startedAt = u.row.startedAt /\ s.endedAt = u.row.endedAt /\ s.prov = u.row.prov
        /\ Entries(s.params) = u.params /\ Entries(s.metrics) = u.metrics
        /\ s.capture = IF u.row.declared
                       THEN [client |-> u.row.client, names |-> u.attempted, sorted |-> TRUE]
                       ELSE None
    BY <1>9, AssembledFields
  <2>2. /\ r.experiment = e.experiment /\ r.dirty = e.dirty /\ r.config = e.config
        /\ r.params = e.params
    BY <1>4 DEF IdentityOf
  <2> HIDE DEF s
  <2> QED
    BY <1>2, <1>4, <1>7, <1>8, <2>1, <2>2
<1> HIDE DEF s
<1>14. Canonical(s) = Canonical(r)
  BY <1>4, <1>12, <1>13, SameCanonical
<1>15. Validate(s) /\ Compute(s) = Compute(r)
  BY <1>4, <1>13 DEF Validate, Compute
<1>16. TableSound(u)
  <2>1. u.row.fingerprint = Compute(s)
    BY <1>1, <1>4, <1>8, <1>15
  <2> QED
    BY <1>4, <1>8, <1>11, <1>12, <1>15, <2>1 DEF TableSound, s
<1> QED
  BY <1>4, <1>9, <1>10, <1>14, <1>16 DEF s, u

-----------------------------------------------------------------------------
(* Steps in general.                                                       *)

\* A goroutine between two calls.
LEMMA IdleCall ==
    /\ Idle \in CallRecords
    /\ Absent \in Tables
    /\ \A d : CallInv(Idle, d)
<1>1. NoRows \in ParamMaps /\ NoRows \in MetricMaps
  <2>1. \A K, V : NoRows \in MapsOver(K, V)
    <3> TAKE K, V
    <3>1. NoRows \in [{} -> V] /\ {} \in SUBSET K
      BY DEF NoRows
    <3> QED
      BY <3>1 DEF MapsOver
  <2> QED
    BY <2>1 DEF ParamMaps, MetricMaps
<1>2. Absent \in Tables
  BY <1>1 DEF Absent, Tables
<1>3. Idle.seen \in MapsOver(RunIDs, Tables)
  <2>1. [id \in {} |-> Absent] \in [{} -> Tables] /\ {} \in SUBSET RunIDs
    OBVIOUS
  <2> QED
    BY <2>1 DEF Idle, MapsOver
<1>4. Idle \in CallRecords
  BY <1>2, <1>3 DEF Idle, CallRecords, Inputs
<1>5. ASSUME NEW d PROVE CallInv(Idle, d)
  BY DEF Idle, CallInv, CallShape, SeenSound, HolderSees, HolderWrites, AckIsDue, Queries, InTx
<1> QED
  BY <1>2, <1>4, <1>5

\* A record or an update is about the one id in ids.
LEMMA TargetIs ==
    ASSUME NEW c, NEW id, call[c].ids = {id}
    PROVE  Target(c) = id
<1>1. \A x : (CHOOSE y \in {x} : TRUE) = x
  OBVIOUS
<1> QED
  BY <1>1 DEF Target

(***************************************************************************)
(* A goroutine's call moves on to k and the committed tables stay: the     *)
(* invariant is kept if it holds of k and the mutex and the pool go with   *)
(* k's place in the code.                                                  *)
(***************************************************************************)
LEMMA LocalStep ==
    ASSUME IInv, NEW c \in Goroutines, NEW k \in CallRecords, CallInv(k, db),
           call' = [call EXCEPT ![c] = k],
           UNCHANGED db,
           acked' \subseteq RunIDs \X Sent,
           \A a \in acked' : Durable(db, a[1], a[2]),
           mu' \in Goroutines \union {"free"},
           mu' = c <=> k.op # "read" /\ k.pc \in Writing,
           \A d \in Goroutines \ {c} : mu' = d <=> mu = d,
           conns' = IF k.pc \in InTx THEN conns \union {c} ELSE conns \ {c},
           k.pc \in InTx => c \in conns \/ Cardinality(conns) < MaxConns
    PROVE  IInv'
<1>1. call' \in [Goroutines -> CallRecords] /\ call'[c] = k
      /\ \A d \in Goroutines \ {c} : call'[d] = call[d]
  BY DEF IInv, TypeInv
<1>2. /\ IsFiniteSet(conns) /\ Cardinality(conns) \in Nat /\ Cardinality(conns) <= MaxConns
      /\ MaxConns \in Nat /\ conns \subseteq Goroutines
  BY FS_CardinalityType, DuckAssumption DEF IInv, TypeInv
<1>3. /\ IsFiniteSet(conns') /\ Cardinality(conns') <= MaxConns
      /\ conns' \subseteq Goroutines
      /\ c \in conns' <=> k.pc \in InTx
      /\ \A d \in Goroutines \ {c} : d \in conns' <=> d \in conns
  <2>1. CASE k.pc \in InTx
    <3>1. conns' = conns \union {c}
      BY <2>1
    <3>2. /\ IsFiniteSet(conns \union {c})
          /\ Cardinality(conns \union {c})
                = IF c \in conns THEN Cardinality(conns) ELSE Cardinality(conns) + 1
      BY <1>2, FS_AddElement
    <3>3. Cardinality(conns \union {c}) <= MaxConns
      BY <1>2, <2>1, <3>2
    <3> QED
      BY <1>2, <2>1, <3>1, <3>2, <3>3
  <2>2. CASE k.pc \notin InTx
    <3>1. conns' = conns \ {c}
      BY <2>2
    <3>2. /\ IsFiniteSet(conns \ {c})
          /\ Cardinality(conns \ {c})
                = IF c \in conns THEN Cardinality(conns) - 1 ELSE Cardinality(conns)
      BY <1>2, FS_RemoveElement
    <3>3. Cardinality(conns \ {c}) <= MaxConns
      BY <1>2, <3>2
    <3> QED
      BY <1>2, <2>2, <3>1, <3>2, <3>3
  <2> QED
    BY <2>1, <2>2
<1>4. \A d \in Goroutines :
          /\ mu' = d <=> call'[d].op # "read" /\ call'[d].pc \in Writing
          /\ d \in conns' <=> call'[d].pc \in InTx
  BY <1>1, <1>3 DEF IInv, TypeInv
<1>5. TypeInv'
  BY <1>1, <1>3, <1>4 DEF IInv, TypeInv
<1>6. \A d \in Goroutines : CallInv(call'[d], db')
  BY <1>1 DEF IInv
<1> QED
  BY <1>5, <1>6 DEF IInv

\* The same, if the call keeps its place with the mutex and the pool.
LEMMA QuietStep ==
    ASSUME IInv, NEW c \in Goroutines, NEW k \in CallRecords, CallInv(k, db),
           call' = [call EXCEPT ![c] = k],
           UNCHANGED <<db, mu, conns, acked>>,
           call[c].op # "read" /\ call[c].pc \in Writing <=> k.op # "read" /\ k.pc \in Writing,
           call[c].pc \in InTx <=> k.pc \in InTx
    PROVE  IInv'
<1>1. /\ acked' \subseteq RunIDs \X Sent
      /\ \A a \in acked' : Durable(db, a[1], a[2])
      /\ mu' \in Goroutines \union {"free"}
      /\ mu' = c <=> k.op # "read" /\ k.pc \in Writing
      /\ \A d \in Goroutines \ {c} : mu' = d <=> mu = d
  BY DEF IInv, TypeInv
<1>2. c \in conns <=> k.pc \in InTx
  BY DEF IInv, TypeInv
<1>3. conns' = IF k.pc \in InTx THEN conns \union {c} ELSE conns \ {c}
  BY <1>2
<1>4. UNCHANGED db
  OBVIOUS
<1> QED
  BY <1>1, <1>2, <1>3, <1>4, LocalStep

\* What a handler asks Record to store.
LEMMA SentRun ==
    ASSUME NEW r \in Sent
    PROVE  /\ r \in Run /\ Validate(r) /\ r.status \in Statuses /\ r.fingerprint = Compute(r)
           /\ r.capture # None => r.capture.sorted = TRUE
<1>1. PICK post \in Posts : r = [post[2] EXCEPT !.capture = NormalizeCapture(@)]
  BY DEF Sent
<1>2. post[2] \in Run /\ post[2].fingerprint = Compute(post[2]) /\ Validate(post[2])
  BY DuckAssumption
<1> DEFINE q == post[2]
<1> HIDE DEF q
<1>3. q \in Run /\ q.fingerprint = Compute(q) /\ Validate(q)
  BY <1>2 DEF q
<1>4. r = [q EXCEPT !.capture = NormalizeCapture(@)]
  BY <1>1 DEF q
<1> QED
  BY <1>3, <1>4, NormalizedRun

\* applyPatch answers with a run or with an error, never with both.
LEMMA PatchAnswer ==
    ASSUME NEW e, NEW p, NEW now
    PROVE  \/ ApplyPatch(e, p, now) = Ok(ApplyPatch(e, p, now).run)
           \/ ApplyPatch(e, p, now).err # "nil" /\ ApplyPatch(e, p, now).run = NoRun
  BY DEF ApplyPatch, Ok, Refused

-----------------------------------------------------------------------------
(* The calls begin, and take the mutex.                                    *)

\* A new call has seen and written nothing.
LEMMA NewCallStep ==
    ASSUME IInv, NEW c \in Goroutines, NEW pc, NEW op, NEW ids \in SUBSET RunIDs,
           NEW input \in Inputs,
           NewCall(c, pc, op, ids, input),
           \/ op = "read" /\ pc = "row"
           \/ /\ pc = "lock"
              /\ \E id \in RunIDs : ids = {id}
              /\ \/ op = "record" /\ input \in Sent
                 \/ op = "update" /\ input \in Patches
    PROVE  IInv'
<1> DEFINE k == [Idle EXCEPT !.pc = pc, !.op = op, !.ids = ids, !.input = input]
<1>1. /\ call[c].pc \in {"idle", "answered"}
      /\ call' = [call EXCEPT ![c] = k]
      /\ UNCHANGED <<db, mu, conns, acked>>
  BY DEF NewCall
<1>2. /\ k.pc = pc /\ k.op = op /\ k.ids = ids /\ k.input = input /\ k.ok = FALSE
      /\ k.seen = Idle.seen /\ k.write = Idle.write /\ k.tx = Idle.tx
  BY DEF Idle
<1>3. k \in CallRecords
  BY IdleCall DEF CallRecords, Idle, Writing
<1> HIDE DEF k
<1>4. CallInv(k, db)
  BY <1>2 DEF CallInv, CallShape, SeenSound, HolderSees, HolderWrites, AckIsDue, Queries, InTx
<1>5. ~(call[c].op # "read" /\ call[c].pc \in Writing) /\ call[c].pc \notin InTx
  BY <1>1 DEF Writing, InTx
<1>6. ~(k.op # "read" /\ k.pc \in Writing) /\ k.pc \notin InTx
  BY <1>2 DEF Writing, InTx
<1> QED
  BY <1>1, <1>3, <1>4, <1>5, <1>6, QuietStep

\* Get, List, Record and Update are called.
LEMMA CallSteps ==
    ASSUME IInv, NEW c \in Goroutines, CallRead(c) \/ CallRecord(c) \/ CallUpdate(c)
    PROVE  IInv'
<1>1. CASE CallRead(c)
  <2>1. PICK ids \in (SUBSET RunIDs) \ {{}}, status \in {None, Running, Succeeded} :
           NewCall(c, "row", "read", ids, status)
    BY <1>1 DEF CallRead
  <2>2. status \in Inputs
    BY DEF Inputs
  <2> QED
    BY <2>1, <2>2, NewCallStep
<1>2. CASE CallRecord(c)
  <2>1. PICK post \in Posts :
           NewCall(c, "lock", "record", {post[1]}, [post[2] EXCEPT !.capture = NormalizeCapture(@)])
    BY <1>2 DEF CallRecord
  <2> DEFINE r == [post[2] EXCEPT !.capture = NormalizeCapture(@)]
  <2>2. r \in Sent
    BY DEF Sent
  <2>3. r \in Inputs
    BY <2>2 DEF Inputs
  <2>4. post[1] \in RunIDs
    BY DuckAssumption
  <2> HIDE DEF r
  <2>5. NewCall(c, "lock", "record", {post[1]}, r)
    BY <2>1 DEF r
  <2> QED
    BY <2>2, <2>3, <2>4, <2>5, NewCallStep
<1>3. CASE CallUpdate(c)
  <2>1. PICK id \in RunIDs, p \in Patches : NewCall(c, "lock", "update", {id}, p)
    BY <1>3 DEF CallUpdate
  <2>2. p \in Inputs
    BY DEF Inputs
  <2> QED
    BY <2>1, <2>2, NewCallStep
<1> QED
  BY <1>1, <1>2, <1>3

\* What is known of a call that is under way.
LEMMA Underway ==
    ASSUME IInv, NEW c \in Goroutines
    PROVE  /\ call[c] \in CallRecords
           /\ call \in [Goroutines -> CallRecords]
           /\ CallShape(call[c])
           /\ SeenSound(call[c], db)
           /\ HolderSees(call[c], db)
           /\ HolderWrites(call[c], db)
           /\ AckIsDue(call[c], db)
           /\ db \in [RunIDs -> Tables]
           /\ \A id \in RunIDs : TableSound(db[id])
  BY DEF IInv, TypeInv, CallInv

\* d.mu.Lock() admits one goroutine.
LEMMA LockStep ==
    ASSUME IInv, NEW c \in Goroutines, Lock(c)
    PROVE  IInv'
<1> DEFINE k == [call[c] EXCEPT !.pc = "row"]
<1>1. /\ call[c].pc = "lock" /\ mu = "free" /\ mu' = c
      /\ call' = [call EXCEPT ![c] = k]
      /\ UNCHANGED <<db, conns, acked>>
  BY Underway DEF Lock, Goto
<1>2. call[c].op \in {"record", "update"} /\ ~call[c].ok
  BY <1>1, Underway DEF CallShape, Queries, CallRecords
<1>3. /\ k \in CallRecords
      /\ k.pc = "row" /\ k.op = call[c].op /\ k.ids = call[c].ids /\ k.input = call[c].input
      /\ k.ok = call[c].ok
  BY Underway DEF CallRecords, Writing
<1> HIDE DEF k
<1>4. CallInv(k, db)
  BY <1>1, <1>2, <1>3, Underway
  DEF CallInv, CallShape, SeenSound, HolderSees, HolderWrites, AckIsDue, Queries, InTx
<1>5. /\ mu' \in Goroutines \union {"free"}
      /\ mu' = c <=> k.op # "read" /\ k.pc \in Writing
      /\ \A d \in Goroutines \ {c} : mu' = d <=> mu = d
  BY <1>1, <1>2, <1>3, DuckAssumption DEF Writing
<1>6. /\ k.pc \notin InTx
      /\ conns' = IF k.pc \in InTx THEN conns \union {c} ELSE conns \ {c}
  <2>1. c \notin conns
    BY <1>1 DEF IInv, TypeInv, InTx
  <2> QED
    BY <1>1, <1>3, <2>1 DEF InTx
<1>7. acked' \subseteq RunIDs \X Sent /\ \A a \in acked' : Durable(db, a[1], a[2])
  BY <1>1 DEF IInv, TypeInv
<1> QED
  BY <1>1, <1>3, <1>4, <1>5, <1>6, <1>7, LocalStep

-----------------------------------------------------------------------------
(* The queries.                                                            *)

\* A committed row that was found is kept, trivially, by the version it is of.
LEMMA FoundRow ==
    ASSUME NEW t \in Tables, t.row # NoRun, TableSound(t),
           NEW s, s.row = t.row
    PROVE  SeenKept("params", s, t)
<1>1. /\ t.row.status \in Statuses
      /\ t.row.endedAt # None => t.row.startedAt <= t.row.endedAt
  BY AssembledFields DEF TableSound, Validate
<1> QED
  BY <1>1 DEF SeenKept, RowKept

\* SELECT ... FROM runs: in the mutex, what it finds or misses stays so.
LEMMA QueryRowStep ==
    ASSUME IInv, NEW c \in Goroutines, QueryRow(c)
    PROVE  IInv'
<1> DEFINE found == {id \in RunIDs : Selected(c, id)}
           seen == [id \in found |-> [Absent EXCEPT !.row = db[id].row]]
           write == IF call[c].op = "record" THEN call[c].input ELSE call[c].write
           pc == IF found # {} THEN "params"
                 ELSE CASE call[c].op = "read"   -> "answered"
                        [] call[c].op = "record" -> "begin"
                        [] call[c].op = "update" -> "return"
           k == [call[c] EXCEPT !.seen = seen, !.write = write, !.pc = pc]
<1>1. /\ call[c].pc = "row"
      /\ call' = [call EXCEPT ![c] = k]
      /\ UNCHANGED <<db, mu, conns, acked>>
  <2>1. /\ call[c].pc = "row"
        /\ call' = [call EXCEPT ![c].seen = seen,
              ![c].write = IF call[c].op = "record" THEN call[c].input ELSE @,
              ![c].pc = pc]
        /\ UNCHANGED <<db, mu, conns, acked>>
    BY DEF QueryRow
  <2> HIDE DEF seen, pc
  <2>2. call' = [call EXCEPT ![c] = k]
    BY <2>1, Underway DEF CallRecords
  <2> QED
    BY <2>1, <2>2
<1>2. /\ call[c].op \in {"read", "record", "update"} /\ ~call[c].ok
      /\ call[c].op # "read" => \E id \in RunIDs : call[c].ids = {id}
      /\ call[c].op = "record" => call[c].input \in Sent
      /\ call[c].op = "update" => call[c].input \in Patches
  BY <1>1, Underway DEF CallShape, CallRecords
<1>3. \A id \in found :
         /\ seen[id] \in Tables /\ seen[id].row = db[id].row
         /\ id \in call[c].ids /\ db[id].row # NoRun
  BY IdleCall, Underway DEF Selected, Absent, Tables
<1>4. seen \in MapsOver(RunIDs, Tables) /\ DOMAIN seen = found
  <2>1. seen \in [found -> Tables] /\ found \in SUBSET RunIDs
    BY <1>3
  <2> QED
    BY <2>1 DEF MapsOver
<1>5. \A id \in call[c].ids : call[c].op # "read" => (id \in found <=> db[id].row # NoRun)
  BY Underway DEF Selected, CallRecords
<1>6. write \in Run \union {NoRun}
  BY <1>2, SentRun, Underway DEF CallRecords
<1>7. /\ pc \in {"params", "answered", "begin", "return"}
      /\ found # {} <=> pc = "params"
      /\ pc = "answered" => call[c].op = "read"
      /\ call[c].op = "read" => pc \in {"params", "answered"}
      /\ call[c].op = "record" => pc \in {"params", "begin"}
      /\ call[c].op = "update" => pc \in {"params", "return"}
  BY <1>2
<1> HIDE DEF found, seen, write, pc
<1>8. /\ k \in CallRecords
      /\ k.pc = pc /\ k.op = call[c].op /\ k.ids = call[c].ids /\ k.input = call[c].input
      /\ k.ok = call[c].ok /\ k.seen = seen /\ k.write = write
  BY <1>4, <1>6, <1>7, Underway DEF CallRecords, Writing
<1> HIDE DEF k
<1>9. CallShape(k)
  BY <1>1, <1>2, <1>7, <1>8 DEF CallShape, Queries
<1>10. SeenSound(k, db)
  <2> SUFFICES ASSUME NEW id \in found, pc = "params" PROVE SeenKept(pc, seen[id], db[id])
    BY <1>4, <1>7, <1>8 DEF SeenSound
  <2>1. id \in RunIDs /\ db[id] \in Tables /\ TableSound(db[id])
    BY Underway DEF found
  <2> QED
    BY <1>3, <2>1, FoundRow
<1>11. HolderSees(k, db)
  <2> SUFFICES ASSUME call[c].op # "read", pc = "params", NEW id \in call[c].ids
               PROVE  id \in found /\ seen[id].row = db[id].row
    BY <1>4, <1>7, <1>8 DEF HolderSees, Queries
  <2>1. found # {}
    BY <1>7
  <2>2. id \in found
    BY <1>2, <1>3, <2>1
  <2> QED
    BY <1>3, <2>2
<1>12. HolderWrites(k, db)
  <2> SUFFICES ASSUME pc = "begin", NEW id \in call[c].ids
               PROVE  call[c].op = "record" /\ db[id].row = NoRun /\ write = call[c].input
    BY <1>7, <1>8 DEF HolderWrites, InTx
  <2>1. call[c].op = "record" /\ found = {}
    BY <1>2, <1>7
  <2> QED
    BY <1>5, <2>1 DEF write
<1>13. CallInv(k, db)
  BY <1>2, <1>8, <1>9, <1>10, <1>11, <1>12 DEF CallInv, AckIsDue
<1>14. /\ call[c].op # "read" /\ call[c].pc \in Writing <=> k.op # "read" /\ k.pc \in Writing
       /\ call[c].pc \in InTx <=> k.pc \in InTx
  BY <1>1, <1>2, <1>7, <1>8 DEF Writing, InTx
<1> QED
  BY <1>1, <1>8, <1>13, <1>14, QuietStep

\* A query of a side table, as far as its effect on the call goes.
LEMMA SideStep ==
    ASSUME IInv, NEW c \in Goroutines, NEW seen \in MapsOver(RunIDs, Tables),
           NEW pc \in {"metrics", "attempted", "decide", "answered"},
           call[c].pc \in Queries,
           pc = "answered" => call[c].op = "read",
           pc = "decide" => call[c].op # "read",
           call' = [call EXCEPT ![c] = [call[c] EXCEPT !.seen = seen, !.pc = pc]],
           UNCHANGED <<db, mu, conns, acked>>,
           \A id \in DOMAIN seen : SeenKept(pc, seen[id], db[id]),
           call[c].op # "read" => HolderSees([call[c] EXCEPT !.seen = seen, !.pc = pc], db)
    PROVE  IInv'
<1> DEFINE k == [call[c] EXCEPT !.seen = seen, !.pc = pc]
<1>1. call[c].op \in {"read", "record", "update"} /\ ~call[c].ok
  BY Underway DEF CallShape, CallRecords, Queries
<1>2. /\ k \in CallRecords
      /\ k.pc = pc /\ k.op = call[c].op /\ k.ids = call[c].ids /\ k.input = call[c].input
      /\ k.ok = call[c].ok /\ k.seen = seen
  BY Underway DEF CallRecords, Writing
<1>3. call[c].op # "read" => HolderSees(k, db)
  OBVIOUS
<1>4. call' = [call EXCEPT ![c] = k]
  OBVIOUS
<1> HIDE DEF k
<1>5. CallShape(k)
  BY <1>1, <1>2, Underway DEF CallShape, Queries
<1>6. HolderSees(k, db)
  BY <1>2, <1>3 DEF HolderSees
<1>7. CallInv(k, db)
  BY <1>1, <1>2, <1>5, <1>6 DEF CallInv, SeenSound, HolderWrites, AckIsDue, InTx
<1>8. /\ call[c].op # "read" /\ call[c].pc \in Writing <=> k.op # "read" /\ k.pc \in Writing
      /\ call[c].pc \in InTx <=> k.pc \in InTx
  BY <1>1, <1>2 DEF Writing, InTx, Queries
<1> QED
  BY <1>2, <1>4, <1>7, <1>8, QuietStep

\* SELECT ... FROM run_params.
LEMMA QueryParamsStep ==
    ASSUME IInv, NEW c \in Goroutines, QueryParams(c)
    PROVE  IInv'
<1> DEFINE old == call[c].seen
           seen == [id \in DOMAIN old |-> [old[id] EXCEPT !.params = db[id].params]]
<1>1. call[c].pc = "params" /\ UNCHANGED <<db, mu, conns, acked>>
  BY DEF QueryParams, QuerySide
<1>2. PICK S \in SUBSET RunIDs : old \in [S -> Tables]
  <2>1. old \in MapsOver(RunIDs, Tables)
    BY Underway DEF CallRecords
  <2> QED
    BY <2>1 DEF MapsOver
<1>3. /\ seen \in [S -> Tables]
      /\ \A id \in S :
            /\ seen[id].row = old[id].row /\ seen[id].params = db[id].params
  BY <1>2, Underway DEF Tables
<1>4. seen \in MapsOver(RunIDs, Tables) /\ DOMAIN seen = S
  BY <1>3 DEF MapsOver
<1>5. call' = [call EXCEPT ![c] = [call[c] EXCEPT !.seen = seen, !.pc = "metrics"]]
  BY Underway DEF QueryParams, QuerySide, CallRecords
<1>6. \A id \in S : SeenKept("params", old[id], db[id])
  BY <1>1, <1>2, Underway DEF SeenSound, Queries
<1>7. HolderSees(call[c], db) /\ call[c] \in CallRecords
  BY Underway
<1> HIDE DEF seen
<1>8. \A id \in DOMAIN seen : SeenKept("metrics", seen[id], db[id])
  BY <1>3, <1>4, <1>6 DEF SeenKept
<1>9. call[c].op # "read" => HolderSees([call[c] EXCEPT !.seen = seen, !.pc = "metrics"], db)
  BY <1>1, <1>2, <1>3, <1>4, <1>7 DEF HolderSees, Queries, CallRecords
<1> QED
  BY <1>1, <1>4, <1>5, <1>8, <1>9, SideStep DEF Queries

\* SELECT ... FROM run_metrics: after the row, so that of a row that was
\* finished then the metrics are final.
LEMMA QueryMetricsStep ==
    ASSUME IInv, NEW c \in Goroutines, QueryMetrics(c)
    PROVE  IInv'
<1> DEFINE old == call[c].seen
           seen == [id \in DOMAIN old |-> [old[id] EXCEPT !.metrics = db[id].metrics]]
<1>1. call[c].pc = "metrics" /\ UNCHANGED <<db, mu, conns, acked>>
  BY DEF QueryMetrics, QuerySide
<1>2. PICK S \in SUBSET RunIDs : old \in [S -> Tables]
  <2>1. old \in MapsOver(RunIDs, Tables)
    BY Underway DEF CallRecords
  <2> QED
    BY <2>1 DEF MapsOver
<1>3. /\ seen \in [S -> Tables]
      /\ \A id \in S :
            /\ seen[id].row = old[id].row /\ seen[id].params = old[id].params
            /\ seen[id].metrics = db[id].metrics
  BY <1>2, Underway DEF Tables
<1>4. seen \in MapsOver(RunIDs, Tables) /\ DOMAIN seen = S
  BY <1>3 DEF MapsOver
<1>5. call' = [call EXCEPT ![c] = [call[c] EXCEPT !.seen = seen, !.pc = "attempted"]]
  BY Underway DEF QueryMetrics, QuerySide, CallRecords
<1>6. \A id \in S : SeenKept("metrics", old[id], db[id])
  BY <1>1, <1>2, Underway DEF SeenSound, Queries
<1>7. HolderSees(call[c], db) /\ call[c] \in CallRecords
  BY Underway
<1> HIDE DEF seen
<1>8. \A id \in DOMAIN seen : SeenKept("attempted", seen[id], db[id])
  BY <1>3, <1>4, <1>6 DEF SeenKept
<1>9. call[c].op # "read" => HolderSees([call[c] EXCEPT !.seen = seen, !.pc = "attempted"], db)
  BY <1>1, <1>2, <1>3, <1>4, <1>7 DEF HolderSees, Queries, CallRecords
<1> QED
  BY <1>1, <1>4, <1>5, <1>8, <1>9, SideStep DEF Queries

\* SELECT ... FROM run_capture_attempted, and the read is complete.
LEMMA QueryAttemptedStep ==
    ASSUME IInv, NEW c \in Goroutines, QueryAttempted(c)
    PROVE  IInv'
<1> DEFINE old == call[c].seen
           seen == [id \in DOMAIN old |-> [old[id] EXCEPT !.attempted = db[id].attempted]]
           pc == IF call[c].op = "read" THEN "answered" ELSE "decide"
<1>1. call[c].pc = "attempted" /\ UNCHANGED <<db, mu, conns, acked>>
  BY DEF QueryAttempted, QuerySide
<1>2. PICK S \in SUBSET RunIDs : old \in [S -> Tables]
  <2>1. old \in MapsOver(RunIDs, Tables)
    BY Underway DEF CallRecords
  <2> QED
    BY <2>1 DEF MapsOver
<1>3. /\ seen \in [S -> Tables]
      /\ \A id \in S :
            /\ seen[id].row = old[id].row /\ seen[id].params = old[id].params
            /\ seen[id].metrics = old[id].metrics /\ seen[id].attempted = db[id].attempted
  BY <1>2, Underway DEF Tables
<1>4. seen \in MapsOver(RunIDs, Tables) /\ DOMAIN seen = S
  BY <1>3 DEF MapsOver
<1>5. call' = [call EXCEPT ![c] = [call[c] EXCEPT !.seen = seen, !.pc = pc]]
  BY Underway DEF QueryAttempted, QuerySide, CallRecords
<1>6. \A id \in S : SeenKept("attempted", old[id], db[id])
  BY <1>1, <1>2, Underway DEF SeenSound, Queries
<1>7. HolderSees(call[c], db) /\ call[c] \in CallRecords
  BY Underway
<1>8. /\ pc \in {"decide", "answered"} /\ (pc = "answered" => call[c].op = "read")
      /\ pc = "decide" => call[c].op # "read"
  OBVIOUS
<1> HIDE DEF seen, pc
<1>9. \A id \in DOMAIN seen : SeenKept(pc, seen[id], db[id])
  BY <1>3, <1>4, <1>6, <1>8 DEF SeenKept
<1>10. call[c].op # "read" => HolderSees([call[c] EXCEPT !.seen = seen, !.pc = pc], db)
  BY <1>1, <1>2, <1>3, <1>4, <1>7, <1>8 DEF HolderSees, Queries, CallRecords
<1> QED
  BY <1>1, <1>4, <1>5, <1>8, <1>9, <1>10, SideStep DEF Queries

\* A failed query ends the call; a write's mutex goes with its return.
LEMMA QueryFailsStep ==
    ASSUME IInv, NEW c \in Goroutines, QueryFails(c)
    PROVE  IInv'
<1>1. /\ call[c].pc \in {"row", "params", "metrics", "attempted", "begin"}
      /\ UNCHANGED <<db, mu, conns, acked>>
  BY DEF QueryFails
<1>2. call[c].op \in {"read", "record", "update"} /\ ~call[c].ok
  BY <1>1, Underway DEF CallShape, CallRecords
<1>3. CASE call[c].op = "read"
  <2>1. call' = [call EXCEPT ![c] = Idle]
    BY <1>3 DEF QueryFails
  <2>2. call[c].pc \notin InTx /\ Idle.pc \notin InTx /\ Idle.pc \notin Writing
    BY <1>1 DEF InTx, Idle, Writing
  <2> QED
    BY <1>1, <1>3, <2>1, <2>2, IdleCall, QuietStep
<1>4. CASE call[c].op # "read"
  <2> DEFINE k == [call[c] EXCEPT !.pc = "return"]
  <2>1. call' = [call EXCEPT ![c] = k]
    BY <1>4, Underway DEF QueryFails, CallRecords
  <2>2. /\ k \in CallRecords
        /\ k.pc = "return" /\ k.op = call[c].op /\ k.ids = call[c].ids
        /\ k.input = call[c].input /\ k.ok = call[c].ok
    BY Underway DEF CallRecords, Writing
  <2> HIDE DEF k
  <2>3. CallInv(k, db)
    BY <1>1, <1>2, <1>4, <2>2, Underway
    DEF CallInv, CallShape, SeenSound, HolderSees, HolderWrites, AckIsDue, Queries, InTx
  <2>4. /\ call[c].op # "read" /\ call[c].pc \in Writing <=> k.op # "read" /\ k.pc \in Writing
        /\ call[c].pc \in InTx <=> k.pc \in InTx
    BY <1>1, <1>4, <2>2 DEF Writing, InTx
  <2> QED
    BY <1>1, <2>1, <2>2, <2>3, <2>4, QuietStep
<1> QED
  BY <1>3, <1>4

-----------------------------------------------------------------------------
(* The decision, and the transaction up to its commit.                     *)

\* In the mutex, the run a call has read is the one that is stored.
LEMMA ExistingIsStored ==
    ASSUME IInv, NEW c \in Goroutines, call[c].pc = "decide"
    PROVE  \E id \in RunIDs :
              /\ call[c].ids = {id} /\ Target(c) = id
              /\ db[id] \in Tables /\ db[id].row # NoRun /\ TableSound(db[id])
              /\ Existing(c) = Assemble(db[id])
<1>1. call[c].op \in {"record", "update"}
  BY Underway DEF CallShape, CallRecords, Queries
<1>2. PICK id \in RunIDs : call[c].ids = {id}
  BY <1>1, Underway DEF CallShape
<1>3. Target(c) = id
  BY <1>2, TargetIs
<1>4. /\ id \in DOMAIN call[c].seen
      /\ call[c].seen[id].row = db[id].row /\ call[c].seen[id].params = db[id].params
      /\ call[c].seen[id].metrics = db[id].metrics
      /\ call[c].seen[id].attempted = db[id].attempted
  BY <1>1, <1>2, Underway DEF HolderSees
<1>5. SeenKept("decide", call[c].seen[id], db[id])
  BY <1>4, Underway DEF SeenSound
<1>6. db[id].row # NoRun
  BY <1>5 DEF SeenKept, RowKept
<1>7. Existing(c) = Assemble(db[id])
  BY <1>3, <1>4 DEF Existing, Assemble
<1> QED
  BY <1>2, <1>3, <1>6, <1>7, Underway

\* A Record that finds its run again says yes to a run that is stored.
LEMMA DecideRecordStep ==
    ASSUME IInv, NEW c \in Goroutines, DecideRecord(c)
    PROVE  IInv'
<1> DEFINE ok == Existing(c) = call[c].input
           k == [call[c] EXCEPT !.pc = "return", !.ok = ok]
<1>1. /\ call[c].pc = "decide" /\ call[c].op = "record"
      /\ call' = [call EXCEPT ![c].pc = "return", ![c].ok = ok]
      /\ UNCHANGED <<db, mu, conns, acked>>
  BY DEF DecideRecord
<1>2. ok \in BOOLEAN
  OBVIOUS
<1>3. PICK id \in RunIDs :
         /\ call[c].ids = {id}
         /\ db[id].row # NoRun
         /\ Existing(c) = Assemble(db[id])
  BY <1>1, ExistingIsStored
<1>4. ok => Durable(db, id, call[c].input)
  BY <1>3 DEF Durable
<1> HIDE DEF ok
<1>5. call' = [call EXCEPT ![c] = k]
  BY <1>1, Underway DEF CallRecords
<1>6. /\ k \in CallRecords
      /\ k.pc = "return" /\ k.op = call[c].op /\ k.ids = call[c].ids
      /\ k.input = call[c].input /\ k.ok = ok
  BY <1>2, Underway DEF CallRecords, Writing
<1> HIDE DEF k
<1>7. CallInv(k, db)
  BY <1>1, <1>3, <1>4, <1>6, Underway
  DEF CallInv, CallShape, SeenSound, HolderSees, HolderWrites, AckIsDue, Queries, InTx
<1>8. /\ call[c].op # "read" /\ call[c].pc \in Writing <=> k.op # "read" /\ k.pc \in Writing
      /\ call[c].pc \in InTx <=> k.pc \in InTx
  BY <1>1, <1>6 DEF Writing, InTx
<1> QED
  BY <1>1, <1>5, <1>6, <1>7, <1>8, QuietStep

\* An Update writes what applyPatch makes of the run that is stored.
LEMMA DecideUpdateStep ==
    ASSUME IInv, NEW c \in Goroutines, DecideUpdate(c)
    PROVE  IInv'
<1>1. /\ call[c].pc = "decide" /\ call[c].op = "update"
      /\ UNCHANGED <<db, mu, conns, acked>>
  BY DEF DecideUpdate
<1>2. PICK id \in RunIDs :
         /\ call[c].ids = {id}
         /\ db[id] \in Tables /\ db[id].row # NoRun /\ TableSound(db[id])
         /\ Existing(c) = Assemble(db[id])
  BY <1>1, ExistingIsStored
<1>3. PICK now \in Times :
         LET result == ApplyPatch(Existing(c), call[c].input, now)
         IN  call' = [call EXCEPT ![c].write = result.run,
                        ![c].pc = IF result.err = "nil" THEN "begin" ELSE "return"]
  BY DEF DecideUpdate
<1> DEFINE result == ApplyPatch(Assemble(db[id]), call[c].input, now)
           pc == IF result.err = "nil" THEN "begin" ELSE "return"
           write == result.run
           k == [call[c] EXCEPT !.write = write, !.pc = pc]
<1>4. call[c].input \in Patch /\ now \in Nat \ {0} /\ ~call[c].ok
  BY <1>1, Underway, PatchesAssumption, DuckAssumption DEF CallShape
<1>5. /\ pc = "begin" => result = Ok(write) /\ write \in Run
      /\ pc # "begin" => write = NoRun
  <2>1. \/ result = Ok(result.run)
        \/ result.err # "nil" /\ result.run = NoRun
    BY PatchAnswer
  <2>2. CASE result = Ok(result.run)
    <3>1. result.run \in Run
      BY <1>2, <1>4, <2>2, PatchedTables
    <3> QED
      BY <2>2, <3>1 DEF Ok
  <2> QED
    BY <2>1, <2>2
<1>6. pc \in {"begin", "return"}
  OBVIOUS
<1>7. call' = [call EXCEPT ![c].write = write, ![c].pc = pc]
  BY <1>2, <1>3
<1>8. pc = "begin" => \E n \in Times : ApplyPatch(Assemble(db[id]), call[c].input, n) = Ok(write)
  BY <1>5
<1> HIDE DEF write, pc, result
<1>9. call' = [call EXCEPT ![c] = k]
  BY <1>7, Underway DEF CallRecords
<1>10. /\ k \in CallRecords
       /\ k.pc = pc /\ k.op = call[c].op /\ k.ids = call[c].ids
       /\ k.input = call[c].input /\ k.ok = call[c].ok /\ k.write = write
  BY <1>5, <1>6, Underway DEF CallRecords, Writing
<1> HIDE DEF k
<1>11. HolderWrites(k, db)
  BY <1>1, <1>2, <1>6, <1>8, <1>10 DEF HolderWrites, InTx
<1>12. CallInv(k, db)
  BY <1>1, <1>2, <1>4, <1>6, <1>10, <1>11, Underway
  DEF CallInv, CallShape, SeenSound, HolderSees, AckIsDue, Queries
<1>13. /\ call[c].op # "read" /\ call[c].pc \in Writing <=> k.op # "read" /\ k.pc \in Writing
       /\ call[c].pc \in InTx <=> k.pc \in InTx
  BY <1>1, <1>6, <1>10 DEF Writing, InTx
<1> QED
  BY <1>1, <1>9, <1>10, <1>12, <1>13, QuietStep

\* What a call that is to write, or writes, knows of what it writes.
LEMMA WriteInHand ==
    ASSUME IInv, NEW c \in Goroutines, call[c].pc \in InTx \union {"begin"}
    PROVE  \E id \in RunIDs :
              /\ call[c].ids = {id} /\ Target(c) = id
              /\ db[id] \in Tables /\ TableSound(db[id])
              /\ ~call[c].ok
              /\ call[c].op \in {"record", "update"}
              /\ call[c].op = "record" =>
                    /\ db[id].row = NoRun
                    /\ call[c].input \in Sent
                    /\ call[c].write = call[c].input
              /\ call[c].op = "update" =>
                    /\ db[id].row # NoRun
                    /\ call[c].input \in Patch
                    /\ \E now \in Times :
                          /\ now \in Nat \ {0}
                          /\ ApplyPatch(Assemble(db[id]), call[c].input, now) = Ok(call[c].write)
<1>1. /\ call[c].op \in {"record", "update"} /\ ~call[c].ok
      /\ call[c].op = "record" => call[c].input \in Sent
      /\ call[c].op = "update" => call[c].input \in Patches
  BY Underway DEF CallShape, CallRecords, Queries, InTx
<1>2. PICK id \in RunIDs : call[c].ids = {id}
  BY <1>1, Underway DEF CallShape
<1>3. Target(c) = id
  BY <1>2, TargetIs
<1>4. /\ call[c].op = "record" => db[id].row = NoRun /\ call[c].write = call[c].input
      /\ call[c].op = "update" =>
            /\ db[id].row # NoRun
            /\ \E now \in Times : ApplyPatch(Assemble(db[id]), call[c].input, now) = Ok(call[c].write)
  BY <1>2, Underway DEF HolderWrites
<1>5. Times \subseteq Nat \ {0} /\ Patches \subseteq Patch
  BY DuckAssumption, PatchesAssumption
<1> QED
  BY <1>1, <1>2, <1>3, <1>4, <1>5, Underway

\* BeginTx: the connection, and a view of what is committed.
LEMMA BeginStep ==
    ASSUME IInv, NEW c \in Goroutines, Begin(c)
    PROVE  IInv'
<1>1. /\ call[c].pc = "begin" /\ Connected
      /\ conns' = conns \union {c}
      /\ call' = [call EXCEPT ![c].pc = "exec_row", ![c].tx = db[Target(c)]]
      /\ UNCHANGED <<db, mu, acked>>
  BY DEF Begin
<1>2. PICK id \in RunIDs :
         /\ call[c].ids = {id} /\ Target(c) = id
         /\ db[id] \in Tables
         /\ ~call[c].ok
         /\ call[c].op \in {"record", "update"}
         /\ call[c].op = "record" => db[id].row = NoRun /\ call[c].write = call[c].input
         /\ call[c].op = "update" =>
               /\ db[id].row # NoRun
               /\ \E now \in Times :
                     ApplyPatch(Assemble(db[id]), call[c].input, now) = Ok(call[c].write)
  <2>1. call[c].pc \in InTx \union {"begin"}
    BY <1>1
  <2> QED
    BY <2>1, WriteInHand
<1> DEFINE k == [call[c] EXCEPT !.pc = "exec_row", !.tx = db[id]]
<1>3. call' = [call EXCEPT ![c] = k]
  BY <1>1, <1>2, Underway DEF CallRecords
<1>4. /\ k \in CallRecords
      /\ k.pc = "exec_row" /\ k.op = call[c].op /\ k.ids = call[c].ids
      /\ k.input = call[c].input /\ k.ok = call[c].ok /\ k.write = call[c].write
      /\ k.tx = db[id]
  BY <1>2, Underway DEF CallRecords, Writing
<1> HIDE DEF k
<1>5. HolderWrites(k, db)
  <2>1. CASE k.op = "record"
    BY <1>2, <1>4, <2>1 DEF HolderWrites
  <2>2. CASE k.op = "update"
    BY <1>2, <1>4, <2>2 DEF HolderWrites
  <2> QED
    BY <1>2, <1>4, <2>1, <2>2
<1>6. CallInv(k, db)
  BY <1>1, <1>2, <1>4, <1>5, Underway
  DEF CallInv, CallShape, SeenSound, HolderSees, AckIsDue, Queries
<1>7. /\ mu' \in Goroutines \union {"free"}
      /\ mu' = c <=> k.op # "read" /\ k.pc \in Writing
      /\ \A d \in Goroutines \ {c} : mu' = d <=> mu = d
  BY <1>1, <1>2, <1>4 DEF Writing, IInv, TypeInv
<1>8. /\ conns' = IF k.pc \in InTx THEN conns \union {c} ELSE conns \ {c}
      /\ Cardinality(conns) < MaxConns
  BY <1>1, <1>4 DEF InTx, Connected
<1>9. acked' \subseteq RunIDs \X Sent /\ \A a \in acked' : Durable(db, a[1], a[2])
  BY <1>1 DEF IInv, TypeInv
<1> QED
  BY <1>1, <1>3, <1>4, <1>6, <1>7, <1>8, <1>9, LocalStep

\* INSERT INTO runs, or UPDATE runs, in the transaction's view.
LEMMA ExecRowStep ==
    ASSUME IInv, NEW c \in Goroutines, ExecRow(c)
    PROVE  IInv'
<1> DEFINE new == RowOf(call[c].write)
           row == IF call[c].op = "record" THEN new
                  ELSE PatchedRow(call[c].tx.row, call[c].write)
           tx == [call[c].tx EXCEPT !.row = row]
           k == [call[c] EXCEPT !.pc = "exec_side", !.tx = tx]
<1>1. /\ call[c].pc = "exec_row"
      /\ call' = [call EXCEPT ![c].pc = "exec_side",
            ![c].tx.row = IF call[c].op = "record" THEN new
                          ELSE [@ EXCEPT !.status = new.status, !.endedAt = new.endedAt,
                                         !.prov = new.prov]]
      /\ UNCHANGED <<db, mu, conns, acked>>
  BY DEF ExecRow
<1>2. PICK id \in RunIDs :
         /\ call[c].ids = {id}
         /\ db[id] \in Tables /\ TableSound(db[id])
         /\ ~call[c].ok
         /\ call[c].op \in {"record", "update"}
         /\ call[c].op = "record" =>
               db[id].row = NoRun /\ call[c].input \in Sent /\ call[c].write = call[c].input
         /\ call[c].op = "update" =>
               /\ db[id].row # NoRun
               /\ call[c].input \in Patch
               /\ \E now \in Times :
                     /\ now \in Nat \ {0}
                     /\ ApplyPatch(Assemble(db[id]), call[c].input, now) = Ok(call[c].write)
  <2>1. call[c].pc \in InTx \union {"begin"}
    BY <1>1 DEF InTx
  <2> QED
    BY <2>1, WriteInHand
<1>3. new.status = call[c].write.status /\ new.endedAt = call[c].write.endedAt
      /\ new.prov = call[c].write.prov
  BY DEF RowOf
<1>4. call[c].op = "update" => call[c].tx = db[id]
  BY <1>1, <1>2, Underway DEF HolderWrites, InTx
<1>5. row \in Rows
  <2>1. CASE call[c].op = "record"
    <3>1. Inserted(call[c].write) \in Tables /\ Inserted(call[c].write).row # NoRun
      BY <1>2, <2>1, SentRun, InsertedTables
    <3> QED
      BY <2>1, <3>1 DEF Inserted, Tables
  <2>2. CASE call[c].op = "update"
    <3> DEFINE u == Patched(db[id], call[c].write, call[c].input)
    <3>1. u \in Tables /\ u.row # NoRun
      BY <1>2, <2>2, PatchedTables
    <3>2. u.row = PatchedRow(db[id].row, call[c].write)
      BY <1>2 DEF Patched, Tables
    <3> QED
      BY <1>4, <2>2, <3>1, <3>2 DEF Tables
  <2> QED
    BY <1>2, <2>1, <2>2
<1>6. call' = [call EXCEPT ![c] = k]
  <2>1. call[c].op # "record" =>
          row = [call[c].tx.row EXCEPT !.status = new.status, !.endedAt = new.endedAt,
                                       !.prov = new.prov]
    BY <1>3 DEF PatchedRow
  <2> HIDE DEF new
  <2>2. call' = [call EXCEPT ![c].pc = "exec_side", ![c].tx.row = row]
    BY <1>1, <2>1
  <2> HIDE DEF row
  <2> QED
    BY <2>2, Underway DEF CallRecords, Tables
<1> HIDE DEF row
<1>a. tx \in Tables /\ tx.row = row
  BY <1>5, Underway DEF CallRecords, Tables
<1> HIDE DEF tx
<1>7. /\ k \in CallRecords
      /\ k.pc = "exec_side" /\ k.op = call[c].op /\ k.ids = call[c].ids
      /\ k.input = call[c].input /\ k.ok = call[c].ok /\ k.write = call[c].write
      /\ k.tx = tx
  BY <1>a, Underway DEF CallRecords, Writing
<1> HIDE DEF k
<1>8. HolderWrites(k, db)
  <2>1. CASE k.op = "record"
    BY <1>2, <1>7, <1>a, <2>1 DEF HolderWrites, row
  <2>2. CASE k.op = "update"
    <3>1. k.tx = [db[id] EXCEPT !.row = PatchedRow(@, k.write)]
      BY <1>2, <1>4, <1>7, <2>2 DEF tx, row
    <3> QED
      BY <1>2, <1>7, <2>2, <3>1 DEF HolderWrites
  <2> QED
    BY <1>2, <1>7, <2>1, <2>2
<1>9. CallInv(k, db)
  BY <1>1, <1>2, <1>7, <1>8, Underway
  DEF CallInv, CallShape, SeenSound, HolderSees, AckIsDue, Queries
<1>10. /\ call[c].op # "read" /\ call[c].pc \in Writing <=> k.op # "read" /\ k.pc \in Writing
       /\ call[c].pc \in InTx <=> k.pc \in InTx
  BY <1>1, <1>2, <1>7 DEF Writing, InTx
<1> QED
  BY <1>1, <1>6, <1>7, <1>9, <1>10, QuietStep

\* The side tables: the transaction's view is the new version whole.
LEMMA ExecSideStep ==
    ASSUME IInv, NEW c \in Goroutines, ExecSide(c)
    PROVE  IInv'
<1> DEFINE r == call[c].write
           tx == IF call[c].op = "record" THEN Inserted(r)
                 ELSE [call[c].tx EXCEPT !.metrics = Overlay(Entries(call[c].input.metrics), @)]
           k == [call[c] EXCEPT !.pc = "commit", !.tx = tx]
<1>1. /\ call[c].pc = "exec_side"
      /\ call' = [call EXCEPT ![c].pc = "commit",
            ![c].tx = IF call[c].op = "record"
                      THEN [@ EXCEPT !.params = Entries(r.params),
                                     !.metrics = Entries(r.metrics),
                                     !.attempted = IF r.capture = None THEN {}
                                                   ELSE r.capture.names]
                      ELSE [@ EXCEPT !.metrics = Overlay(Entries(call[c].input.metrics),
                                                         call[c].tx.metrics)]]
      /\ UNCHANGED <<db, mu, conns, acked>>
  BY DEF ExecSide
<1>2. PICK id \in RunIDs :
         /\ call[c].ids = {id}
         /\ db[id] \in Tables /\ TableSound(db[id])
         /\ ~call[c].ok
         /\ call[c].op \in {"record", "update"}
         /\ call[c].op = "record" =>
               db[id].row = NoRun /\ call[c].input \in Sent /\ r = call[c].input
         /\ call[c].op = "update" =>
               /\ db[id].row # NoRun
               /\ call[c].input \in Patch
               /\ \E now \in Times :
                     /\ now \in Nat \ {0}
                     /\ ApplyPatch(Assemble(db[id]), call[c].input, now) = Ok(r)
  <2>1. call[c].pc \in InTx \union {"begin"}
    BY <1>1 DEF InTx
  <2> QED
    BY <2>1, WriteInHand
<1>3. /\ call[c].op = "record" => call[c].tx.row = RowOf(r)
      /\ call[c].op = "update" => call[c].tx = [db[id] EXCEPT !.row = PatchedRow(@, r)]
  BY <1>1, <1>2, Underway DEF HolderWrites, InTx
<1>4. call[c].op = "record" =>
         tx = [call[c].tx EXCEPT !.params = Entries(r.params),
                 !.metrics = Entries(r.metrics),
                 !.attempted = IF r.capture = None THEN {} ELSE r.capture.names]
  <2> HAVE call[c].op = "record"
  <2> DEFINE x == Entries(r.params)
             y == Entries(r.metrics)
             z == IF r.capture = None THEN {} ELSE r.capture.names
             u == [call[c].tx EXCEPT !.params = x, !.metrics = y, !.attempted = z]
  <2>1. Inserted(r) = [row |-> RowOf(r), params |-> x, metrics |-> y, attempted |-> z]
    BY DEF Inserted
  <2>2. Inserted(r) \in Tables
    BY <1>2, SentRun, InsertedTables
  <2>3. x \in ParamMaps /\ y \in MetricMaps /\ z \in SUBSET CaptureFields
    BY <2>1, <2>2 DEF Tables
  <2> HIDE DEF x, y, z
  <2>4. /\ u \in Tables /\ u.row = call[c].tx.row
        /\ u.params = x /\ u.metrics = y /\ u.attempted = z
    BY <2>3, Underway DEF CallRecords, Tables
  <2> HIDE DEF u
  <2>5. u = [row |-> u.row, params |-> u.params, metrics |-> u.metrics,
             attempted |-> u.attempted]
    BY <2>4 DEF Tables
  <2>6. u = Inserted(r)
    BY <1>3, <2>1, <2>4, <2>5
  <2> QED
    BY <2>6 DEF u, x, y, z
<1>5. call[c].op = "update" => tx = Patched(db[id], r, call[c].input)
  BY <1>2, <1>3 DEF Patched, Tables
<1>6. tx \in Tables
  <2>1. CASE call[c].op = "record"
    BY <1>2, <2>1, SentRun, InsertedTables
  <2>2. CASE call[c].op = "update"
    BY <1>2, <1>5, <2>2, PatchedTables
  <2> QED
    BY <1>2, <2>1, <2>2
<1>7. call' = [call EXCEPT ![c] = k]
  <2> DEFINE a == Entries(r.params)
             b == Entries(r.metrics)
             d == IF r.capture = None THEN {} ELSE r.capture.names
             e == Overlay(Entries(call[c].input.metrics), call[c].tx.metrics)
  <2>1. call' = [call EXCEPT ![c].pc = "commit",
            ![c].tx = IF call[c].op = "record"
                      THEN [@ EXCEPT !.params = a, !.metrics = b, !.attempted = d]
                      ELSE [@ EXCEPT !.metrics = e]]
    BY <1>1
  <2>2. /\ call[c].op = "record" =>
              tx = [call[c].tx EXCEPT !.params = a, !.metrics = b, !.attempted = d]
        /\ call[c].op = "update" => tx = [call[c].tx EXCEPT !.metrics = e]
    BY <1>4
  <2> HIDE DEF tx, a, b, d, e
  <2>3. CASE call[c].op = "record"
    BY <2>1, <2>2, <2>3, Underway DEF CallRecords
  <2>4. CASE call[c].op = "update"
    BY <2>1, <2>2, <2>4, Underway DEF CallRecords
  <2> QED
    BY <1>2, <2>3, <2>4
<1> HIDE DEF tx
<1>8. /\ k \in CallRecords
      /\ k.pc = "commit" /\ k.op = call[c].op /\ k.ids = call[c].ids
      /\ k.input = call[c].input /\ k.ok = call[c].ok /\ k.write = r
      /\ k.tx = tx
  BY <1>6, Underway DEF CallRecords, Writing
<1> HIDE DEF k
<1>9. HolderWrites(k, db)
  <2>1. CASE k.op = "record"
    BY <1>2, <1>8, <2>1 DEF HolderWrites, tx
  <2>2. CASE k.op = "update"
    BY <1>2, <1>5, <1>8, <2>2 DEF HolderWrites
  <2> QED
    BY <1>2, <1>8, <2>1, <2>2
<1>10. CallInv(k, db)
  BY <1>1, <1>2, <1>8, <1>9, Underway
  DEF CallInv, CallShape, SeenSound, HolderSees, AckIsDue, Queries
<1>11. /\ call[c].op # "read" /\ call[c].pc \in Writing <=> k.op # "read" /\ k.pc \in Writing
       /\ call[c].pc \in InTx <=> k.pc \in InTx
  BY <1>1, <1>2, <1>8 DEF Writing, InTx
<1> QED
  BY <1>1, <1>7, <1>8, <1>10, <1>11, QuietStep

\* The deferred Rollback gives the connection back and leaves the mutex held.
LEMMA RollbackStep ==
    ASSUME IInv, NEW c \in Goroutines, Rollback(c)
    PROVE  IInv'
<1> DEFINE k == [call[c] EXCEPT !.pc = "return"]
<1>1. /\ call[c].pc \in InTx
      /\ conns' = conns \ {c}
      /\ call' = [call EXCEPT ![c] = k]
      /\ UNCHANGED <<db, mu, acked>>
  BY Underway DEF Rollback, Goto, InTx
<1>2. call[c].op \in {"record", "update"} /\ ~call[c].ok
  BY <1>1, Underway DEF CallShape, CallRecords, Queries, InTx
<1>3. /\ k \in CallRecords
      /\ k.pc = "return" /\ k.op = call[c].op /\ k.ids = call[c].ids
      /\ k.input = call[c].input /\ k.ok = call[c].ok
  BY Underway DEF CallRecords, Writing
<1> HIDE DEF k
<1>4. CallInv(k, db)
  BY <1>1, <1>2, <1>3, Underway
  DEF CallInv, CallShape, SeenSound, HolderSees, HolderWrites, AckIsDue, Queries, InTx
<1>5. /\ mu' \in Goroutines \union {"free"}
      /\ mu' = c <=> k.op # "read" /\ k.pc \in Writing
      /\ \A d \in Goroutines \ {c} : mu' = d <=> mu = d
  BY <1>1, <1>2, <1>3 DEF Writing, InTx, IInv, TypeInv
<1>6. /\ k.pc \notin InTx
      /\ conns' = IF k.pc \in InTx THEN conns \union {c} ELSE conns \ {c}
  BY <1>1, <1>3 DEF InTx
<1>7. acked' \subseteq RunIDs \X Sent /\ \A a \in acked' : Durable(db, a[1], a[2])
  BY <1>1 DEF IInv, TypeInv
<1> QED
  BY <1>1, <1>3, <1>4, <1>5, <1>6, <1>7, LocalStep

\* The deferred Unlock; what is acknowledged is in the tables.
LEMMA ReturnStep ==
    ASSUME IInv, NEW c \in Goroutines, Return(c)
    PROVE  IInv'
<1>1. /\ call[c].pc = "return"
      /\ mu' = "free"
      /\ acked' = IF call[c].op = "record" /\ call[c].ok
                  THEN acked \union {<<Target(c), call[c].input>>}
                  ELSE acked
      /\ call' = [call EXCEPT ![c] = Idle]
      /\ UNCHANGED <<db, conns>>
  BY DEF Return
<1>2. call[c].op \in {"record", "update"}
  BY <1>1, Underway DEF CallShape, CallRecords, Queries
<1>3. PICK id \in RunIDs : call[c].ids = {id}
  BY <1>2, Underway DEF CallShape
<1>4. Target(c) = id
  BY <1>3, TargetIs
<1>5. call[c].op = "record" => call[c].input \in Sent
  BY Underway DEF CallShape
<1>6. call[c].op = "record" /\ call[c].ok => Durable(db, id, call[c].input)
  BY <1>3, Underway DEF AckIsDue
<1>7. acked \subseteq RunIDs \X Sent /\ \A a \in acked : Durable(db, a[1], a[2])
  BY DEF IInv, TypeInv
<1>8. acked' \subseteq RunIDs \X Sent /\ \A a \in acked' : Durable(db, a[1], a[2])
  BY <1>1, <1>4, <1>5, <1>6, <1>7
<1>9. Idle.pc = "idle" /\ Idle.pc \notin Writing /\ Idle.pc \notin InTx
  BY DEF Idle, Writing, InTx
<1>10. mu = c
  BY <1>1, <1>2 DEF Writing, IInv, TypeInv
<1>11. /\ mu' \in Goroutines \union {"free"}
       /\ mu' = c <=> Idle.op # "read" /\ Idle.pc \in Writing
       /\ \A d \in Goroutines \ {c} : mu' = d <=> mu = d
  BY <1>1, <1>9, <1>10, DuckAssumption
<1>12. c \notin conns
  BY <1>1 DEF InTx, IInv, TypeInv
<1>13. conns' = IF Idle.pc \in InTx THEN conns \union {c} ELSE conns \ {c}
  BY <1>1, <1>9, <1>12
<1> QED
  BY <1>1, <1>8, <1>9, <1>11, <1>13, IdleCall, LocalStep

\* A crash takes the calls, the mutex and the connections, and no table.
LEMMA CrashStep ==
    ASSUME IInv, Crash
    PROVE  IInv'
<1>1. /\ mu' = "free" /\ conns' = {} /\ call' = [c \in Goroutines |-> Idle]
      /\ UNCHANGED <<db, acked>>
  BY DEF Crash
<1>2. IsFiniteSet({}) /\ Cardinality({}) = 0
  BY FS_EmptySet
<1>3. Idle.pc \notin Writing /\ Idle.pc \notin InTx
  BY DEF Idle, Writing, InTx
<1>4. TypeInv'
  BY <1>1, <1>2, <1>3, IdleCall, DuckAssumption DEF IInv, TypeInv
<1>5. \A c \in Goroutines : CallInv(call'[c], db')
  BY <1>1, IdleCall
<1> QED
  BY <1>1, <1>4, <1>5 DEF IInv

-----------------------------------------------------------------------------
(* The commit, the one step that changes the tables.                       *)

\* What a reader was promised of a version, the next version still keeps.
LEMMA SeenSurvives ==
    ASSUME NEW pc, NEW s, NEW t, NEW u, SeenKept(pc, s, t), TableKept(t, u)
    PROVE  SeenKept(pc, s, u)
<1>1. RowKept(s.row, t.row) /\ RowKept(t.row, u.row)
  BY DEF SeenKept, TableKept
<1>2. RowKept(s.row, u.row)
  BY <1>1 DEF RowKept
<1>3. Terminal(s.row.status) => Terminal(t.row.status)
  BY <1>1 DEF RowKept
<1> QED
  BY <1>2, <1>3 DEF SeenKept, TableKept

\* A run that was recorded is there in every later version.
LEMMA DurableSurvives ==
    ASSUME NEW d \in [RunIDs -> Tables], NEW e \in [RunIDs -> Tables], NEW id \in RunIDs, NEW r,
           Durable(d, id, r), TableKept(d[id], e[id])
    PROVE  Durable(e, id, r)
<1> DEFINE t == d[id]
           u == e[id]
           a == Assemble(t)
           b == Assemble(u)
<1>1. /\ t \in Tables /\ t.row # NoRun /\ u \in Tables /\ u.row # NoRun
  BY DEF Durable, TableKept, RowKept
<1>2. /\ u.row.experiment = t.row.experiment /\ u.row.dirty = t.row.dirty
      /\ u.row.config = t.row.config /\ u.row.fingerprint = t.row.fingerprint
      /\ u.row.startedAt = t.row.startedAt
      /\ u.row.declared = t.row.declared /\ u.row.client = t.row.client
      /\ u.params = t.params /\ u.attempted = t.attempted
      /\ DOMAIN t.metrics \subseteq DOMAIN u.metrics
  BY DEF TableKept, RowKept
<1>3. /\ a.experiment = r.experiment /\ a.dirty = r.dirty /\ a.config = r.config
      /\ Entries(a.params) = Entries(r.params)
      /\ a.fingerprint = r.fingerprint
      /\ a.startedAt = r.startedAt
      /\ a.capture = r.capture
      /\ DOMAIN Entries(r.metrics) \subseteq DOMAIN Entries(a.metrics)
  BY DEF Durable
<1>4. /\ a.experiment = t.row.experiment /\ a.dirty = t.row.dirty /\ a.config = t.row.config
      /\ Entries(a.params) = t.params /\ Entries(a.metrics) = t.metrics
      /\ a.fingerprint = t.row.fingerprint /\ a.startedAt = t.row.startedAt
      /\ a.capture = IF t.row.declared
                     THEN [client |-> t.row.client, names |-> t.attempted, sorted |-> TRUE]
                     ELSE None
  BY <1>1, AssembledFields
<1>5. /\ b.experiment = u.row.experiment /\ b.dirty = u.row.dirty /\ b.config = u.row.config
      /\ Entries(b.params) = u.params /\ Entries(b.metrics) = u.metrics
      /\ b.fingerprint = u.row.fingerprint /\ b.startedAt = u.row.startedAt
      /\ b.capture = IF u.row.declared
                     THEN [client |-> u.row.client, names |-> u.attempted, sorted |-> TRUE]
                     ELSE None
  BY <1>1, AssembledFields
<1> HIDE DEF a, b
<1>6. /\ b.experiment = r.experiment /\ b.dirty = r.dirty /\ b.config = r.config
      /\ Entries(b.params) = Entries(r.params)
      /\ b.fingerprint = r.fingerprint
      /\ b.startedAt = r.startedAt
      /\ b.capture = r.capture
      /\ DOMAIN Entries(r.metrics) \subseteq DOMAIN Entries(b.metrics)
  BY <1>2, <1>3, <1>4, <1>5
<1> QED
  BY <1>1, <1>6 DEF Durable, b

(***************************************************************************)
(* What Commit makes of the tables: the version of one id that is to be    *)
(* written, a sound one, which is new or the next one of what was there.   *)
(***************************************************************************)
LEMMA Committed ==
    ASSUME IInv, NEW c \in Goroutines, Commit(c)
    PROVE  \E id \in RunIDs :
              /\ call[c].ids = {id} /\ Target(c) = id
              /\ db' = [db EXCEPT ![id] = call[c].tx]
              /\ call[c].tx \in Tables /\ call[c].tx.row # NoRun
              /\ TableSound(call[c].tx)
              /\ db[id].row # NoRun => TableKept(db[id], call[c].tx)
              /\ \/ /\ call[c].op = "record"
                    /\ db[id].row = NoRun
                    /\ call[c].input \in Sent
                    /\ Canonical(Assemble(call[c].tx)) = Canonical(call[c].input)
                    /\ Durable(db', id, call[c].input)
                 \/ /\ call[c].op = "update"
                    /\ db[id].row # NoRun
                    /\ call[c].input \in Patches
                    /\ \E now \in Times :
                          /\ ApplyPatch(Assemble(db[id]), call[c].input, now) = Ok(call[c].write)
                          /\ Canonical(Assemble(call[c].tx)) = Canonical(call[c].write)
<1>1. /\ call[c].pc = "commit"
      /\ db' = [db EXCEPT ![Target(c)] = call[c].tx]
  BY DEF Commit
<1>2. PICK id \in RunIDs :
         /\ call[c].ids = {id} /\ Target(c) = id
         /\ db[id] \in Tables /\ TableSound(db[id])
         /\ call[c].op \in {"record", "update"}
         /\ call[c].op = "record" =>
               db[id].row = NoRun /\ call[c].input \in Sent /\ call[c].write = call[c].input
         /\ call[c].op = "update" =>
               /\ db[id].row # NoRun
               /\ call[c].input \in Patch
               /\ \E now \in Times :
                     /\ now \in Nat \ {0}
                     /\ ApplyPatch(Assemble(db[id]), call[c].input, now) = Ok(call[c].write)
  <2>1. call[c].pc \in InTx \union {"begin"}
    BY <1>1 DEF InTx
  <2> QED
    BY <2>1, WriteInHand
<1> DEFINE tx == call[c].tx
           w == call[c].write
           p == call[c].input
<1>3. /\ call[c].op = "record" => tx = Inserted(w)
      /\ call[c].op = "update" => tx = Patched(db[id], w, p)
  BY <1>1, <1>2, Underway DEF HolderWrites, InTx
<1>4. db' = [db EXCEPT ![id] = tx] /\ db'[id] = tx
  BY <1>1, <1>2, Underway
<1> HIDE DEF tx, w, p
<1>5. CASE call[c].op = "record"
  <2>1. /\ w \in Run /\ Validate(w) /\ w.status \in Statuses /\ w.fingerprint = Compute(w)
        /\ w.capture # None => w.capture.sorted = TRUE
        /\ w = p /\ p \in Sent /\ db[id].row = NoRun
    BY <1>2, <1>5, SentRun DEF w, p
  <2> DEFINE s == Assemble(Inserted(w))
  <2>2. /\ Inserted(w) \in Tables /\ Inserted(w).row # NoRun
        /\ TableSound(Inserted(w))
        /\ Canonical(s) = Canonical(w)
        /\ s.experiment = w.experiment /\ s.dirty = w.dirty /\ s.config = w.config
        /\ Entries(s.params) = Entries(w.params) /\ Entries(s.metrics) = Entries(w.metrics)
        /\ s.fingerprint = w.fingerprint /\ s.startedAt = w.startedAt
        /\ s.capture = w.capture
    BY <2>1, InsertedTables
  <2>3. s = Assemble(db'[id]) /\ db'[id].row # NoRun
    BY <1>3, <1>4, <1>5, <2>2
  <2> HIDE DEF s
  <2>4. Durable(db', id, w)
    BY <2>2, <2>3 DEF Durable
  <2> QED
    BY <1>2, <1>3, <1>4, <1>5, <2>1, <2>2, <2>4 DEF tx, w, p, s
<1>6. CASE call[c].op = "update"
  <2>1. PICK now \in Times :
           now \in Nat \ {0} /\ ApplyPatch(Assemble(db[id]), p, now) = Ok(w)
    BY <1>2, <1>6 DEF w, p
  <2>2. /\ tx \in Tables /\ tx.row # NoRun
        /\ TableSound(tx)
        /\ TableKept(db[id], tx)
        /\ Canonical(Assemble(tx)) = Canonical(w)
    BY <1>2, <1>3, <1>6, <2>1, PatchedTables DEF w, p
  <2>3. p \in Patches
    BY <1>6, Underway DEF CallShape, p
  <2> QED
    BY <1>2, <1>4, <1>6, <2>1, <2>2, <2>3 DEF tx, w, p
<1> QED
  BY <1>2, <1>5, <1>6

\* tx.Commit: nobody but the holder of the mutex relied on what it replaces.
LEMMA CommitStep ==
    ASSUME IInv, NEW c \in Goroutines, Commit(c)
    PROVE  IInv'
<1> DEFINE k == [call[c] EXCEPT !.pc = "return", !.ok = TRUE]
<1>1. /\ call[c].pc = "commit"
      /\ conns' = conns \ {c}
      /\ call' = [call EXCEPT ![c] = k]
      /\ UNCHANGED <<mu, acked>>
  BY Underway DEF Commit, CallRecords
<1>2. PICK id \in RunIDs :
         /\ call[c].ids = {id}
         /\ db' = [db EXCEPT ![id] = call[c].tx]
         /\ call[c].tx \in Tables
         /\ TableSound(call[c].tx)
         /\ db[id].row # NoRun => TableKept(db[id], call[c].tx)
         /\ call[c].op \in {"record", "update"}
         /\ call[c].op = "record" => Durable(db', id, call[c].input)
  BY Committed
<1>3. /\ db \in [RunIDs -> Tables] /\ db' \in [RunIDs -> Tables]
      /\ db'[id] = call[c].tx
      /\ \A i \in RunIDs \ {id} : db'[i] = db[i]
  BY <1>2, Underway
<1>4. \A i \in RunIDs : TableSound(db'[i])
  BY <1>2, <1>3, Underway
<1>5. \A i \in RunIDs : db[i].row # NoRun => TableKept(db[i], db'[i])
  <2>1. \A t : t.row # NoRun => TableKept(t, t)
    BY DEF TableKept, RowKept
  <2> QED
    BY <1>2, <1>3, <2>1
<1>6. \A i \in RunIDs : \A r : Durable(db, i, r) => Durable(db', i, r)
  <2> TAKE i \in RunIDs
  <2> TAKE r
  <2> HAVE Durable(db, i, r)
  <2>1. TableKept(db[i], db'[i])
    BY <1>5 DEF Durable
  <2> QED
    BY <1>3, <2>1, DurableSurvives
<1>7. /\ k \in CallRecords
      /\ k.pc = "return" /\ k.op = call[c].op /\ k.ids = call[c].ids
      /\ k.input = call[c].input
  BY Underway DEF CallRecords, Writing
<1> HIDE DEF k
<1>8. CallInv(k, db')
  <2>1. AckIsDue(k, db')
    BY <1>2, <1>7 DEF AckIsDue
  <2> QED
    BY <1>1, <1>2, <1>7, <2>1, Underway
    DEF CallInv, CallShape, SeenSound, HolderSees, HolderWrites, Queries, InTx
<1>9. mu = c
  BY <1>1, <1>2 DEF IInv, TypeInv, Writing
<1>10. ASSUME NEW g \in Goroutines \ {c}
       PROVE  CallInv(call[g], db')
  <2>1. call[g].op = "read" \/ call[g].pc \notin Writing
    BY <1>9 DEF IInv, TypeInv
  <2>2. /\ call[g] \in CallRecords /\ CallShape(call[g]) /\ SeenSound(call[g], db)
    BY Underway
  <2>3. SeenSound(call[g], db')
    <3> SUFFICES ASSUME call[g].pc \in Queries \union {"decide", "answered"},
                        NEW i \in DOMAIN call[g].seen
                 PROVE  SeenKept(call[g].pc, call[g].seen[i], db'[i])
      BY DEF SeenSound
    <3>1. SeenKept(call[g].pc, call[g].seen[i], db[i])
      BY <2>2 DEF SeenSound
    <3>2. i \in RunIDs
      <4>1. call[g].seen \in MapsOver(RunIDs, Tables)
        BY <2>2 DEF CallRecords
      <4> QED
        BY <4>1 DEF MapsOver
    <3>3. db[i].row # NoRun
      BY <3>1 DEF SeenKept, RowKept
    <3> QED
      BY <1>5, <3>1, <3>2, <3>3, SeenSurvives
  <2>4. /\ call[g].pc \notin InTx \union {"begin"}
        /\ ~(call[g].op # "read" /\ call[g].pc \in Queries \union {"decide"})
        /\ ~(call[g].op = "record" /\ call[g].ok)
    BY <2>1, <2>2 DEF CallShape, Writing, InTx, Queries
  <2> QED
    BY <2>2, <2>3, <2>4 DEF CallInv, HolderSees, HolderWrites, AckIsDue
<1>11. /\ call' \in [Goroutines -> CallRecords] /\ call'[c] = k
       /\ \A g \in Goroutines \ {c} : call'[g] = call[g]
  BY <1>1, <1>7, Underway
<1>12. \A g \in Goroutines : CallInv(call'[g], db')
  BY <1>8, <1>10, <1>11
<1>13. /\ IsFiniteSet(conns') /\ conns' \subseteq Goroutines
       /\ Cardinality(conns') <= MaxConns
  <2>1. /\ IsFiniteSet(conns) /\ Cardinality(conns) \in Nat
        /\ Cardinality(conns) <= MaxConns /\ MaxConns \in Nat
        /\ conns \subseteq Goroutines
    BY FS_CardinalityType, DuckAssumption DEF IInv, TypeInv
  <2>2. /\ IsFiniteSet(conns \ {c})
        /\ Cardinality(conns \ {c})
              = IF c \in conns THEN Cardinality(conns) - 1 ELSE Cardinality(conns)
    BY <2>1, FS_RemoveElement
  <2> QED
    BY <1>1, <2>1, <2>2
<1>14. \A g \in Goroutines :
          /\ mu' = g <=> call'[g].op # "read" /\ call'[g].pc \in Writing
          /\ g \in conns' <=> call'[g].pc \in InTx
  <2>1. /\ k.op # "read" /\ k.pc \in Writing /\ k.pc \notin InTx
    BY <1>2, <1>7 DEF Writing, InTx
  <2> QED
    BY <1>1, <1>9, <1>11, <2>1 DEF IInv, TypeInv
<1>15. TypeInv'
  BY <1>1, <1>3, <1>11, <1>13, <1>14 DEF IInv, TypeInv
<1>16. \A a \in acked' : Durable(db', a[1], a[2])
  <2>1. \A a \in acked : a[1] \in RunIDs /\ Durable(db, a[1], a[2])
    BY DEF IInv, TypeInv
  <2> QED
    BY <1>1, <1>6, <2>1
<1> QED
  BY <1>4, <1>12, <1>15, <1>16 DEF IInv

-----------------------------------------------------------------------------
(* The invariant holds of every behaviour.                                 *)

LEMMA InitIInv == Init => IInv
<1> SUFFICES ASSUME Init PROVE IInv
  OBVIOUS
<1>1. IsFiniteSet({}) /\ Cardinality({}) = 0
  BY FS_EmptySet
<1>2. Idle.pc \notin Writing /\ Idle.pc \notin InTx /\ Absent.row = NoRun
  BY DEF Idle, Writing, InTx, Absent
<1>3. TypeInv
  BY <1>1, <1>2, IdleCall, DuckAssumption DEF Init, TypeInv
<1>4. \A id \in RunIDs : TableSound(db[id])
  BY <1>2 DEF Init, TableSound
<1>5. \A c \in Goroutines : CallInv(call[c], db)
  BY IdleCall DEF Init
<1> QED
  BY <1>3, <1>4, <1>5 DEF Init, IInv

LEMMA NextIInv == IInv /\ [Next]_vars => IInv'
<1> SUFFICES ASSUME IInv, [Next]_vars PROVE IInv'
  OBVIOUS
<1>1. ASSUME NEW c \in Goroutines, CallRead(c) \/ CallRecord(c) \/ CallUpdate(c) PROVE IInv'
  BY <1>1, CallSteps
<1>2. ASSUME NEW c \in Goroutines, Lock(c) PROVE IInv'
  BY <1>2, LockStep
<1>3. ASSUME NEW c \in Goroutines, Step(c) PROVE IInv'
  <2>1. CASE QueryRow(c)
    BY <2>1, QueryRowStep
  <2>2. CASE QueryParams(c)
    BY <2>2, QueryParamsStep
  <2>3. CASE QueryMetrics(c)
    BY <2>3, QueryMetricsStep
  <2>4. CASE QueryAttempted(c)
    BY <2>4, QueryAttemptedStep
  <2>5. CASE DecideRecord(c)
    BY <2>5, DecideRecordStep
  <2>6. CASE DecideUpdate(c)
    BY <2>6, DecideUpdateStep
  <2>7. CASE Begin(c)
    BY <2>7, BeginStep
  <2>8. CASE ExecRow(c)
    BY <2>8, ExecRowStep
  <2>9. CASE ExecSide(c)
    BY <2>9, ExecSideStep
  <2>10. CASE Commit(c)
    BY <2>10, CommitStep
  <2>11. CASE Return(c)
    BY <2>11, ReturnStep
  <2> QED
    BY <1>3, <2>1, <2>2, <2>3, <2>4, <2>5, <2>6, <2>7, <2>8, <2>9, <2>10, <2>11 DEF Step
<1>4. ASSUME NEW c \in Goroutines, QueryFails(c) \/ Rollback(c) PROVE IInv'
  BY <1>4, QueryFailsStep, RollbackStep
<1>5. CASE Crash
  BY <1>5, CrashStep
<1>6. CASE UNCHANGED vars
  BY <1>6 DEF vars, IInv, TypeInv
<1> QED
  BY <1>1, <1>2, <1>3, <1>4, <1>5, <1>6 DEF Next

\* Whatever fails or crashes and however calls interleave, the invariant holds.
THEOREM DuckInvariant == Spec => []IInv
  BY InitIInv, NextIInv, PTL DEF Spec

\* The tables, the mutex and the pool are what TypeOK says, at every instant:
\* no error path keeps the mutex or a connection, and the pool never overflows.
THEOREM DuckTypeCorrect == Spec => []TypeOK
<1>1. IInv => TypeOK
  <2> SUFFICES ASSUME IInv PROVE TypeOK
    OBVIOUS
  <2>1. acked \subseteq RunIDs \X Run
    BY SentRun DEF IInv, TypeInv
  <2>2. \A c \in Goroutines : call[c].tx \in Tables
    BY DEF IInv, TypeInv, CallRecords
  <2> QED
    BY <2>1, <2>2 DEF IInv, TypeInv, TypeOK, InTx
<1> QED
  BY <1>1, DuckInvariant, PTL

\* What is stored under an id.
LEMMA StoredIs ==
    ASSUME IInv, NEW id \in RunIDs
    PROVE  /\ db[id].row = NoRun => Stored(id) = NoRun
           /\ db[id].row # NoRun => Stored(id) = Assemble(db[id]) /\ Stored(id) \in Run
           /\ Stored(id) = NoRun <=> db[id].row = NoRun
<1>1. db[id].row # NoRun => Assemble(db[id]) \in Run
  BY DEF IInv, TableSound
<1>2. NoRun \notin Run
  BY NoRunAssumption
<1> QED
  BY <1>1, <1>2 DEF Stored

(***************************************************************************)
(* A Record that returned nil is durable, for ever and after any crash:    *)
(* the run is committed before the answer (HolderWrites, AckIsDue), and no *)
(* later version drops what it was recorded with (TableKept).              *)
(***************************************************************************)
THEOREM RecordsDurable == Spec => []AckedDurable
<1>1. IInv => AckedDurable
  <2> SUFFICES ASSUME IInv, NEW a \in acked
               PROVE  /\ Stored(a[1]) # NoRun
                      /\ LET r == Canonical(a[2])
                             s == Canonical(Stored(a[1]))
                         IN  /\ IdentityOf(s) = IdentityOf(r)
                             /\ s.fingerprint = r.fingerprint
                             /\ s.startedAt = r.startedAt
                             /\ s.capture = r.capture
                             /\ DOMAIN r.metrics \subseteq DOMAIN s.metrics
    BY DEF AckedDurable
  <2> DEFINE q == a[2]
             s == Stored(a[1])
  <2>1. a[1] \in RunIDs /\ q \in Run /\ Durable(db, a[1], q)
    BY SentRun DEF IInv, TypeInv
  <2>2. s = Assemble(db[a[1]]) /\ s \in Run /\ s # NoRun
    BY <2>1, StoredIs DEF Durable
  <2>3. /\ s.experiment = q.experiment /\ s.dirty = q.dirty /\ s.config = q.config
        /\ Entries(s.params) = Entries(q.params)
        /\ s.fingerprint = q.fingerprint
        /\ s.startedAt = q.startedAt
        /\ s.capture = q.capture
        /\ DOMAIN Entries(q.metrics) \subseteq DOMAIN Entries(s.metrics)
    BY <2>1, <2>2 DEF Durable
  <2>4. \A x \in Run :
           /\ IdentityOf(Canonical(x)) = [experiment |-> x.experiment, dirty |-> x.dirty,
                                          config |-> x.config, params |-> Entries(x.params)]
           /\ Canonical(x).fingerprint = x.fingerprint
           /\ Canonical(x).startedAt = x.startedAt
           /\ Canonical(x).capture = x.capture
           /\ Canonical(x).metrics = Entries(x.metrics)
    BY DEF Canonical, IdentityOf, Run
  <2> HIDE DEF q, s
  <2>5. /\ IdentityOf(Canonical(s)) = IdentityOf(Canonical(q))
        /\ Canonical(s).fingerprint = Canonical(q).fingerprint
        /\ Canonical(s).startedAt = Canonical(q).startedAt
        /\ Canonical(s).capture = Canonical(q).capture
        /\ DOMAIN Canonical(q).metrics \subseteq DOMAIN Canonical(s).metrics
    BY <2>1, <2>2, <2>3, <2>4
  <2> QED
    BY <2>2, <2>5 DEF q, s
<1> QED
  BY <1>1, DuckInvariant, PTL

\* What a finished read has of a run, against the version committed now.
LEMMA AnswerIs ==
    ASSUME IInv, NEW c \in Goroutines, Answered(c), NEW id \in DOMAIN Answer(c)
    PROVE  /\ id \in RunIDs
           /\ call[c].seen[id] \in Tables
           /\ Answer(c)[id] = Assemble(call[c].seen[id])
           /\ SeenKept("answered", call[c].seen[id], db[id])
<1>1. /\ call[c].seen \in MapsOver(RunIDs, Tables)
      /\ id \in DOMAIN call[c].seen
      /\ Answer(c)[id] = Assemble(call[c].seen[id])
  BY Underway DEF CallRecords, Answer
<1>2. PICK A \in SUBSET RunIDs : call[c].seen \in [A -> Tables]
  BY <1>1 DEF MapsOver
<1>3. SeenKept("answered", call[c].seen[id], db[id])
  BY <1>1, Underway DEF Answered, SeenSound
<1> QED
  BY <1>1, <1>2, <1>3

(***************************************************************************)
(* A read takes its four queries on four snapshots, and yet returns only   *)
(* valid runs under the fingerprint of the parameters returned with it:    *)
(* what a later version changes of a row is no part of either.             *)
(***************************************************************************)
THEOREM ReadsSound == Spec => []ReadSound
<1>1. IInv => ReadSound
  <2> SUFFICES ASSUME IInv, NEW c \in Goroutines, Answered(c), NEW id \in DOMAIN Answer(c)
               PROVE  /\ Validate(Answer(c)[id])
                      /\ Answer(c)[id].fingerprint = Compute(Answer(c)[id])
                      /\ Answer(c)[id].capture = Stored(id).capture
    BY DEF ReadSound
  <2> DEFINE s == call[c].seen[id]
             t == db[id]
             r == Assemble(s)
             e == Assemble(t)
  <2>1. id \in RunIDs /\ s \in Tables /\ Answer(c)[id] = r /\ SeenKept("answered", s, t)
    BY AnswerIs
  <2>2. t \in Tables /\ TableSound(t)
    BY <2>1, Underway
  <2> HIDE DEF s, t
  <2>3. /\ s.row # NoRun /\ t.row # NoRun
        /\ s.row.status \in Statuses
        /\ s.row.endedAt # None => s.row.startedAt <= s.row.endedAt
        /\ s.row.experiment = t.row.experiment /\ s.row.dirty = t.row.dirty
        /\ s.row.config = t.row.config /\ s.row.fingerprint = t.row.fingerprint
        /\ s.row.declared = t.row.declared /\ s.row.client = t.row.client
        /\ s.params = t.params /\ s.attempted = t.attempted
    BY <2>1 DEF SeenKept, RowKept
  <2>4. /\ Validate(e) /\ t.row.fingerprint = Compute(e)
    BY <2>2, <2>3 DEF TableSound
  <2>5. /\ r.experiment = s.row.experiment /\ r.dirty = s.row.dirty /\ r.config = s.row.config
        /\ r.fingerprint = s.row.fingerprint /\ r.status = s.row.status
        /\ r.startedAt = s.row.startedAt /\ r.endedAt = s.row.endedAt
        /\ Entries(r.params) = s.params
        /\ r.capture = IF s.row.declared
                       THEN [client |-> s.row.client, names |-> s.attempted, sorted |-> TRUE]
                       ELSE None
    BY <2>1, <2>3, AssembledFields
  <2>6. /\ e.experiment = t.row.experiment /\ e.dirty = t.row.dirty /\ e.config = t.row.config
        /\ Entries(e.params) = t.params
        /\ e.capture = IF t.row.declared
                       THEN [client |-> t.row.client, names |-> t.attempted, sorted |-> TRUE]
                       ELSE None
    BY <2>2, <2>3, AssembledFields
  <2>7. e = Stored(id)
    BY <2>1, <2>3, StoredIs DEF t
  <2> HIDE DEF r, e
  <2>8. r.capture = e.capture
    BY <2>3, <2>5, <2>6
  <2>9. Compute(r) = Compute(e)
    BY <2>3, <2>5, <2>6 DEF Compute
  <2>10. Validate(r)
    <3>1. r.experiment = e.experiment /\ r.dirty = e.dirty /\ r.config = e.config
      BY <2>3, <2>5, <2>6
    <3>2. r.status \in Statuses /\ (r.endedAt # None => r.startedAt <= r.endedAt)
      BY <2>3, <2>5
    <3>3. r.experiment # Blank /\ ~(r.dirty /\ r.config = Empty)
      BY <2>4, <3>1, Zenon DEF Validate
    <3>4. r.capture # None => r.capture.names \subseteq CaptureFields
      BY <2>4, <2>8, Zenon DEF Validate
    <3> QED
      BY <3>2, <3>3, <3>4, Zenon DEF Validate
  <2> QED
    BY <2>1, <2>3, <2>4, <2>5, <2>7, <2>8, <2>9, <2>10 DEF r
<1> QED
  BY <1>1, DuckInvariant, PTL

(***************************************************************************)
(* A run read as finished is read whole and for good: its row is queried   *)
(* first, and from then on nothing of it changes.                          *)
(***************************************************************************)
THEOREM FinishedReadsExact == Spec => []FinishedReadExact
<1>1. IInv => FinishedReadExact
  <2> SUFFICES ASSUME IInv, NEW c \in Goroutines, Answered(c), NEW id \in DOMAIN Answer(c),
                      Terminal(Answer(c)[id].status)
               PROVE  Answer(c)[id] = Stored(id)
    BY DEF FinishedReadExact
  <2> DEFINE s == call[c].seen[id]
             t == db[id]
  <2>1. /\ id \in RunIDs /\ s \in Tables /\ Answer(c)[id] = Assemble(s)
        /\ SeenKept("answered", s, t) /\ t \in Tables
    BY AnswerIs, Underway
  <2> HIDE DEF s, t
  <2>2. Terminal(s.row.status)
    BY <2>1 DEF Assemble
  <2>3. /\ t.row # NoRun /\ t.row = s.row /\ t.params = s.params
        /\ t.metrics = s.metrics /\ t.attempted = s.attempted
    BY <2>1, <2>2 DEF SeenKept, RowKept
  <2>4. t = s
    BY <2>1, <2>3 DEF Tables
  <2> QED
    BY <2>1, <2>3, <2>4, StoredIs DEF t
<1> QED
  BY <1>1, DuckInvariant, PTL

-----------------------------------------------------------------------------
(* The tables implement Ledger.                                            *)

\* Ledger's copy of the rules is the store's: they are the same definitions
\* over the same constants.
LEMMA SameRules ==
    ASSUME NEW e, NEW p, NEW now
    PROVE  /\ Abstract!ApplyPatch(e, p, now) = ApplyPatch(e, p, now)
           /\ Abstract!Canonical(e) = Canonical(e)
           /\ Abstract!Validate(e) = Validate(e)
<1>1. /\ \A s : Abstract!Terminal(s) = Terminal(s)
      /\ Abstract!Statuses = Statuses
      /\ Abstract!CaptureFields = CaptureFields
      /\ \A s, t : Abstract!LegalTransition(s, t) = LegalTransition(s, t)
  BY DEF Abstract!Terminal, Terminal, Abstract!Statuses, Statuses,
         Abstract!CaptureFields, CaptureFields, Abstract!LegalTransition, LegalTransition,
         Abstract!Created, Created, Abstract!Running, Running, Abstract!Succeeded, Succeeded,
         Abstract!Failed, Failed, Abstract!Cancelled, Cancelled
<1>2. /\ \A m : Abstract!Entries(m) = Entries(m)
      /\ \A m, n : Abstract!Overlay(m, n) = Overlay(m, n)
      /\ \A m, n : Abstract!ParamsEqual(m, n) = ParamsEqual(m, n)
  <2>1. \A m : Abstract!Entries(m) = Entries(m)
    BY DEF Abstract!Entries, Entries
  <2>2. \A m, n : Abstract!Overlay(m, n) = Overlay(m, n)
    BY DEF Abstract!Overlay, Overlay
  <2>3. \A m, n : Abstract!ParamsEqual(m, n) = ParamsEqual(m, n)
    <3>1. \A m, k : Abstract!Lookup(m, k) = Lookup(m, k)
      BY DEF Abstract!Lookup, Lookup
    <3>2. \A S : Abstract!Cardinality(S) = Cardinality(S)
      BY Zenon DEF Abstract!Cardinality, Cardinality
    <3> QED
      BY <3>1, <3>2 DEF Abstract!ParamsEqual, ParamsEqual
  <2> QED
    BY <2>1, <2>2, <2>3
<1>3. \A r : Abstract!Validate(r) = Validate(r) /\ Abstract!Canonical(r) = Canonical(r)
  BY <1>1, <1>2 DEF Abstract!Validate, Validate, Abstract!Canonical, Canonical
<1>4. Abstract!IdentityUnchanged(e, p) = IdentityUnchanged(e, p)
  BY <1>2 DEF Abstract!IdentityUnchanged, IdentityUnchanged
<1>5. Abstract!IsNoopPatch(e, p) = IsNoopPatch(e, p)
  BY <1>2 DEF Abstract!IsNoopPatch, IsNoopPatch
<1>6. Abstract!Merged(e, p, now) = Merged(e, p, now)
  BY <1>1, <1>2 DEF Abstract!Merged, Merged
<1>7. /\ \A r : Abstract!Ok(r) = Ok(r)
      /\ \A err : Abstract!Refused(err) = Refused(err)
  BY DEF Abstract!Ok, Ok, Abstract!Refused, Refused
<1>8. Abstract!ApplyPatch(e, p, now) = ApplyPatch(e, p, now)
  BY <1>1, <1>3, <1>4, <1>5, <1>6, <1>7 DEF Abstract!ApplyPatch, ApplyPatch
<1> QED
  BY <1>3, <1>8

\* What callers see of an id, and that a run seen is never NoRun.
LEMMA LedgeredIs ==
    ASSUME IInv, NEW id \in RunIDs
    PROVE  /\ Ledgered[id] = IF db[id].row = NoRun THEN NoRun ELSE Canonical(Assemble(db[id]))
           /\ Ledgered[id] = NoRun <=> db[id].row = NoRun
<1>1. \A r \in Run : Canonical(r) \in Run
  <2> TAKE r \in Run
  <2>1. r.params \in ParamMaps \union {None} /\ r.metrics \in MetricMaps \union {None}
    BY DEF Run
  <2>2. Entries(r.params) \in ParamMaps /\ Entries(r.metrics) \in MetricMaps
    BY <2>1, EntriesIsMap DEF ParamMaps, MetricMaps
  <2> QED
    BY <2>2 DEF Canonical, Run
<1>2. NoRun \notin Run
  BY NoRunAssumption
<1>3. Ledgered[id] = IF Stored(id) = NoRun THEN NoRun ELSE Canonical(Stored(id))
  BY DEF Ledgered
<1> QED
  BY <1>1, <1>2, <1>3, StoredIs

\* A commit is Ledger's Record or Ledger's Update.
LEMMA CommitIsLedgers ==
    ASSUME IInv, IInv', NEW c \in Goroutines, Commit(c)
    PROVE  Abstract!Next
<1>1. PICK id \in RunIDs :
         /\ db' = [db EXCEPT ![id] = call[c].tx]
         /\ call[c].tx \in Tables /\ call[c].tx.row # NoRun
         /\ \/ /\ call[c].op = "record"
               /\ db[id].row = NoRun
               /\ call[c].input \in Sent
               /\ Canonical(Assemble(call[c].tx)) = Canonical(call[c].input)
            \/ /\ call[c].op = "update"
               /\ db[id].row # NoRun
               /\ call[c].input \in Patches
               /\ \E now \in Times :
                     /\ ApplyPatch(Assemble(db[id]), call[c].input, now) = Ok(call[c].write)
                     /\ Canonical(Assemble(call[c].tx)) = Canonical(call[c].write)
  BY Committed
<1> DEFINE tx == call[c].tx
<1>2. db \in [RunIDs -> Tables] /\ db'[id] = tx /\ \A i \in RunIDs \ {id} : db'[i] = db[i]
  BY <1>1, Underway
<1>3. /\ Ledgered \in [RunIDs -> {Ledgered[i] : i \in RunIDs}]
      /\ DOMAIN Ledgered = RunIDs /\ DOMAIN Ledgered' = RunIDs
  BY DEF Ledgered
<1>4. Ledgered' = [Ledgered EXCEPT ![id] = Canonical(Assemble(tx))]
  <2>1. \A i \in RunIDs :
           Ledgered'[i] = IF Stored(i)' = NoRun THEN NoRun ELSE Canonical(Stored(i)')
    BY DEF Ledgered
  <2>2. \A i \in RunIDs :
           Ledgered[i] = IF Stored(i) = NoRun THEN NoRun ELSE Canonical(Stored(i))
    BY DEF Ledgered
  <2>3. \A i \in RunIDs \ {id} : Stored(i)' = Stored(i)
    BY <1>2 DEF Stored
  <2>4. Stored(id)' = Assemble(tx)
    BY <1>1, <1>2 DEF Stored
  <2>5. Assemble(tx) # NoRun
    <3>1. TableSound(db'[id])
      BY DEF IInv
    <3> QED
      BY <1>1, <1>2, <3>1, NoRunAssumption DEF TableSound
  <2>6. Ledgered' = [i \in RunIDs |-> Ledgered'[i]]
    BY DEF Ledgered
  <2> QED
    BY <1>3, <2>1, <2>2, <2>3, <2>4, <2>5, <2>6
<1> HIDE DEF tx
<1>5. CASE call[c].op = "record"
  <2>1. /\ db[id].row = NoRun /\ call[c].input \in Sent
        /\ Canonical(Assemble(tx)) = Canonical(call[c].input)
    BY <1>1, <1>5 DEF tx
  <2>2. Ledgered[id] = NoRun
    BY <2>1, LedgeredIs
  <2>3. Abstract!Validate(call[c].input) /\ Abstract!Canonical(call[c].input) = Canonical(call[c].input)
    BY <2>1, SentRun, SameRules
  <2>4. Abstract!Record(id)
    BY <1>4, <2>1, <2>2, <2>3 DEF Abstract!Record
  <2> QED
    BY <2>4 DEF Abstract!Next
<1>6. CASE call[c].op = "update"
  <2> DEFINE e == Assemble(db[id])
             p == call[c].input
             w == call[c].write
  <2>1. PICK now \in Times :
           /\ ApplyPatch(e, p, now) = Ok(w)
           /\ Canonical(Assemble(tx)) = Canonical(w)
    BY <1>1, <1>6 DEF tx
  <2>2. db[id].row # NoRun /\ p \in Patches
    BY <1>1, <1>6
  <2>3. e \in Run
    BY <2>2, StoredIs
  <2>4. p \in Patch /\ now \in Nat \ {0}
    BY <2>2, PatchesAssumption, DuckAssumption
  <2>5. ApplyPatch(e, p, now).err = "nil" /\ ApplyPatch(e, p, now).run = w
    BY <2>1 DEF Ok
  <2> HIDE DEF e, p, w
  <2> DEFINE seen == ApplyPatch(Canonical(e), p, now)
  <2>6. seen.err = "nil" /\ Canonical(seen.run) = Canonical(w)
    BY <2>3, <2>4, <2>5, PatchCanonical
  <2>7. Ledgered[id] = Canonical(e) /\ Ledgered[id] # NoRun
    BY <2>2, LedgeredIs DEF e
  <2>8. /\ Abstract!ApplyPatch(Ledgered[id], p, now) = seen
        /\ Abstract!Canonical(seen.run) = Canonical(seen.run)
    BY <2>7, SameRules
  <2> HIDE DEF seen
  <2>9. Abstract!Update(id, p)
    BY <1>4, <2>1, <2>6, <2>7, <2>8 DEF Abstract!Update
  <2> QED
    BY <2>2, <2>9 DEF Abstract!Next
<1> QED
  BY <1>1, <1>5, <1>6

(***************************************************************************)
(* Every behaviour of the DuckDB store is one of Ledger: writes take       *)
(* effect whole, one at a time and on the run as it is at that instant,    *)
(* whatever fails, crashes or is tried again.                              *)
(***************************************************************************)
THEOREM DuckImplementsLedger == Spec => ImplementsLedger
<1>1. Init => Abstract!Init
  <2> SUFFICES ASSUME Init PROVE Ledgered = [id \in RunIDs |-> NoRun]
    BY DEF Abstract!Init
  <2>1. \A id \in RunIDs : Stored(id) = NoRun
    BY DEF Init, Stored, Absent
  <2> QED
    BY <2>1 DEF Ledgered
<1>2. IInv /\ IInv' /\ [Next]_vars => [Abstract!Next]_Ledgered
  <2> SUFFICES ASSUME IInv, IInv', [Next]_vars
               PROVE  [Abstract!Next]_Ledgered
    OBVIOUS
  <2>1. CASE \E c \in Goroutines : Commit(c)
    BY <2>1, CommitIsLedgers
  <2>2. CASE UNCHANGED db
    BY <2>2 DEF Ledgered, Stored
  <2> QED
    BY <2>1, <2>2
    DEF Next, Step, vars, CallRead, CallRecord, CallUpdate, NewCall, Lock, QueryRow,
        QueryParams, QueryMetrics, QueryAttempted, QuerySide, DecideRecord, DecideUpdate,
        Begin, ExecRow, ExecSide, Return, QueryFails, Rollback, Crash
<1> QED
  BY <1>1, <1>2, DuckInvariant, PTL
     DEF Spec, ImplementsLedger, Abstract!Spec

-----------------------------------------------------------------------------
(***************************************************************************)
(* The migrations the store runs before it answers (Migrate), for every    *)
(* chain of them and any number of interruptions.  The file as migrate     *)
(* sees it, and the process that opens it, are variables of their own.     *)
(*                                                                         *)
(* The argument: a statement and its version row commit together, so the   *)
(* version table says what has taken effect; and the process that runs the *)
(* chain has all that was applied when it opened the file, and all before  *)
(* the migration it is at.                                                 *)
(***************************************************************************)
\* The rows of runs go with the schema: no version before the column is there,
\* the version of its own contract after.
RowsRead ==
    \A r \in rows :
        /\ VersionColumn \in schema => r.version = r.contract
        /\ VersionColumn \notin schema => r.contract = Legacy

\* The process knows of every migration whether it has taken effect.
ChainKnown ==
    /\ versions = schema
    /\ proc.pc \in {"loop", "commit"} =>
          schema = proc.applied \union {v \in 0..Last : v < proc.next}
    /\ proc.pc = "commit" => proc.next \in 0..Last \ proc.applied
    /\ proc.pc = "open" => schema = 0..Last

ChainInv == SchemaTypeOK /\ ChainKnown /\ RowsRead

LEMMA ChainInit ==
    ASSUME MigrateAssumption PROVE SchemaInit => ChainInv
<1> SUFFICES ASSUME SchemaInit PROVE ChainInv
  OBVIOUS
<1>1. PICK n \in 0..Last + 1 : schema = 0..n - 1 /\ versions = schema
  BY DEF SchemaInit
<1>2. schema \subseteq 0..Last
  BY <1>1 DEF MigrateAssumption
<1>3. proc = Down /\ faults = 0
  BY DEF SchemaInit
<1>4. proc \in [pc : {"down", "loop", "commit", "open"},
                applied : SUBSET (0..Last), next : 0..Last + 1]
      /\ proc.pc = "down"
  BY <1>3 DEF MigrateAssumption, Down
<1>5. CASE VersionColumn \in schema
  <2>1. rows \subseteq {[contract |-> v, version |-> v] : v \in {Legacy, Current}}
    BY <1>5 DEF SchemaInit
  <2>2. \A r \in rows : r \in [contract : {Legacy, Current},
                               version : {NoColumn, Legacy, Current}]
                        /\ r.version = r.contract
    BY <2>1
  <2> QED
    BY <1>1, <1>2, <1>3, <1>4, <1>5, <2>2
    DEF MigrateAssumption, ChainInv, SchemaTypeOK, ChainKnown, RowsRead
<1>6. CASE VersionColumn \notin schema
  <2>1. rows \subseteq {[contract |-> Legacy, version |-> NoColumn]}
    BY <1>6 DEF SchemaInit
  <2>2. \A r \in rows : r \in [contract : {Legacy, Current},
                               version : {NoColumn, Legacy, Current}]
                        /\ r.contract = Legacy
    BY <2>1
  <2> QED
    BY <1>1, <1>2, <1>3, <1>4, <1>6, <2>2
    DEF MigrateAssumption, ChainInv, SchemaTypeOK, ChainKnown, RowsRead
<1> QED
  BY <1>5, <1>6

\* The migration about to be tried has not taken effect, so it can be run.
LEMMA NextIsRunnable ==
    ASSUME MigrateAssumption, ChainInv,
           proc.pc = "loop", proc.next \in 0..Last \ proc.applied
    PROVE  proc.next \notin schema /\ Runnable(proc.next)
  BY DEF MigrateAssumption, ChainInv, ChainKnown, Runnable, SchemaTypeOK

\* ALTER TABLE runs ADD COLUMN fingerprint_version: the rows that are there
\* are all of the old contract.
LEMMA MigrateCommits ==
    ASSUME MigrateAssumption, ChainInv, CommitMigration
    PROVE  ChainInv'
<1>1. /\ proc.pc = "commit" /\ proc.next \in 0..Last \ proc.applied
      /\ schema' = schema \union {proc.next} /\ versions' = schema'
      /\ rows' = Backfilled(proc.next)
      /\ proc' = [proc EXCEPT !.pc = "loop", !.next = @ + 1]
      /\ faults' = faults
  BY DEF CommitMigration, ChainInv, ChainKnown
<1>2. proc.next \notin schema
  BY <1>1 DEF MigrateAssumption, ChainInv, ChainKnown, SchemaTypeOK
<1>3. /\ proc' \in [pc : {"down", "loop", "commit", "open"},
                    applied : SUBSET (0..Last), next : 0..Last + 1]
      /\ proc'.pc = "loop" /\ proc'.applied = proc.applied /\ proc'.next = proc.next + 1
  <2>1. proc.next + 1 \in 0..Last + 1
    BY <1>1 DEF MigrateAssumption
  <2> QED
    BY <1>1, <2>1 DEF ChainInv, SchemaTypeOK
<1>4. schema' = proc'.applied \union {v \in 0..Last : v < proc'.next}
  BY <1>1, <1>3 DEF MigrateAssumption, ChainInv, ChainKnown, SchemaTypeOK
<1>5. CASE proc.next = VersionColumn
  <2>1. rows' = {[r EXCEPT !.version = Legacy] : r \in rows}
    BY <1>1, <1>5 DEF Backfilled
  <2>2. \A r \in rows :
           /\ r \in [contract : {Legacy, Current},
                     version : {NoColumn, Legacy, Current}]
           /\ r.contract = Legacy
    BY <1>2, <1>5 DEF ChainInv, SchemaTypeOK, RowsRead
  <2>3. /\ rows' \subseteq [contract : {Legacy, Current},
                            version : {NoColumn, Legacy, Current}]
        /\ \A r \in rows' : r.version = r.contract
    BY <2>1, <2>2
  <2> QED
    BY <1>1, <1>3, <1>4, <1>5, <2>3
    DEF MigrateAssumption, ChainInv, SchemaTypeOK, ChainKnown, RowsRead
<1>6. CASE proc.next # VersionColumn
  <2>1. rows' = rows /\ (VersionColumn \in schema' <=> VersionColumn \in schema)
    BY <1>1, <1>6 DEF Backfilled
  <2> QED
    BY <1>1, <1>3, <1>4, <2>1
    DEF MigrateAssumption, ChainInv, SchemaTypeOK, ChainKnown, RowsRead
<1> QED
  BY <1>5, <1>6

LEMMA ChainNext ==
    ASSUME MigrateAssumption PROVE ChainInv /\ [SchemaNext]_schemaVars => ChainInv'
<1> SUFFICES ASSUME ChainInv, [SchemaNext]_schemaVars PROVE ChainInv'
  OBVIOUS
<1>1. CASE Open
  <2>1. {v \in 0..Last : v < 0} = {}
    BY DEF MigrateAssumption
  <2> QED
    BY <1>1, <2>1
    DEF MigrateAssumption, Open, ChainInv, SchemaTypeOK, ChainKnown, RowsRead
<1>2. CASE Skip
  <2>1. /\ proc' = [proc EXCEPT !.next = @ + 1] /\ proc.next \in 0..Last
        /\ proc.next \in proc.applied /\ UNCHANGED <<schema, versions, rows, faults>>
    BY <1>2 DEF Skip
  <2>2. /\ proc' \in [pc : {"down", "loop", "commit", "open"},
                      applied : SUBSET (0..Last), next : 0..Last + 1]
        /\ proc'.pc = "loop" /\ proc'.applied = proc.applied /\ proc'.next = proc.next + 1
    BY <1>2, <2>1 DEF MigrateAssumption, Skip, ChainInv, SchemaTypeOK
  <2>3. schema' = proc'.applied \union {v \in 0..Last : v < proc'.next}
    BY <1>2, <2>1, <2>2
    DEF MigrateAssumption, Skip, ChainInv, ChainKnown, SchemaTypeOK
  <2> QED
    BY <2>1, <2>2, <2>3 DEF ChainInv, SchemaTypeOK, ChainKnown, RowsRead
<1>3. CASE Exec
  <2>1. /\ proc' = [proc EXCEPT !.pc = "commit"] /\ proc.pc = "loop"
        /\ proc.next \in 0..Last \ proc.applied
        /\ UNCHANGED <<schema, versions, rows, faults>>
    BY <1>3, NextIsRunnable DEF Exec
  <2> QED
    BY <2>1 DEF ChainInv, SchemaTypeOK, ChainKnown, RowsRead
<1>4. CASE CommitMigration
  BY <1>4, MigrateCommits
<1>5. CASE Opened
  <2>1. /\ proc.pc = "loop" /\ proc.next = Last + 1
        /\ proc' = [proc EXCEPT !.pc = "open"]
        /\ UNCHANGED <<schema, versions, rows, faults>>
    BY <1>5 DEF Opened
  <2>2. schema = 0..Last
    <3>1. schema = proc.applied \union {v \in 0..Last : v < Last + 1}
      BY <2>1 DEF ChainInv, ChainKnown
    <3>2. {v \in 0..Last : v < Last + 1} = 0..Last
      BY DEF MigrateAssumption
    <3>3. proc.applied \subseteq 0..Last
      BY DEF ChainInv, SchemaTypeOK
    <3> QED
      BY <3>1, <3>2, <3>3
  <2> QED
    BY <2>1, <2>2 DEF ChainInv, SchemaTypeOK, ChainKnown, RowsRead
<1>6. CASE Record
  <2>1. VersionColumn \in 0..Last /\ schema = 0..Last
    <3>1. VersionColumn \in 1..Last /\ Last \in Nat
      BY DEF MigrateAssumption
    <3>2. \A v \in 1..Last : v \in 0..Last
      BY <3>1
    <3>3. proc.pc = "open"
      BY <1>6 DEF Record
    <3>4. schema = 0..Last
      BY <3>3 DEF ChainInv, ChainKnown
    <3> QED
      BY <3>1, <3>2, <3>4
  <2>2. VersionColumn \in schema
    BY <2>1
  <2> QED
    BY <1>6, <2>2 DEF Record, ChainInv, SchemaTypeOK, ChainKnown, RowsRead
<1>7. CASE OpenFails
  <2>1. faults' \in 0..MaxFaults
    BY <1>7 DEF MigrateAssumption, OpenFails, ChainInv, SchemaTypeOK
  <2> QED
    BY <1>7, <2>1
    DEF MigrateAssumption, OpenFails, Down, ChainInv, SchemaTypeOK, ChainKnown, RowsRead
<1>8. CASE UNCHANGED schemaVars
  BY <1>8 DEF schemaVars, ChainInv, SchemaTypeOK, ChainKnown, RowsRead
<1> QED
  BY <1>1, <1>2, <1>3, <1>4, <1>5, <1>6, <1>7, <1>8 DEF SchemaNext, Migrating

\* However the migration is interrupted, the invariant holds.
THEOREM MigrateInvariant ==
    ASSUME MigrateAssumption PROVE SchemaSpec => []ChainInv
  BY ChainInit, ChainNext, PTL DEF SchemaSpec

\* The file and the process that opens it have their types.
THEOREM MigrateTypeCorrect ==
    ASSUME MigrateAssumption PROVE SchemaSpec => []SchemaTypeOK
  BY MigrateInvariant, PTL DEF ChainInv

\* A store that opened has the whole chain, and reads every run back under the
\* contract it was fingerprinted with.
THEOREM OpensUpToDate ==
    ASSUME MigrateAssumption PROVE SchemaSpec => []OpenedUpToDate
<1>1. ChainInv => OpenedUpToDate
  BY DEF MigrateAssumption, ChainInv, ChainKnown, RowsRead, OpenedUpToDate
<1> QED
  BY <1>1, MigrateInvariant, PTL

\* What migrate is about to try has not taken effect before: no interruption
\* leaves a file whose next statement fails whenever it is opened.
NeverBlocked ==
    proc.pc = "loop" /\ proc.next \in 0..Last \ proc.applied => Runnable(proc.next)

\* The safety half of Reopens: the chain can always be continued.
THEOREM ChainContinues ==
    ASSUME MigrateAssumption PROVE SchemaSpec => []NeverBlocked
<1>1. ChainInv => NeverBlocked
  BY NextIsRunnable DEF NeverBlocked
<1> QED
  BY <1>1, MigrateInvariant, PTL

=============================================================================
