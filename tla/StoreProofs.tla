---------------------------- MODULE StoreProofs ----------------------------
(***************************************************************************)
(* Proofs about Store, for every set of runs, clients, bodies and patches. *)
(***************************************************************************)
EXTENDS Store, RulesProofs

\* Whatever a client sends, a stamped run is a Run.
LEMMA StampType ==
    ASSUME NEW body \in Body, NEW now \in Nat \ {0}
    PROVE  /\ Stamp(body, now) \in Run
           /\ Stamp(body, now).fingerprint = Compute(Stamp(body, now))
<1>1. Compute(body) = Compute(IdentityOf(body))
  BY DEF Compute, IdentityOf
<1>2. IdentityOf(body) \in Identity
  BY DEF IdentityOf, Identity, Body
<1>3. Compute(body) \in Fingerprints
  BY <1>1, <1>2 DEF Fingerprints
<1>4. (IF body.status = "" THEN Created ELSE body.status) \in Statuses \union {UnknownStatus}
  BY DEF Body, Statuses, Created
<1>5. (IF body.startedAt = 0 THEN now ELSE body.startedAt) \in Nat \ {0}
  BY DEF Body
<1>6. Stamp(body, now) \in Run
  BY <1>3, <1>4, <1>5 DEF Stamp, Run, Body
<1>7. Stamp(body, now).fingerprint = Compute(Stamp(body, now))
  BY DEF Stamp, Compute
<1> QED
  BY <1>6, <1>7

-----------------------------------------------------------------------------
(* What a stored run keeps, and when a patch may be repeated.              *)

\* A patch answered 200 keeps a run's type, identity and history, and moves
\* its status forward if it moves it at all.
LEMMA PatchedRun ==
    ASSUME NEW e \in Run, NEW p \in Patch, NEW now \in Nat \ {0},
           ApplyPatch(e, p, now).err = "nil",
           Validate(e), e.status \in Statuses
    PROVE  LET r == ApplyPatch(e, p, now).run
           IN  /\ r \in Run
               /\ Validate(r)
               /\ r.status \in Statuses
               /\ Compute(r) = Compute(e)
               /\ r.fingerprint = e.fingerprint
               /\ ForwardOnly(e, r)
               /\ Extends(e, r)
<1> DEFINE r == ApplyPatch(e, p, now).run
<1>1. /\ r \in Run /\ Validate(r) /\ r.status \in Statuses /\ Compute(r) = Compute(e)
      /\ IdentityOf(r) = IdentityOf(e) /\ r.fingerprint = e.fingerprint
      /\ r.startedAt = e.startedAt /\ r.capture = e.capture
      /\ DOMAIN Entries(e.metrics) \subseteq DOMAIN Entries(r.metrics)
      /\ Terminal(e.status) => r = e
      /\ r.status # e.status =>
            /\ LegalTransition(e.status, r.status)
            /\ Terminal(r.status) => r.endedAt # None
  BY PatchKeeps
<1> HIDE DEF r
<1>2. r.status # e.status => Rank(r.status) = Rank(e.status) + 1
  BY <1>1 DEF LegalTransition, Rank, Terminal, Created, Running, Succeeded, Failed, Cancelled
<1>3. r # NoRun
  BY <1>1, NoRunAssumption
<1> QED
  BY <1>1, <1>2, <1>3 DEF ForwardOnly, Extends, r

(***************************************************************************)
(* A finished run that already holds all a patch asks for: whenever the    *)
(* patch arrives again, applyPatch answers with the run as it is.          *)
(***************************************************************************)
Settled(r, p) ==
    /\ Terminal(r.status)
    /\ IdentityUnchanged(r, p)
    /\ p.status \in Statuses \union {None}
    /\ IsNoopPatch(r, p)

\* A patch that is settled in a run is answered with the run, unchanged.
LEMMA SettledIsNoop ==
    ASSUME NEW r, NEW p, NEW now, Settled(r, p)
    PROVE  ApplyPatch(r, p, now) = Ok(r)
  BY DEF Settled, ApplyPatch

(***************************************************************************)
(* A patch that leaves the run finished leaves it settled for that patch:  *)
(* the merge stores exactly what isNoopPatch compares.                     *)
(***************************************************************************)
LEMMA FinishSettles ==
    ASSUME NEW e \in Run, NEW p \in Patch, NEW now \in Nat \ {0},
           ApplyPatch(e, p, now).err = "nil",
           Terminal(ApplyPatch(e, p, now).run.status)
    PROVE  Settled(ApplyPatch(e, p, now).run, p)
<1> DEFINE r == ApplyPatch(e, p, now).run
<1>1. CASE Terminal(e.status)
  BY <1>1, PatchOutcome DEF Settled
<1>2. CASE ~Terminal(e.status)
  <2>1. /\ r = Merged(e, p, now)
        /\ p.status \in Statuses \union {None}
        /\ IdentityUnchanged(e, p)
    BY <1>2, PatchOutcome
  <2>2. /\ IdentityOf(r) = IdentityOf(e)
        /\ r.status = IF p.status # None THEN p.status ELSE e.status
        /\ p.endedAt # None => r.endedAt = p.endedAt
        /\ \A f \in DOMAIN p.prov : r.prov[f] = p.prov[f]
        /\ \A k \in DOMAIN Entries(p.metrics) :
              /\ k \in DOMAIN Entries(r.metrics)
              /\ Entries(r.metrics)[k] = Entries(p.metrics)[k]
    BY <2>1, MergedFields
  <2>3. Terminal(r.status)
    OBVIOUS
  <2> HIDE DEF r
  <2>4. IsNoopPatch(r, p)
    BY <2>2 DEF IsNoopPatch
  <2>5. IdentityUnchanged(r, p)
    BY <2>1, <2>2 DEF IdentityUnchanged, IdentityOf
  <2> QED
    BY <2>1, <2>3, <2>4, <2>5 DEF Settled, r
<1> QED
  BY <1>1, <1>2

\* A POST answered 201 stored a valid, normalised run where there was none,
\* or found exactly that run.
LEMMA RecordedRun ==
    ASSUME NEW stored \in Run \union {NoRun}, NEW r \in Run,
           r.fingerprint = Compute(r),
           Record(stored, r).err = "nil"
    PROVE  LET new == Record(stored, r).run
           IN  /\ new \in Run
               /\ Validate(new)
               /\ new.status \in Statuses
               /\ new.fingerprint = Compute(new)
               /\ stored \in {NoRun, new}
<1> DEFINE new == [r EXCEPT !.capture = NormalizeCapture(@)]
<1>1. Record(stored, r).run = new /\ Validate(r) /\ stored \in {NoRun, new}
  BY DEF Record, Ok, Refused
<1>2. /\ new \in Run /\ Validate(new) /\ new.status \in Statuses
      /\ new.fingerprint = Compute(new)
  BY <1>1, NormalizedRun
<1> QED
  BY <1>1, <1>2

-----------------------------------------------------------------------------
(* The inductive invariant.                                                *)

\* A run on its way to the store carries the server's own fingerprint.
HandlingStamped ==
    \A h \in Handlers : handling[h] # NoRun =>
        handling[h].run.fingerprint = Compute(handling[h].run)

\* FinishRetriable speaks of the clock as it is; this does not depend on it.
FinishesSettled ==
    \A f \in finishes : runs[f[1]] # NoRun /\ Settled(runs[f[1]], f[2])

IInv ==
    /\ TypeOK
    /\ LineageSound
    /\ AckedKept
    /\ HandlingStamped
    /\ FinishesSettled

\* Everything a stored run must keep when a step changes the runs map.
Kept(r, s) == ForwardOnly(r, s) /\ Extends(r, s)

\* A run that does not change is kept.
LEMMA KeptReflexive ==
    ASSUME NEW r \in Run PROVE Kept(r, r)
  BY NoRunAssumption DEF Kept, ForwardOnly, Extends

\* What one step keeps of a run, and the next, both keep.
LEMMA ExtendsTransitive ==
    ASSUME NEW r, NEW s, NEW t, Extends(r, s), Extends(s, t)
    PROVE  Extends(r, t)
  BY DEF Extends

(***************************************************************************)
(* The facts about a stored run survive any step that leaves other runs    *)
(* alone and keeps this one.                                               *)
(***************************************************************************)
LEMMA HistoriesSurvive ==
    ASSUME IInv,
           runs' \in [RunIDs -> Run \union {NoRun}],
           \A id \in RunIDs : runs[id] # NoRun => Kept(runs[id], runs'[id])
    PROVE  /\ \A a \in acked : Extends(a[2], runs'[a[1]])
           /\ \A f \in finishes : runs'[f[1]] # NoRun /\ Settled(runs'[f[1]], f[2])
<1>1. ASSUME NEW a \in acked PROVE Extends(a[2], runs'[a[1]])
  <2>1. a[1] \in RunIDs /\ Extends(a[2], runs[a[1]])
    BY DEF IInv, TypeOK, AckedKept
  <2>2. runs[a[1]] # NoRun
    BY <2>1 DEF Extends
  <2>3. Extends(runs[a[1]], runs'[a[1]])
    BY <2>1, <2>2 DEF Kept
  <2> QED
    BY <2>1, <2>3, ExtendsTransitive
<1>2. ASSUME NEW f \in finishes
      PROVE  runs'[f[1]] # NoRun /\ Settled(runs'[f[1]], f[2])
  <2>1. f[1] \in RunIDs /\ runs[f[1]] # NoRun /\ Settled(runs[f[1]], f[2])
    BY DEF IInv, TypeOK, FinishesSettled
  <2>2. runs'[f[1]] # NoRun /\ runs'[f[1]] = runs[f[1]]
    BY <2>1 DEF Kept, ForwardOnly, Settled
  <2> QED
    BY <2>1, <2>2
<1> QED
  BY <1>1, <1>2

-----------------------------------------------------------------------------

RunsKept == \A id \in RunIDs : runs[id] # NoRun => Kept(runs[id], runs'[id])

\* The empty ledger satisfies the invariant.
LEMMA InitIInv == Init => IInv
  BY ClockAssumption
  DEF Init, IInv, TypeOK, LineageSound, AckedKept, HandlingStamped, FinishesSettled

\* A step that leaves runs, acked and finishes alone disturbs none of the
\* facts about them.
LEMMA RunsUnchanged ==
    ASSUME IInv, UNCHANGED <<runs, acked, finishes>>
    PROVE  RunsKept /\ LineageSound' /\ AckedKept' /\ FinishesSettled'
<1>1. RunsKept
  <2>1. \A id \in RunIDs : runs[id] # NoRun => runs[id] \in Run
    BY DEF IInv, TypeOK
  <2> QED
    BY <2>1, KeptReflexive DEF RunsKept
<1>2. LineageSound' /\ AckedKept' /\ FinishesSettled'
  BY DEF IInv, LineageSound, AckedKept, FinishesSettled
<1> QED
  BY <1>1, <1>2

\* Stamping a POST touches no stored run, and what it stamps is a stamped run.
LEMMA ReceiveStep ==
    ASSUME IInv, NEW h \in Handlers, Receive(h)
    PROVE  IInv' /\ RunsKept
<1>1. PICK body \in Bodies, id \in RunIDs :
         handling' = [handling EXCEPT ![h] = [id |-> id, run |-> Stamp(body, clock)]]
  BY DEF Receive
<1>2. UNCHANGED <<runs, clock, acked, finishes>>
  BY DEF Receive
<1>3. clock \in Nat \ {0} /\ body \in Body
  BY BodiesAssumption, ClockAssumption DEF IInv, TypeOK
<1>4. /\ Stamp(body, clock) \in Run
      /\ Stamp(body, clock).fingerprint = Compute(Stamp(body, clock))
  BY <1>3, StampType
<1> DEFINE new == [id |-> id, run |-> Stamp(body, clock)]
<1>5. new \in [id : RunIDs, run : Run] /\ new.run = Stamp(body, clock)
  BY <1>4
<1> HIDE DEF new
<1>6. TypeOK'
  BY <1>1, <1>2, <1>5 DEF IInv, TypeOK, new
<1>7. HandlingStamped'
  BY <1>1, <1>4, <1>5 DEF IInv, TypeOK, HandlingStamped, new
<1> QED
  BY <1>2, <1>6, <1>7, RunsUnchanged DEF IInv

\* Recording a stamped run keeps the invariant: Record lets it in only under
\* an id that is free or already holds exactly it.
LEMMA CommitStep ==
    ASSUME IInv, NEW h \in Handlers, Commit(h)
    PROVE  IInv' /\ RunsKept
<1> DEFINE id     == handling[h].id
           r      == handling[h].run
           result == Record(runs[id], r)
<1>1. id \in RunIDs /\ r \in Run /\ r.fingerprint = Compute(r)
  BY DEF Commit, IInv, TypeOK, HandlingStamped
<1>2. handling' = [handling EXCEPT ![h] = NoRun] /\ UNCHANGED <<clock, finishes>>
  BY DEF Commit
<1>3. HandlingStamped'
  BY <1>2 DEF IInv, TypeOK, HandlingStamped
<1>4. handling' \in [Handlers -> [id : RunIDs, run : Run] \union {NoRun}]
  BY <1>2 DEF IInv, TypeOK
<1>5. CASE result.err # "nil"
  <2>1. UNCHANGED <<runs, acked>>
    BY <1>5 DEF Commit, Pending
  <2>2. TypeOK'
    BY <2>1, <1>2, <1>4 DEF IInv, TypeOK
  <2> QED
    BY <2>1, <2>2, <1>2, <1>3, RunsUnchanged DEF IInv
<1>6. CASE result.err = "nil"
  <2> DEFINE new == result.run
  <2>1. /\ runs' = [runs EXCEPT ![id] = new]
        /\ acked' = acked \union {<<id, new>>}
    BY <1>6 DEF Commit, Pending
  <2>2. runs[id] \in Run \union {NoRun}
    BY <1>1 DEF IInv, TypeOK
  <2>3. /\ new \in Run /\ Validate(new) /\ new.status \in Statuses
        /\ new.fingerprint = Compute(new) /\ runs[id] \in {NoRun, new}
    BY <1>1, <1>6, <2>2, RecordedRun
  <2> HIDE DEF new, id, r
  <2>4. /\ runs' \in [RunIDs -> Run \union {NoRun}]
        /\ runs'[id] = new
        /\ \A i \in RunIDs \ {id} : runs'[i] = runs[i]
    BY <1>1, <2>1, <2>3 DEF IInv, TypeOK
  <2>5. TypeOK'
    BY <1>1, <1>2, <1>4, <2>1, <2>3, <2>4 DEF IInv, TypeOK
  <2>6. LineageSound'
    BY <2>3, <2>4 DEF IInv, LineageSound
  <2>7. RunsKept
    <3>1. \A i \in RunIDs : runs[i] # NoRun => runs[i] \in Run /\ runs'[i] = runs[i]
      BY <2>3, <2>4 DEF IInv, TypeOK
    <3> QED
      BY <3>1, KeptReflexive DEF RunsKept
  <2>8. AckedKept' /\ FinishesSettled'
    <3>1. /\ \A a \in acked : Extends(a[2], runs'[a[1]])
          /\ \A f \in finishes : runs'[f[1]] # NoRun /\ Settled(runs'[f[1]], f[2])
      BY <2>4, <2>7, HistoriesSurvive DEF RunsKept
    <3>2. Extends(new, new)
      BY <2>3, KeptReflexive DEF Kept
    <3> QED
      BY <3>1, <3>2, <1>2, <2>1, <2>4 DEF AckedKept, FinishesSettled
  <2> QED
    BY <1>3, <2>5, <2>6, <2>7, <2>8 DEF IInv
<1> QED
  BY <1>5, <1>6

\* A PATCH keeps the invariant: applyPatch changes one run, and only forward.
LEMMA UpdateStep ==
    ASSUME IInv, NEW id \in RunIDs, NEW p \in Patches, Update(id, p)
    PROVE  IInv' /\ RunsKept
<1> DEFINE e   == runs[id]
           new == ApplyPatch(e, p, clock).run
<1>1. /\ e \in Run /\ Validate(e) /\ e.status \in Statuses
      /\ e.fingerprint = Compute(e)
  BY DEF Update, IInv, TypeOK, LineageSound
<1>2. p \in Patch /\ clock \in Nat \ {0}
  BY PatchesAssumption, ClockAssumption DEF IInv, TypeOK
<1>3. /\ ApplyPatch(e, p, clock).err = "nil"
      /\ runs' = [runs EXCEPT ![id] = new]
      /\ finishes' = IF Terminal(new.status) THEN finishes \union {<<id, p>>} ELSE finishes
      /\ UNCHANGED <<handling, clock, acked>>
  BY DEF Update
<1>4. /\ new \in Run /\ Validate(new) /\ new.status \in Statuses
      /\ new.fingerprint = Compute(new)
      /\ Kept(e, new)
  BY <1>1, <1>2, <1>3, PatchedRun DEF Kept
<1>5. Terminal(new.status) => Settled(new, p)
  BY <1>1, <1>2, <1>3, FinishSettles
<1> HIDE DEF new
<1>6. /\ runs' \in [RunIDs -> Run \union {NoRun}]
      /\ runs'[id] = new
      /\ \A i \in RunIDs \ {id} : runs'[i] = runs[i]
  BY <1>3, <1>4 DEF IInv, TypeOK
<1>7. TypeOK'
  BY <1>3, <1>6 DEF IInv, TypeOK
<1>8. LineageSound'
  BY <1>4, <1>6 DEF IInv, LineageSound
<1>9. RunsKept
  <2>1. \A i \in RunIDs \ {id} : runs[i] # NoRun => runs[i] \in Run
    BY DEF IInv, TypeOK
  <2> QED
    BY <2>1, <1>4, <1>6, KeptReflexive DEF RunsKept
<1>10. /\ \A a \in acked : Extends(a[2], runs'[a[1]])
       /\ \A f \in finishes : runs'[f[1]] # NoRun /\ Settled(runs'[f[1]], f[2])
  BY <1>6, <1>9, HistoriesSurvive DEF RunsKept
<1>11. AckedKept'
  BY <1>3, <1>10 DEF AckedKept
<1>12. FinishesSettled'
  <2>1. runs'[id] # NoRun
    BY <1>4, <1>6, NoRunAssumption
  <2> QED
    BY <2>1, <1>3, <1>5, <1>6, <1>10 DEF FinishesSettled
<1>13. HandlingStamped'
  BY <1>3 DEF IInv, HandlingStamped
<1> QED
  BY <1>7, <1>8, <1>9, <1>11, <1>12, <1>13 DEF IInv

\* Time passing changes no run.
LEMMA TickStep ==
    ASSUME IInv, Tick
    PROVE  IInv' /\ RunsKept
<1>1. UNCHANGED <<runs, handling, acked, finishes>> /\ clock' \in 1..MaxClock
  BY ClockAssumption DEF Tick, IInv, TypeOK
<1>2. TypeOK' /\ HandlingStamped'
  BY <1>1 DEF IInv, TypeOK, HandlingStamped
<1> QED
  BY <1>1, <1>2, RunsUnchanged DEF IInv

\* Every step keeps the invariant and every stored run (store.go, memory.go).
LEMMA NextIInv ==
    ASSUME IInv, [Next]_vars
    PROVE  IInv' /\ RunsKept
<1>1. CASE UNCHANGED vars
  <2>1. TypeOK' /\ HandlingStamped'
    BY <1>1 DEF vars, IInv, TypeOK, HandlingStamped
  <2>2. UNCHANGED <<runs, acked, finishes>>
    BY <1>1 DEF vars
  <2> QED
    BY <2>1, <2>2, RunsUnchanged DEF IInv
<1>2. CASE \E h \in Handlers : Receive(h)
  BY <1>2, ReceiveStep
<1>3. CASE \E h \in Handlers : Commit(h)
  BY <1>3, CommitStep
<1>4. CASE \E id \in RunIDs, p \in Patches : Update(id, p)
  BY <1>4, UpdateStep
<1>5. CASE Tick
  BY <1>5, TickStep
<1> QED
  BY <1>1, <1>2, <1>3, <1>4, <1>5 DEF Next

-----------------------------------------------------------------------------
(* The theorems.                                                           *)

\* The invariant holds of every reachable state of the ledger.
THEOREM Invariant == Spec => []IInv
<1>1. IInv /\ [Next]_vars => IInv'
  BY NextIInv
<1> QED
  BY InitIInv, <1>1, PTL DEF Spec

\* Type correctness of the store and its handlers.
THEOREM TypeCorrect == Spec => []TypeOK
<1>1. IInv => TypeOK
  BY DEF IInv
<1> QED
  BY Invariant, <1>1, PTL

\* Every stored run is valid lineage under the fingerprint of its identity,
\* however POSTs and PATCHes interleave.
THEOREM StoredLineageSound == Spec => []LineageSound
<1>1. IInv => LineageSound
  BY DEF IInv
<1> QED
  BY Invariant, <1>1, PTL

\* No POST answered 201 is ever lost or overwritten.
THEOREM AckedRunsKept == Spec => []AckedKept
<1>1. IInv => AckedKept
  BY DEF IInv
<1> QED
  BY Invariant, <1>1, PTL

\* A finishing PATCH answered 200 can be repeated for ever.
THEOREM FinishesRetriable == Spec => []FinishRetriable
<1>1. IInv => FinishRetriable
  BY SettledIsNoop DEF IInv, FinishesSettled, FinishRetriable
<1> QED
  BY Invariant, <1>1, PTL

\* Runs are never removed, move forward only, and never leave a terminal
\* status or change once in it.
THEOREM LifecycleOnlyForward == Spec => LifecycleForward
<1>1. IInv /\ [Next]_vars =>
        [\A id \in RunIDs : runs[id] # NoRun => ForwardOnly(runs[id], runs'[id])]_vars
  BY NextIInv DEF RunsKept, Kept
<1> QED
  BY Invariant, <1>1, PTL DEF Spec, LifecycleForward

\* No request rewrites identity, start, capture, or drops a metric.
THEOREM HistoryNeverRewritten == Spec => HistoryKept
<1>1. IInv /\ [Next]_vars =>
        [\A id \in RunIDs : runs[id] # NoRun => Extends(runs[id], runs'[id])]_vars
  BY NextIInv DEF RunsKept, Kept
<1> QED
  BY Invariant, <1>1, PTL DEF Spec, HistoryKept

-----------------------------------------------------------------------------
(* The in-memory store implements Ledger.                                  *)

\* Ledger's copy of the rules is the store's: they are the same definitions
\* over the same constants.
LEMMA SameRules ==
    ASSUME NEW e, NEW p, NEW now
    PROVE  /\ Abstract!ApplyPatch(e, p, now) = ApplyPatch(e, p, now)
           /\ Abstract!Canonical(e) = Canonical(e)
           /\ Abstract!Validate(e) = Validate(e)
<1>1. /\ \A s : Abstract!Terminal(s) = Terminal(s)
      /\ Abstract!Statuses = Statuses
      /\ Abstract!CaptureFields = CaptureFields
      /\ \A s, t : Abstract!LegalTransition(s, t) = LegalTransition(s, t)
  BY DEF Abstract!Terminal, Terminal, Abstract!Statuses, Statuses,
         Abstract!CaptureFields, CaptureFields, Abstract!LegalTransition, LegalTransition,
         Abstract!Created, Created, Abstract!Running, Running, Abstract!Succeeded, Succeeded,
         Abstract!Failed, Failed, Abstract!Cancelled, Cancelled
<1>2. /\ \A m : Abstract!Entries(m) = Entries(m)
      /\ \A m, n : Abstract!Overlay(m, n) = Overlay(m, n)
      /\ \A m, n : Abstract!ParamsEqual(m, n) = ParamsEqual(m, n)
  <2>1. \A m : Abstract!Entries(m) = Entries(m)
    BY DEF Abstract!Entries, Entries
  <2>2. \A m, n : Abstract!Overlay(m, n) = Overlay(m, n)
    BY DEF Abstract!Overlay, Overlay
  <2>3. \A m, n : Abstract!ParamsEqual(m, n) = ParamsEqual(m, n)
    <3>1. \A m, k : Abstract!Lookup(m, k) = Lookup(m, k)
      BY DEF Abstract!Lookup, Lookup
    <3>2. \A S : Abstract!Cardinality(S) = Cardinality(S)
      BY Zenon DEF Abstract!Cardinality, Cardinality
    <3> QED
      BY <3>1, <3>2 DEF Abstract!ParamsEqual, ParamsEqual
  <2> QED
    BY <2>1, <2>2, <2>3
<1>3. \A r : Abstract!Validate(r) = Validate(r) /\ Abstract!Canonical(r) = Canonical(r)
  BY <1>1, <1>2 DEF Abstract!Validate, Validate, Abstract!Canonical, Canonical
<1>4. Abstract!IdentityUnchanged(e, p) = IdentityUnchanged(e, p)
  BY <1>2 DEF Abstract!IdentityUnchanged, IdentityUnchanged
<1>5. Abstract!IsNoopPatch(e, p) = IsNoopPatch(e, p)
  BY <1>2 DEF Abstract!IsNoopPatch, IsNoopPatch
<1>6. Abstract!Merged(e, p, now) = Merged(e, p, now)
  BY <1>1, <1>2 DEF Abstract!Merged, Merged
<1>7. /\ \A r : Abstract!Ok(r) = Ok(r)
      /\ \A err : Abstract!Refused(err) = Refused(err)
  BY DEF Abstract!Ok, Ok, Abstract!Refused, Refused
<1>8. Abstract!ApplyPatch(e, p, now) = ApplyPatch(e, p, now)
  BY <1>1, <1>3, <1>4, <1>5, <1>6, <1>7 DEF Abstract!ApplyPatch, ApplyPatch
<1> QED
  BY <1>3, <1>8

-----------------------------------------------------------------------------
(* The two steps that change the map.                                      *)

\* What a handler is about to record was stamped from a body a client sent.
HandlingSent ==
    \A h \in Handlers : handling[h] # NoRun =>
        \E body \in Bodies, now \in 1..MaxClock : handling[h].run = Stamp(body, now)

\* A POST's Commit is Ledger's Record, or changes nothing clients see.
LEMMA CommitRecords ==
    ASSUME IInv, HandlingSent, NEW h \in Handlers, Commit(h)
    PROVE  [Abstract!Next]_Ledgered
<1> DEFINE id == Pending(h)
           r == handling[h].run
           normal == [r EXCEPT !.capture = NormalizeCapture(@)]
           result == Record(runs[id], r)
<1>1. /\ handling[h] \in [id : RunIDs, run : Run]
      /\ runs \in [RunIDs -> Run \union {NoRun}]
      /\ r.fingerprint = Compute(r)
  BY DEF Commit, IInv, TypeOK, HandlingStamped
<1>2. id \in RunIDs /\ r \in Run
  BY <1>1 DEF Pending
<1>3. CASE result.err # "nil"
  BY <1>3 DEF Commit, Ledgered
<1>4. CASE result.err = "nil"
  <2>1. /\ result.run = normal
        /\ Validate(normal)
        /\ normal \in Run
        /\ runs[id] \in {NoRun, normal}
    BY <1>1, <1>2, <1>4, RecordedRun DEF Record, Ok, Refused
  <2>2. runs' = [runs EXCEPT ![id] = normal]
    BY <1>4, <2>1 DEF Commit
  <2>3. CASE runs[id] = normal
    BY <1>1, <1>2, <2>2, <2>3 DEF Ledgered
  <2>4. CASE runs[id] = NoRun
    <3>1. PICK body \in Bodies, now \in 1..MaxClock : r = Stamp(body, now)
      BY DEF Commit, HandlingSent
    <3>2. normal \in Sent
      BY <3>1 DEF Sent
    <3>3. normal # NoRun
      BY <2>1, NoRunAssumption
    <3>4. Ledgered[id] = NoRun /\ Ledgered' = [Ledgered EXCEPT ![id] = Canonical(normal)]
      BY <1>1, <1>2, <2>2, <2>4, <3>3 DEF Ledgered
    <3>5. Abstract!Validate(normal) /\ Abstract!Canonical(normal) = Canonical(normal)
      BY <2>1, SameRules
    <3>6. Abstract!Record(id)
      BY <3>2, <3>4, <3>5 DEF Abstract!Record
    <3> QED
      BY <3>6, <1>2 DEF Abstract!Next
  <2> QED
    BY <2>1, <2>3, <2>4
<1> QED
  BY <1>3, <1>4

\* A PATCH is Ledger's Update.
LEMMA UpdateUpdates ==
    ASSUME IInv, NEW id \in RunIDs, NEW p \in Patches, Update(id, p)
    PROVE  [Abstract!Next]_Ledgered
<1> DEFINE result == ApplyPatch(runs[id], p, clock)
           seen == ApplyPatch(Canonical(runs[id]), p, clock)
<1>1. /\ runs \in [RunIDs -> Run \union {NoRun}]
      /\ runs[id] \in Run
      /\ clock \in 1..MaxClock
      /\ clock \in Nat \ {0}
      /\ p \in Patch
      /\ result.err = "nil"
      /\ runs' = [runs EXCEPT ![id] = result.run]
  BY PatchesAssumption, ClockAssumption DEF Update, IInv, TypeOK
<1>2. seen.err = "nil" /\ Canonical(seen.run) = Canonical(result.run)
  BY <1>1, PatchCanonical
<1>3. result.run \in Run /\ result.run # NoRun
  BY <1>1, PatchOutcome, MergedFields, NoRunAssumption
<1>4. /\ Ledgered[id] = Canonical(runs[id])
      /\ Ledgered' = [Ledgered EXCEPT ![id] = Canonical(result.run)]
  BY <1>1, <1>3, NoRunAssumption DEF Ledgered
<1>5. Ledgered[id] # NoRun
  <2>1. Canonical(runs[id]) \in Run
    BY <1>1, EntriesIsMap DEF Canonical, Run, ParamMaps, MetricMaps
  <2> QED
    BY <1>4, <2>1, NoRunAssumption
<1>6. /\ Abstract!ApplyPatch(Ledgered[id], p, clock) = seen
      /\ Abstract!Canonical(seen.run) = Canonical(seen.run)
  BY <1>4, SameRules
<1>7. Abstract!Update(id, p)
  BY <1>1, <1>2, <1>4, <1>5, <1>6 DEF Abstract!Update
<1> QED
  BY <1>7 DEF Abstract!Next

-----------------------------------------------------------------------------

\* Handlers only ever hold stamped bodies.
LEMMA AlwaysSent == Spec => []HandlingSent
<1>1. Init => HandlingSent
  BY DEF Init, HandlingSent
<1>2. IInv /\ HandlingSent /\ [Next]_vars => HandlingSent'
  <2> SUFFICES ASSUME IInv, HandlingSent, [Next]_vars
               PROVE  HandlingSent'
    OBVIOUS
  <2>1. ASSUME NEW h \in Handlers, Receive(h) PROVE HandlingSent'
    BY <2>1 DEF Receive, HandlingSent, IInv, TypeOK
  <2>2. ASSUME NEW h \in Handlers, Commit(h) PROVE HandlingSent'
    BY <2>2 DEF Commit, HandlingSent, IInv, TypeOK
  <2>3. CASE UNCHANGED handling
    BY <2>3 DEF HandlingSent
  <2> QED
    BY <2>1, <2>2, <2>3 DEF Next, Update, Tick, vars
<1> QED
  BY <1>1, <1>2, Invariant, PTL DEF Spec

(***************************************************************************)
(* Every behaviour of the in-memory store, its handlers included, is one   *)
(* of Ledger: POSTs and PATCHes take effect whole and one at a time.       *)
(***************************************************************************)
THEOREM StoreImplementsLedger == Spec => ImplementsLedger
<1>1. Init => Abstract!Init
  BY DEF Init, Abstract!Init, Ledgered
<1>2. IInv /\ HandlingSent /\ [Next]_vars => [Abstract!Next]_Ledgered
  <2> SUFFICES ASSUME IInv, HandlingSent, [Next]_vars
               PROVE  [Abstract!Next]_Ledgered
    OBVIOUS
  <2>1. CASE \E h \in Handlers : Commit(h)
    BY <2>1, CommitRecords
  <2>2. CASE \E id \in RunIDs, p \in Patches : Update(id, p)
    BY <2>2, UpdateUpdates
  <2>3. CASE UNCHANGED runs
    BY <2>3 DEF Ledgered
  <2> QED
    BY <2>1, <2>2, <2>3 DEF Next, Receive, Tick, vars
<1> QED
  BY <1>1, <1>2, Invariant, AlwaysSent, PTL
     DEF Spec, ImplementsLedger, Abstract!Spec

=============================================================================
