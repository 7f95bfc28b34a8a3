------------------------------- MODULE Store -------------------------------
(***************************************************************************)
(* The ledger as its writers see it: the POST and PATCH handlers of        *)
(* internal/api over the in-memory store of internal/store, which is the   *)
(* reference every other backend is held to.                               *)
(*                                                                         *)
(* A POST is two steps, because the handler stamps the run (Receive) before*)
(* it reaches the store's mutex (Commit) and another handler may run in    *)
(* between.  A PATCH reads nothing before it holds the mutex and is one    *)
(* step.  A request that a handler refuses before the store changes        *)
(* nothing and is not a step.                                              *)
(***************************************************************************)
EXTENDS StoreRules

CONSTANTS
    Handlers,       \* goroutines serving a POST
    Bodies,         \* the POST bodies clients send
    MaxClock        \* bound: the last instant of the server's clock

VARIABLES
    runs,           \* Memory.runs: id -> run, or NoRun
    handling,       \* handler -> the stamped run it is about to record, or NoRun
    clock,          \* time.Now()
    acked,          \* history: <<id, run>> of every POST answered 201
    finishes        \* history: <<id, patch>> answered 200 that left a run terminal

vars == <<runs, handling, clock, acked, finishes>>

-----------------------------------------------------------------------------
(* POST bodies.                                                            *)

\* The body of POST /v1/runs.  runID may be empty, startedAt zero and status
\* the empty string; a client's own fingerprint is a value like any other.
Body == [runID       : RunIDs \union {Empty},
         experiment  : Experiments \union {Blank},
         dirty       : BOOLEAN,
         config      : Configs \union {Empty},
         params      : ParamMaps \union {None},
         fingerprint : Fingerprints \union {None},
         status      : Statuses \union {UnknownStatus, ""},
         startedAt   : Nat,
         endedAt     : Nat \union {None},
         prov        : [ProvFields -> ProvValues],
         metrics     : MetricMaps \union {None},
         capture     : Captures]

ASSUME BodiesAssumption  == Bodies \subseteq Body
ASSUME ClockAssumption   == MaxClock \in Nat \ {0}

-----------------------------------------------------------------------------
(* internal/api/api.go: the handlers.                                      *)

\* Fault: the zero start time is stored as it came.
StampWithoutStart(body, now) ==
    [experiment  |-> body.experiment,
     dirty       |-> body.dirty,
     config      |-> body.config,
     params      |-> body.params,
     fingerprint |-> Compute(body),
     status      |-> IF body.status = "" THEN Created ELSE body.status,
     startedAt   |-> body.startedAt,
     endedAt     |-> body.endedAt,
     prov        |-> body.prov,
     metrics     |-> body.metrics,
     capture     |-> body.capture]

\* api.record, lines 393-411: defaults, then the server's own fingerprint.
Stamp(body, now) ==
    [experiment  |-> body.experiment,
     dirty       |-> body.dirty,
     config      |-> body.config,
     params      |-> body.params,
     fingerprint |-> Compute(body),
     status      |-> IF body.status = "" THEN Created ELSE body.status,
     startedAt   |-> IF body.startedAt = 0 THEN now ELSE body.startedAt,
     endedAt     |-> body.endedAt,
     prov        |-> body.prov,
     metrics     |-> body.metrics,
     capture     |-> body.capture]

Pending(h) == handling[h].id

\* Lines 412-419: the client's run_id, or fingerprint-started_at-random.  The
\* 40 random bits are taken to be fresh.
AssignedID(body, id) ==
    IF body.runID # Empty
    THEN id = body.runID
    ELSE /\ runs[id] = NoRun
         /\ \A h \in Handlers : handling[h] # NoRun => Pending(h) # id

\* A POST is decoded and stamped.
Receive(h) ==
    /\ handling[h] = NoRun
    /\ \E body \in Bodies, id \in RunIDs :
          /\ AssignedID(body, id)
          /\ handling' = [handling EXCEPT ![h] = [id |-> id, run |-> Stamp(body, clock)]]
    /\ UNCHANGED <<runs, clock, acked, finishes>>

\* Fault: a taken id is overwritten.
RecordOverwriting(stored, r) ==
    IF Validate(r)
    THEN Ok([r EXCEPT !.capture = NormalizeCapture(@)])
    ELSE Refused("invalid")

\* Memory.Record on what is stored under the id.
Record(stored, r) ==
    LET normal == [r EXCEPT !.capture = NormalizeCapture(@)]
    IN  IF ~Validate(r) THEN Refused("invalid")
        ELSE IF stored \notin {NoRun, normal} THEN Refused("ErrConflict")
        ELSE Ok(normal)

\* The handler takes the store's mutex, records and answers.
Commit(h) ==
    /\ handling[h] # NoRun
    /\ LET id     == Pending(h)
           result == Record(runs[id], handling[h].run)
       IN  IF result.err = "nil"
           THEN /\ runs' = [runs EXCEPT ![id] = result.run]
                /\ acked' = acked \union {<<id, result.run>>}
           ELSE UNCHANGED <<runs, acked>>
    /\ handling' = [handling EXCEPT ![h] = NoRun]
    /\ UNCHANGED <<clock, finishes>>

\* api.update over Memory.Update.
Update(id, p) ==
    /\ runs[id] # NoRun
    /\ LET result == ApplyPatch(runs[id], p, clock)
       IN  /\ result.err = "nil"
           /\ runs' = [runs EXCEPT ![id] = result.run]
           /\ finishes' = IF Terminal(result.run.status)
                          THEN finishes \union {<<id, p>>}
                          ELSE finishes
    /\ UNCHANGED <<handling, clock, acked>>

Tick ==
    /\ clock < MaxClock
    /\ clock' = clock + 1
    /\ UNCHANGED <<runs, handling, acked, finishes>>

Init ==
    /\ runs = [id \in RunIDs |-> NoRun]
    /\ handling = [h \in Handlers |-> NoRun]
    /\ clock = 1
    /\ acked = {}
    /\ finishes = {}

Next ==
    \/ \E h \in Handlers : Receive(h)
    \/ \E h \in Handlers : Commit(h)
    \/ \E id \in RunIDs, p \in Patches : Update(id, p)
    \/ Tick

Spec == Init /\ [][Next]_vars

-----------------------------------------------------------------------------
(* Properties.                                                             *)

\* The store holds stamped runs under known ids, a handler holds at most one
\* stamped run, and every remembered finish was a patch some client sent.
TypeOK ==
    /\ runs \in [RunIDs -> Run \union {NoRun}]
    /\ handling \in [Handlers -> [id : RunIDs, run : Run] \union {NoRun}]
    /\ clock \in 1..MaxClock
    /\ acked \subseteq RunIDs \X Run
    /\ finishes \subseteq RunIDs \X Patches

(***************************************************************************)
(* Whatever POSTs and PATCHes were interleaved, each stored run could be   *)
(* recorded as it stands (Validate accepts it: applyPatch's last check),   *)
(* its status is a lifecycle state, and its fingerprint is the one its     *)
(* identity hashes to now, so grouping by fingerprint groups experiments.  *)
(***************************************************************************)
LineageSound ==
    \A id \in RunIDs : runs[id] # NoRun =>
        /\ Validate(runs[id])
        /\ runs[id].status \in Statuses
        /\ runs[id].fingerprint = Compute(runs[id])

(***************************************************************************)
(* A client that lost the 200 to a finishing PATCH may send it again, at   *)
(* any later time and after any other request: applyPatch answers with the *)
(* stored run and changes nothing (store.go:216-222).                      *)
(***************************************************************************)
FinishRetriable ==
    \A f \in finishes :
        LET id == f[1]
        IN  /\ runs[id] # NoRun
            /\ ApplyPatch(runs[id], f[2], clock) = Ok(runs[id])

Rank(s) == CASE s = Created -> 0 [] s = Running -> 1 [] OTHER -> 2

(***************************************************************************)
(* A run is never removed; its status moves one stage forward at a time; a *)
(* finished run never changes in any field; and the step that finishes a   *)
(* run leaves it with an end time (legalTransitions and applyPatch).       *)
(***************************************************************************)
ForwardOnly(r, s) ==
    /\ s # NoRun
    /\ Terminal(r.status) => s = r
    /\ s.status # r.status =>
          /\ Rank(s.status) = Rank(r.status) + 1
          /\ Terminal(s.status) => s.endedAt # None

LifecycleForward ==
    [][\A id \in RunIDs : runs[id] # NoRun => ForwardOnly(runs[id], runs'[id])]_vars

(***************************************************************************)
(* No request rewrites what a stored run was: its identity, fingerprint,   *)
(* start time and capture declaration stay, and a metric once reported may *)
(* get a new value but never disappears (Patch's doc comment).             *)
(***************************************************************************)
Extends(r, s) ==
    /\ s # NoRun
    /\ IdentityOf(s) = IdentityOf(r)
    /\ s.fingerprint = r.fingerprint
    /\ s.startedAt = r.startedAt
    /\ s.capture = r.capture
    /\ DOMAIN Entries(r.metrics) \subseteq DOMAIN Entries(s.metrics)

HistoryKept ==
    [][\A id \in RunIDs : runs[id] # NoRun => Extends(runs[id], runs'[id])]_vars

(***************************************************************************)
(* A POST that was answered 201 stays recorded: neither a racing POST of   *)
(* the same id nor any PATCH loses the run the client was told about       *)
(* (Record's check of the id under the mutex).                             *)
(***************************************************************************)
AckedKept ==
    \A a \in acked : Extends(a[2], runs[a[1]])

\* The map of runs that callers of the Store interface see, and the runs that
\* Record may be asked to store.
Ledgered == [id \in RunIDs |-> IF runs[id] = NoRun THEN NoRun ELSE Canonical(runs[id])]

Sent == {[Stamp(body, now) EXCEPT !.capture = NormalizeCapture(@)] :
            body \in Bodies, now \in 1..MaxClock}

Abstract == INSTANCE Ledger WITH
    runs <- Ledgered, Recordable <- Sent, Times <- 1..MaxClock

(***************************************************************************)
(* The in-memory store does what Ledger promises: although the run was     *)
(* stamped before the mutex was taken, each POST and PATCH takes effect at *)
(* one instant, on the run as it is then (Memory.Record, Memory.Update).   *)
(***************************************************************************)
ImplementsLedger == Abstract!Spec

(***************************************************************************)
(* store.go:243: "so a terminal run never lacks an end time".              *)
(***************************************************************************)
TerminalHasEnd ==
    \A id \in RunIDs :
        runs[id] # NoRun /\ Terminal(runs[id].status) => runs[id].endedAt # None

(***************************************************************************)
(* store.go:117-119: a patch that sets an identity field to a value other  *)
(* than the run's is refused.  So one that was answered 200 named the      *)
(* parameters the run has.                                                 *)
(***************************************************************************)
AcceptedParamsMatch ==
    \A f \in finishes :
        f[2].params # None => f[2].params = Entries(runs[f[1]].params)

=============================================================================
