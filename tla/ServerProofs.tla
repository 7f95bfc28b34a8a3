---------------------------- MODULE ServerProofs ----------------------------
(***************************************************************************)
(* Proofs about Server, for any number of callers, whatever they send, and *)
(* any number of faults.                                                   *)
(*                                                                         *)
(* The argument: a request has one status code in its life, and the code   *)
(* of a writing request says what its handler did to the ledger.  Of that, *)
(* what the exit status promises is never undone: runs stay, statuses move *)
(* forward, and a finished run is final.                                   *)
(***************************************************************************)
EXTENDS Server, RulesProofs, FiniteSetTheorems

-----------------------------------------------------------------------------
(* The inductive invariant.                                                *)

Ops == Writing \union {"show", "list", "metrics", "readyz", "healthz", "no_route",
                       "other_method", "malformed"}

OKCodes == {200, 201}

Scrapes == [recorded : [Statuses -> Nat], runs : Int]

\* What a handler tells the registry.
Labels == Statuses \union {UnknownStatus, None, "invalid", "not_found", "conflict",
                           "internal", "readyz"}

Phases == {"idle", "sent", "count", "gauge", "write", "observe", "done", "dead"}

Codes == OKCodes \union {0, 400, 401, 403, 404, 405, 409, 500, 503}

Counts == [call : {"none", "RecordRun", "StoreError"}, label : Labels] \union {None}

Lists == [page : SUBSET RunIDs, more : BOOLEAN]

Bodies == Run \union Lists \union Scrapes \union {None}

Requests ==
    [pc     : Phases,
     op     : Ops \union {"none"},
     id     : RunIDs \union {None},
     status : Statuses \union {UnknownStatus, None},
     code   : Codes,
     count  : Counts,
     body   : Bodies,
     before : SUBSET Callers]

TypeInv ==
    /\ proc \in [phase : {"starting", "serving", "draining", "closing", "exited"},
                 code : {-1, 0, 1}]
    /\ runs \in [RunIDs -> Run \union {NoRun}]
    /\ request \in [Callers -> Requests]
    /\ exit \in [Callers -> {"none", "ok", "failed"}]
    /\ recorded \in [Statuses -> Nat]

\* The store holds valid runs, those of earlier servers among them.
RunsSound ==
    /\ \A id \in RunIDs : runs[id] # NoRun => /\ Validate(runs[id])
                                              /\ runs[id].status \in Statuses
    /\ runs[Old] # NoRun

\* A request is one its caller may send, and has a code from its answer on.
Served(c) ==
    LET r == request[c]
    IN  /\ r.pc = "idle" <=> r.op = "none"
        /\ r.op \in {"record", "post"} => r.status \in Statuses
        /\ r.op = "start" => r.status = Running
        /\ r.op = "finish" => r.status # None
        /\ r.op \in {"post", "start", "finish", "show"} => r.id \in RunIDs
        /\ r.pc \in {"idle", "sent", "gauge", "write"} => r.code = 0
        /\ r.pc \in {"count", "observe", "done"} => r.code # 0
        /\ r.pc \in {"gauge", "write"} => r.op = "metrics"
        /\ r.pc = "dead" => proc.phase = "exited"
        /\ exit[c] = "ok" => r.code \in OKCodes /\ r.pc \in {"observe", "done", "dead"}
        /\ r.pc = "count" =>
              \/ /\ r.op \in Writing /\ r.code \in OKCodes /\ r.status \in Statuses
                 /\ r.count = [call |-> "RecordRun", label |-> r.status]
              \/ r.code \notin OKCodes /\ r.count.call = "StoreError"
        /\ r.op \in Writing /\ r.code \in OKCodes => r.status \in Statuses

\* A writing request that was answered 200 or 201 has its effect.
Effective == \A c \in Callers :
    request[c].op \in Writing /\ request[c].code \in OKCodes /\ Lasting(c) => Happened(c)

\* A post names a run of its caller's, or one that is in the ledger.
Known == \A c \in Callers :
    request[c].op = "post" => request[c].id \in Given \/ runs[request[c].id] # NoRun

\* Nobody else has: a run is there because it was recorded, an end time because
\* a finish set it.
Caused ==
    /\ \A c \in Callers : runs[c] # NoRun => request[c].op = "record" /\ request[c].code \in OKCodes
    /\ \A id \in RunIDs : runs[id] # NoRun /\ runs[id].endedAt # None =>
          \E b \in Callers : /\ request[b].op = "finish" /\ request[b].id = id
                             /\ request[b].code \in OKCodes
                             /\ runs[id].endedAt = Clock[b]

\* What a reading request was answered shows what came before it.
Current ==
    \A c \in Callers :
        /\ \A b \in request[c].before : exit[b] = "ok"
        /\ request[c].op \in {"show", "list"} /\ request[c].code \in OKCodes =>
              \A b \in request[c].before : request[b].op \in Writing => Shows(c, b)

\* Nothing is in flight when main closes the store.
Quiet ==
    /\ proc.phase = "closing" => InFlight = {}
    /\ closed => InFlight = {} /\ proc.phase = "exited"
    /\ proc.phase = "exited" /\ proc.code = 0 => closed

\* The writing requests that are in the counter of a status.
Counted(s) == {c \in Callers : /\ request[c].op \in Writing /\ request[c].code \in OKCodes
                               /\ request[c].status = s /\ request[c].pc \in {"observe", "done"}}

AllLasting == \A b \in Callers : Lasting(b)

\* The callers a scrape must account for.
Reported(c, s) == {b \in request[c].before : request[b].op \in Writing /\ request[b].status = s}
Added(c) == {Target(b) : b \in {d \in request[c].before : request[d].op \in {"record", "post"}}}

\* A scrape that was answered.
Scraped(c) == request[c].op = "metrics" /\ request[c].code \in OKCodes

\* The counters are exact while the server runs.
Exact == proc.phase # "exited" => \A s \in Statuses : recorded[s] = Cardinality(Counted(s))

\* A scrape that has read the counters, and one that has read the gauge too, is
\* not behind what it must account for.
NotBehind(c) ==
    LET r == request[c]
    IN  /\ Scraped(c) \/ r.pc \in {"gauge", "write"} =>
              /\ r.body \in Scrapes
              /\ \A s \in Statuses : r.body.recorded[s] >= Cardinality(Reported(c, s))
        /\ r.pc = "gauge" /\ AllLasting =>
              r.body.recorded[Created] < Cardinality(Stored) + Cardinality(Retries)
        /\ (Scraped(c) \/ r.pc = "write") /\ r.body.runs # -1 =>
              /\ r.body.runs >= Cardinality(Added(c) \union {Old})
              /\ AllLasting => r.body.runs + Cardinality(Retries) > r.body.recorded[Created]

IInv ==
    /\ TypeInv
    /\ RunsSound
    /\ \A c \in Callers : Served(c)
    /\ Effective
    /\ Known
    /\ Caused
    /\ Current
    /\ Quiet
    /\ Exact
    /\ \A c \in Callers : NotBehind(c)

-----------------------------------------------------------------------------
(* Lemmas: what a step leaves of the promises when it leaves the requests  *)
(* and the ledger more or less alone.                                      *)

\* Request b is the one it was, however far it has got.
SameCall(b) ==
    /\ request'[b].op = request[b].op
    /\ request'[b].id = request[b].id
    /\ request'[b].status = request[b].status
    /\ request'[b].before = request[b].before

\* What was written is not undone.
Ahead ==
    \A id \in RunIDs : runs[id] # NoRun =>
        /\ runs'[id] # NoRun
        /\ runs[id].status # Created => runs'[id].status # Created
        /\ Terminal(runs[id].status) => runs'[id] = runs[id]

\* What a writing command was to leave in the ledger stays there.
LEMMA HappenedStays ==
    ASSUME NEW b \in Callers, Served(b), Callers \subseteq RunIDs, request[b].op \in Writing,
           SameCall(b), Ahead, Lasting(b), Happened(b)
    PROVE  Happened(b)'
<1>1. /\ Target(b) \in RunIDs /\ Target(b)' = Target(b)
      /\ runs[Target(b)] # NoRun
  BY DEF Happened, Target, Served, SameCall, Writing
<1>2. runs'[Target(b)] # NoRun
  BY <1>1 DEF Ahead
<1>3. CASE request[b].op \in {"record", "post"}
  <2>1. ASSUME Terminal(request[b].status)
        PROVE  runs'[Target(b)].status = request[b].status
    <3>1. runs[Target(b)].status = request[b].status
      BY <1>3, <2>1 DEF Happened
    <3> QED
      BY <1>1, <2>1, <3>1 DEF Ahead
  <2> QED
    BY <1>1, <1>2, <1>3, <2>1 DEF Happened, SameCall
<1>4. CASE request[b].op = "start"
  <2>1. runs'[Target(b)].status # Created
    BY <1>1, <1>4 DEF Happened, Ahead
  <2> QED
    BY <1>1, <1>2, <1>4, <2>1 DEF Happened, SameCall
<1>5. CASE request[b].op = "finish"
  <2>1. /\ runs[Target(b)].status = request[b].status /\ Terminal(request[b].status)
        /\ runs[Target(b)].endedAt = Clock[b]
    BY <1>5 DEF Happened, Lasting
  <2>2. runs'[Target(b)] = runs[Target(b)]
    BY <1>1, <2>1 DEF Ahead
  <2> QED
    BY <1>1, <1>2, <1>5, <2>1, <2>2 DEF Happened, SameCall
<1> QED
  BY <1>3, <1>4, <1>5 DEF Writing

\* What a reading command was answered goes on showing what came before it.
LEMMA ShowsStays ==
    ASSUME NEW b \in Callers, NEW c \in Callers, Served(b), Callers \subseteq RunIDs,
           request[c].op \in {"show", "list"}, request[b].op \in Writing,
           SameCall(b), SameCall(c), request'[c].body = request[c].body,
           Ahead, Lasting(b) => Happened(b), Shows(c, b)
    PROVE  Shows(c, b)'
<1>1. Target(b)' = Target(b) /\ Target(b) \in RunIDs
  BY DEF Target, SameCall, Served, Writing
<1>2. CASE request[c].op = "list"
  BY <1>1, <1>2 DEF Shows, SameCall
<1>3. CASE request[c].op = "show"
  <2>1. SUFFICES ASSUME request[c].id = Target(b)
        PROVE  /\ request[b].op = "start" => request'[c].body.status # Created
               /\ Terminal(request[b].status) => request'[c].body = runs'[request[c].id]
    BY <1>1, <1>3 DEF Shows, SameCall
  <2>2. /\ request[b].op = "start" => request[c].body.status # Created
        /\ Terminal(request[b].status) => request[c].body = runs[request[c].id]
    BY <1>3, <2>1 DEF Shows
  <2>3. ASSUME Terminal(request[b].status)
        PROVE  runs'[Target(b)] = runs[Target(b)]
    <3>1. request[b].op # "start"
      BY <2>3 DEF Served, Terminal, Running, Succeeded, Failed, Cancelled
    <3>2. Happened(b)
      BY <2>3 DEF Lasting
    <3>3. runs[Target(b)] # NoRun /\ runs[Target(b)].status = request[b].status
      BY <2>3, <3>1, <3>2 DEF Happened, Writing
    <3> QED
      BY <1>1, <2>3, <3>3 DEF Ahead
  <2> QED
    BY <2>1, <2>2, <2>3
<1> QED
  BY <1>2, <1>3

\* A step that leaves the ledger alone and, except for a scrape, what a request
\* is answered.
Framed ==
    /\ runs' = runs
    /\ \A b \in Callers :
          /\ SameCall(b)
          /\ exit[b] = "ok" => exit'[b] = "ok"
          /\ request[b].op # "metrics" =>
                /\ request'[b].body = request[b].body
                /\ request'[b].code \in OKCodes <=> request[b].code \in OKCodes

LEMMA FramedKeeps ==
    ASSUME IInv, Framed
    PROVE  RunsSound' /\ Effective' /\ Known' /\ Caused' /\ Current'
<1>0. Callers \subseteq RunIDs
  BY ServerAssumption
<1>1. Ahead
  BY DEF Framed, Ahead
<1>2. RunsSound'
  BY DEF IInv, Framed, RunsSound
<1>3. Effective'
  <2>1. SUFFICES ASSUME NEW c \in Callers, request'[c].op \in Writing,
                        request'[c].code \in OKCodes, Lasting(c)'
        PROVE  Happened(c)'
    BY DEF Effective
  <2>2. SameCall(c) /\ request[c].op \in Writing /\ request[c].code \in OKCodes
    BY <2>1 DEF Framed, SameCall, Writing
  <2>3. Lasting(c)
    BY <2>1, <2>2 DEF Lasting, SameCall
  <2>4. Served(c) /\ Happened(c)
    BY <2>2, <2>3 DEF IInv, Effective
  <2> QED
    BY <1>0, <1>1, <2>2, <2>3, <2>4, HappenedStays
<1>4. Caused'
  <2>1. ASSUME NEW c \in Callers, runs'[c] # NoRun
        PROVE  request'[c].op = "record" /\ request'[c].code \in OKCodes
    <3>1. request[c].op = "record" /\ request[c].code \in OKCodes
      BY <2>1 DEF IInv, Caused, Framed
    <3> QED
      BY <3>1 DEF Framed, SameCall
  <2>2. ASSUME NEW id \in RunIDs, runs'[id] # NoRun, runs'[id].endedAt # None
        PROVE  \E b \in Callers : /\ request'[b].op = "finish" /\ request'[b].id = id
                                  /\ request'[b].code \in OKCodes
                                  /\ runs'[id].endedAt = Clock[b]
    <3>1. PICK b \in Callers : /\ request[b].op = "finish" /\ request[b].id = id
                               /\ request[b].code \in OKCodes
                               /\ runs[id].endedAt = Clock[b]
      BY <2>2 DEF IInv, Caused, Framed
    <3>2. /\ request'[b].op = "finish" /\ request'[b].id = id
          /\ request'[b].code \in OKCodes
          /\ runs'[id].endedAt = Clock[b]
      BY <3>1 DEF Framed, SameCall
    <3> QED
      BY <3>2
  <2> QED
    BY <2>1, <2>2 DEF Caused
<1>5. Current'
  <2>1. ASSUME NEW c \in Callers, NEW b \in request'[c].before
        PROVE  /\ b \in Callers /\ b \in request[c].before
               /\ exit[b] = "ok" /\ exit'[b] = "ok"
    <3>1. b \in request[c].before
      BY <2>1 DEF Framed, SameCall
    <3>2. b \in Callers
      BY <3>1 DEF IInv, TypeInv, Requests
    <3>3. exit[b] = "ok"
      BY <3>1 DEF IInv, Current
    <3> QED
      BY <3>1, <3>2, <3>3 DEF Framed
  <2>2. ASSUME NEW c \in Callers, request'[c].op \in {"show", "list"}, request'[c].code \in OKCodes,
               NEW b \in request'[c].before, request'[b].op \in Writing
        PROVE  Shows(c, b)'
    <3>1. /\ SameCall(c) /\ request[c].op \in {"show", "list"} /\ request[c].code \in OKCodes
          /\ request'[c].body = request[c].body
      BY <2>2 DEF Framed, SameCall
    <3>2. b \in Callers /\ b \in request[c].before /\ exit[b] = "ok"
      BY <2>1, <2>2
    <3>3. SameCall(b) /\ request[b].op \in Writing
      BY <2>2, <3>2 DEF Framed, SameCall
    <3>4. Served(b) /\ request[b].code \in OKCodes
      BY <3>2 DEF IInv, Served
    <3>5. Lasting(b) => Happened(b)
      BY <3>2, <3>3, <3>4 DEF IInv, Effective
    <3>6. Shows(c, b)
      BY <3>1, <3>2, <3>3 DEF IInv, Current
    <3> QED
      BY <1>0, <1>1, <3>1, <3>2, <3>3, <3>4, <3>5, <3>6, ShowsStays
  <2> QED
    BY <2>1, <2>2 DEF Current
<1>6. Known'
  BY DEF IInv, Known, Framed, SameCall
<1> QED
  BY <1>2, <1>3, <1>4, <1>5, <1>6

\* The posts can be counted.
LEMMA RetriesFinite == IsFiniteSet(Retries) /\ Cardinality(Retries) \in Nat
<1>1. Retries \in SUBSET Callers
  BY DEF Retries
<1> QED
  BY <1>1, ServerAssumption, FS_Subset, FS_CardinalityType

\* A scrape is not overtaken: the callers it accounts for are settled, and the
\* ledger only grows.
LEMMA NotBehindStays ==
    ASSUME IInv, NEW c \in Callers,
           request'[c].op = request[c].op, request'[c].before = request[c].before,
           request'[c].body = request[c].body,
           Scraped(c)' => Scraped(c) \/ request[c].pc = "write",
           request'[c].pc \in {"gauge", "write"} => request'[c].pc = request[c].pc,
           \A b \in request[c].before : SameCall(b),
           AllLasting' => AllLasting,
           Cardinality(Retries) \in Nat, Cardinality(Retries') \in Nat,
           Cardinality(Retries) <= Cardinality(Retries'),
           request'[c].pc = "gauge" => Cardinality(Stored) <= Cardinality(Stored'),
           Cardinality(Stored) \in Nat, Cardinality(Stored') \in Nat
    PROVE  NotBehind(c)'
<1>1. \A s \in Statuses : Reported(c, s)' = Reported(c, s)
  BY DEF Reported, SameCall
<1>2. Added(c)' = Added(c)
  BY DEF Added, SameCall, Target
<1>3. NotBehind(c)
  BY DEF IInv
<1>4. Scraped(c)' \/ request'[c].pc \in {"gauge", "write"} =>
          /\ request'[c].body \in Scrapes
          /\ \A s \in Statuses : request'[c].body.recorded[s] >= Cardinality(Reported(c, s))'
  BY <1>1, <1>3 DEF NotBehind
<1>5. request'[c].pc = "gauge" /\ AllLasting' =>
          request'[c].body.recorded[Created] < Cardinality(Stored)' + Cardinality(Retries)'
  <2>1. SUFFICES ASSUME request'[c].pc = "gauge", AllLasting'
        PROVE  request[c].body.recorded[Created] < Cardinality(Stored') + Cardinality(Retries')
    OBVIOUS
  <2>2. /\ request[c].body \in Scrapes
        /\ request[c].body.recorded[Created] < Cardinality(Stored) + Cardinality(Retries)
    BY <2>1, <1>3 DEF NotBehind
  <2>3. request[c].body.recorded[Created] \in Nat
    BY <2>2 DEF Scrapes, Statuses
  <2>4. \A i, k, l, m, n \in Nat : i < k + m /\ k <= l /\ m <= n => i < l + n
    OBVIOUS
  <2> QED
    BY <2>1, <2>2, <2>3, <2>4
<1>6. (Scraped(c)' \/ request'[c].pc = "write") /\ request'[c].body.runs # -1 =>
          /\ request'[c].body.runs >= Cardinality(Added(c)' \union {Old})
          /\ AllLasting' =>
                request'[c].body.runs + Cardinality(Retries') > request'[c].body.recorded[Created]
  <2>1. SUFFICES ASSUME Scraped(c)' \/ request'[c].pc = "write", request[c].body.runs # -1
        PROVE  /\ request[c].body.runs >= Cardinality(Added(c) \union {Old})
               /\ AllLasting =>
                     request[c].body.runs + Cardinality(Retries') > request[c].body.recorded[Created]
    BY <1>2
  <2>2. /\ request[c].body \in Scrapes
        /\ request[c].body.runs >= Cardinality(Added(c) \union {Old})
        /\ AllLasting =>
              request[c].body.runs + Cardinality(Retries) > request[c].body.recorded[Created]
    BY <2>1, <1>3 DEF NotBehind
  <2>3. request[c].body.recorded[Created] \in Nat /\ request[c].body.runs \in Int
    BY <2>2 DEF Scrapes, Statuses
  <2>4. \A i \in Int : \A k, m, n \in Nat : i + m > k /\ m <= n => i + n > k
    OBVIOUS
  <2> QED
    BY <2>2, <2>3, <2>4
<1> QED
  BY <1>4, <1>5, <1>6 DEF NotBehind

\* The store can be counted.
LEMMA StoredFinite == IsFiniteSet(RunIDs) /\ IsFiniteSet(Stored) /\ Cardinality(Stored) \in Nat
<1>1. IsFiniteSet(RunIDs)
  BY ServerAssumption, FS_Union
<1>2. Stored \in SUBSET RunIDs
  BY DEF Stored
<1>3. IsFiniteSet(Stored)
  BY <1>1, <1>2, FS_Subset
<1> QED
  BY <1>1, <1>3, FS_CardinalityType

\* A step that does nothing for a scrape leaves it where it was.
LEMMA FramedScrape ==
    ASSUME IInv, Framed, NEW c \in Callers, request'[c].body = request[c].body,
           Scraped(c)' => Scraped(c) \/ request[c].pc = "write",
           request'[c].pc \in {"gauge", "write"} => request'[c].pc = request[c].pc
    PROVE  NotBehind(c)'
<1>1. request'[c].op = request[c].op /\ request'[c].before = request[c].before
  BY DEF Framed, SameCall
<1>2. request[c].before \subseteq Callers
  BY DEF IInv, TypeInv, Requests
<1>3. \A b \in request[c].before : SameCall(b)
  BY <1>2 DEF Framed
<1>4. AllLasting' => AllLasting
  BY DEF Framed, SameCall, AllLasting, Lasting
<1>5. Stored' = Stored
  BY DEF Framed, Stored
<1>6. Cardinality(Stored') = Cardinality(Stored) /\ Cardinality(Stored) \in Nat
  BY <1>5, StoredFinite
<1>7. /\ Cardinality(Stored') \in Nat
      /\ Cardinality(Stored) <= Cardinality(Stored')
  BY <1>6
<1>8. Retries' = Retries
  BY DEF Framed, SameCall, Retries
<1>9. /\ Cardinality(Retries) \in Nat /\ Cardinality(Retries') \in Nat
      /\ Cardinality(Retries) <= Cardinality(Retries')
  BY <1>8, RetriesFinite
<1> QED
  BY <1>1, <1>3, <1>4, <1>6, <1>7, <1>9, NotBehindStays

\* Of the requests, c gets these fields and stays the same call.
Becomes(c, pc, code, count, body) ==
    /\ request' \in [Callers -> Requests]
    /\ \A b \in Callers \ {c} : request'[b] = request[b]
    /\ SameCall(c)
    /\ request'[c].pc = pc /\ request'[c].code = code
    /\ request'[c].count = count /\ request'[c].body = body

\* A request moves on.
LEMMA Moved ==
    ASSUME request \in [Callers -> Requests], NEW c \in Callers,
           NEW pc \in Phases,
           request' = [request EXCEPT ![c].pc = pc]
    PROVE  Becomes(c, pc, request[c].code, request[c].count, request[c].body)
<1>1. request[c] \in Requests
  OBVIOUS
<1>2. request'[c] = [request[c] EXCEPT !.pc = pc]
  OBVIOUS
<1>3. request'[c] = [pc |-> pc, op |-> request[c].op, id |-> request[c].id,
                     status |-> request[c].status, code |-> request[c].code,
                     count |-> request[c].count, body |-> request[c].body,
                     before |-> request[c].before]
  BY <1>1, <1>2 DEF Requests
<1>4. request'[c] \in Requests
  BY <1>1, <1>3 DEF Requests
<1>5. \A b \in Callers \ {c} : request'[b] = request[b]
  OBVIOUS
<1>6. request' \in [Callers -> Requests]
  BY <1>4, <1>5
<1> QED
  BY <1>3, <1>5, <1>6 DEF Becomes, SameCall

\* It gets its status code.
LEMMA Answered ==
    ASSUME request \in [Callers -> Requests], NEW c \in Callers,
           NEW pc \in Phases, NEW code \in Codes,
           request' = [request EXCEPT ![c].pc = pc, ![c].code = code]
    PROVE  Becomes(c, pc, code, request[c].count, request[c].body)
<1>1. request[c] \in Requests
  OBVIOUS
<1>2. request'[c] = [request[c] EXCEPT !.pc = pc, !.code = code]
  OBVIOUS
<1>3. request'[c] = [pc |-> pc, op |-> request[c].op, id |-> request[c].id,
                     status |-> request[c].status, code |-> code,
                     count |-> request[c].count, body |-> request[c].body,
                     before |-> request[c].before]
  BY <1>1, <1>2 DEF Requests
<1>4. request'[c] \in Requests
  BY <1>1, <1>3 DEF Requests
<1>5. \A b \in Callers \ {c} : request'[b] = request[b]
  OBVIOUS
<1>6. request' \in [Callers -> Requests]
  BY <1>4, <1>5
<1> QED
  BY <1>3, <1>5, <1>6 DEF Becomes, SameCall

\* It gets a part of its body.
LEMMA Wrote ==
    ASSUME request \in [Callers -> Requests], NEW c \in Callers,
           NEW pc \in Phases, NEW body \in Bodies,
           request' = [request EXCEPT ![c].pc = pc, ![c].body = body]
    PROVE  Becomes(c, pc, request[c].code, request[c].count, body)
<1>1. request[c] \in Requests
  OBVIOUS
<1>2. request'[c] = [request[c] EXCEPT !.pc = pc, !.body = body]
  OBVIOUS
<1>3. request'[c] = [pc |-> pc, op |-> request[c].op, id |-> request[c].id,
                     status |-> request[c].status, code |-> request[c].code,
                     count |-> request[c].count, body |-> body,
                     before |-> request[c].before]
  BY <1>1, <1>2 DEF Requests
<1>4. request'[c] \in Requests
  BY <1>1, <1>3 DEF Requests
<1>5. \A b \in Callers \ {c} : request'[b] = request[b]
  OBVIOUS
<1>6. request' \in [Callers -> Requests]
  BY <1>4, <1>5
<1> QED
  BY <1>3, <1>5, <1>6 DEF Becomes, SameCall

\* Its handler is through.
LEMMA Through ==
    ASSUME request \in [Callers -> Requests], NEW c \in Callers,
           NEW pc \in Phases, NEW code \in Codes, NEW count \in Counts, NEW body \in Bodies,
           request' = [request EXCEPT ![c].pc = pc, ![c].code = code, ![c].count = count, ![c].body = body]
    PROVE  Becomes(c, pc, code, count, body)
<1>1. request[c] \in Requests
  OBVIOUS
<1>2. request'[c] = [request[c] EXCEPT !.pc = pc, !.code = code, !.count = count, !.body = body]
  OBVIOUS
<1>3. request'[c] = [pc |-> pc, op |-> request[c].op, id |-> request[c].id,
                     status |-> request[c].status, code |-> code,
                     count |-> count, body |-> body,
                     before |-> request[c].before]
  BY <1>1, <1>2 DEF Requests
<1>4. request'[c] \in Requests
  BY <1>1, <1>3 DEF Requests
<1>5. \A b \in Callers \ {c} : request'[b] = request[b]
  OBVIOUS
<1>6. request' \in [Callers -> Requests]
  BY <1>4, <1>5
<1> QED
  BY <1>3, <1>5, <1>6 DEF Becomes, SameCall

-----------------------------------------------------------------------------
(* The invariant is kept, one kind of step after the other.                *)

\* A command ends: UsageError, Receive, NoAnswer.
LEMMA CallerEnds ==
    ASSUME IInv, NEW c \in Callers, UsageError(c) \/ Receive(c) \/ NoAnswer(c)
    PROVE  IInv'
<1>1. /\ proc' = proc /\ closed' = closed /\ runs' = runs /\ request' = request
      /\ recorded' = recorded
  BY DEF UsageError, Receive, NoAnswer, process, registry
<1>2. /\ exit' \in [Callers -> {"none", "ok", "failed"}]
      /\ exit[c] = "none"
      /\ exit'[c] = "ok" => request[c].pc \in {"observe", "done"} /\ ~(request[c].code >= 300)
      /\ \A b \in Callers \ {c} : exit'[b] = exit[b]
  BY DEF UsageError, Receive, NoAnswer, IInv, TypeInv
<1>3. Framed
  BY <1>1, <1>2 DEF Framed, SameCall
<1>4. TypeInv'
  BY <1>1, <1>2 DEF IInv, TypeInv
<1>5. ASSUME NEW b \in Callers PROVE Served(b)'
  <2>1. Served(b)
    BY DEF IInv
  <2>2. request[b].code \in Codes
    BY DEF IInv, TypeInv, Requests
  <2>3. ASSUME exit'[b] = "ok" PROVE request[b].code \in OKCodes /\ request[b].pc \in {"observe", "done", "dead"}
    <3>1. CASE b # c
      BY <1>2, <2>1, <2>3, <3>1 DEF Served
    <3>2. CASE b = c
      BY <1>2, <2>1, <2>2, <2>3, <3>2 DEF Served, OKCodes, Codes
    <3> QED
      BY <3>1, <3>2
  <2> QED
    BY <1>1, <2>1, <2>3 DEF Served
<1>6. Quiet'
  BY <1>1 DEF IInv, Quiet, InFlight
<1>7. Exact'
  BY <1>1 DEF IInv, Exact, Counted
<1>8. ASSUME NEW b \in Callers PROVE NotBehind(b)'
  BY <1>1, <1>3, FramedScrape DEF Scraped
<1> QED
  BY <1>3, <1>4, <1>5, <1>6, <1>7, <1>8, FramedKeeps DEF IInv

\* main goes on: the requests are left alone, or die with the process.
LEMMA MainMoves ==
    ASSUME IInv, Main \/ Sigterm \/ ServeFails
    PROVE  IInv'
<1>1. /\ runs' = runs /\ exit' = exit /\ recorded' = recorded
      /\ proc \in [phase : {"starting", "serving", "draining", "closing", "exited"},
                   code : {-1, 0, 1}]
  BY DEF Main, Startup, Drained, ShutdownDeadline, Return, Sigterm, ServeFails, registry, IInv, TypeInv
<1>2. \/ /\ request' = request /\ closed' = closed
         /\ \/ proc.phase = "starting" /\ proc'.phase = "serving"
            \/ proc.phase = "serving" /\ proc'.phase = "draining"
            \/ proc.phase = "draining" /\ proc'.phase = "closing" /\ InFlight = {}
         /\ proc'.code = proc.code /\ proc.phase # "exited"
      \/ /\ proc' = [phase |-> "exited", code |-> 1] /\ closed' = closed /\ proc.phase # "exited"
         /\ request' = [c \in Callers |-> IF request[c].pc \in {"idle", "done"} THEN request[c]
                                          ELSE [request[c] EXCEPT !.pc = "dead"]]
         /\ proc.phase \in {"starting", "serving", "draining"}
      \/ /\ proc' = [phase |-> "exited", code |-> 0] /\ closed' = TRUE
         /\ request' = [c \in Callers |-> IF request[c].pc \in {"idle", "done"} THEN request[c]
                                          ELSE [request[c] EXCEPT !.pc = "dead"]]
         /\ proc.phase = "closing"
  BY <1>1 DEF Main, Startup, Drained, ShutdownDeadline, Return, Sigterm, ServeFails, Exit
<1>3. proc' \in [phase : {"starting", "serving", "draining", "closing", "exited"},
                 code : {-1, 0, 1}]
  <2>1. CASE Startup
    BY <1>1, <2>1 DEF Startup, Exit
  <2>2. CASE Drained \/ Sigterm
    BY <1>1, <2>2 DEF Drained, Sigterm
  <2>3. CASE ShutdownDeadline \/ Return \/ ServeFails
    BY <2>3 DEF ShutdownDeadline, Return, ServeFails, Exit
  <2> QED
    BY <2>1, <2>2, <2>3 DEF Main
<1>4. /\ request' \in [Callers -> Requests]
      /\ \A b \in Callers :
            /\ SameCall(b)
            /\ request'[b].code = request[b].code /\ request'[b].body = request[b].body
            /\ request'[b].count = request[b].count
            /\ \/ request'[b].pc = request[b].pc
               \/ /\ request'[b].pc = "dead" /\ request[b].pc \notin {"idle", "done"}
                  /\ proc'.phase = "exited"
  <2>0. request \in [Callers -> Requests]
    BY DEF IInv, TypeInv
  <2>1. CASE request' = request
    BY <2>0, <2>1 DEF SameCall
  <2>2. CASE request' = [c \in Callers |-> IF request[c].pc \in {"idle", "done"} THEN request[c]
                                           ELSE [request[c] EXCEPT !.pc = "dead"]]
    <3>1. ASSUME NEW b \in Callers
          PROVE  /\ request'[b] \in Requests
                 /\ SameCall(b)
                 /\ request'[b].code = request[b].code /\ request'[b].body = request[b].body
                 /\ request'[b].count = request[b].count
                 /\ \/ request'[b] = request[b]
                    \/ request'[b].pc = "dead" /\ request[b].pc \notin {"idle", "done"}
      <4>0. request[b] \in Requests /\ "dead" \in Phases
        BY <2>0 DEF Phases
      <4>1. CASE request[b].pc \in {"idle", "done"}
        <5>1. request'[b] = request[b]
          BY <2>2, <4>1
        <5> QED
          BY <4>0, <5>1 DEF SameCall
      <4>2. CASE request[b].pc \notin {"idle", "done"}
        <5>1. request'[b] = [request[b] EXCEPT !.pc = "dead"]
          BY <2>2, <4>2
        <5> QED
          BY <4>0, <4>2, <5>1 DEF Requests, SameCall
      <4> QED
        BY <4>1, <4>2
    <3>2. request' = request \/ proc'.phase = "exited"
      BY <1>2
    <3>3. request' \in [Callers -> Requests]
      BY <2>2, <3>1
    <3> QED
      BY <3>1, <3>2, <3>3
  <2> QED
    BY <1>2, <2>1, <2>2
<1>5. Framed
  BY <1>1, <1>4 DEF Framed
<1>6. TypeInv'
  BY <1>1, <1>3, <1>4 DEF IInv, TypeInv
<1>7. ASSUME NEW b \in Callers PROVE Served(b)'
  <2>1. Served(b)
    BY DEF IInv
  <2>2. proc.phase # "exited"
    BY <1>2
  <2> QED
    BY <1>1, <1>4, <2>1, <2>2 DEF Served, SameCall
<1>8. Quiet'
  <2>1. Quiet
    BY DEF IInv
  <2>2. CASE request' = request /\ closed' = closed /\ proc'.phase # "exited"
    BY <1>2, <2>1, <2>2 DEF Quiet, InFlight
  <2>3. CASE proc' = [phase |-> "exited", code |-> 1]
    BY <1>2, <2>1, <2>3 DEF Quiet
  <2>4. CASE proc' = [phase |-> "exited", code |-> 0]
    <3>1. InFlight = {} /\ closed'
      BY <1>2, <2>1, <2>4 DEF Quiet
    <3>2. \A b \in Callers : request[b].pc \in {"idle", "done"}
      BY <3>1 DEF InFlight
    <3>3. InFlight' = {}
      BY <1>4, <3>2 DEF InFlight
    <3> QED
      BY <2>4, <3>1, <3>3 DEF Quiet
  <2> QED
    BY <1>2, <2>2, <2>3, <2>4
<1>9. Exact'
  <2>1. CASE proc'.phase = "exited"
    BY <2>1 DEF Exact
  <2>2. CASE proc'.phase # "exited"
    BY <1>1, <1>2, <2>2 DEF IInv, Exact, Counted
  <2> QED
    BY <2>1, <2>2
<1>10. ASSUME NEW b \in Callers PROVE NotBehind(b)'
  <2>1. Scraped(b)' => Scraped(b)
    BY <1>4 DEF Scraped, SameCall
  <2>2. request'[b].body = request[b].body
    BY <1>4
  <2>3. request'[b].pc \in {"gauge", "write"} => request'[b].pc = request[b].pc
    BY <1>4
  <2> QED
    BY <1>5, <2>1, <2>2, <2>3, FramedScrape
<1> QED
  BY <1>5, <1>6, <1>7, <1>8, <1>9, <1>10, FramedKeeps DEF IInv

\* A handler moves on and the ledger stays as it is.
HandlerMoves(c) ==
    /\ Serving
    /\ proc' = proc /\ closed' = closed /\ exit' = exit /\ runs' = runs
    /\ request' \in [Callers -> Requests]
    /\ \A b \in Callers \ {c} : request'[b] = request[b]
    /\ SameCall(c)
    /\ request[c].op # "metrics" =>
          /\ request'[c].body = request[c].body
          /\ request'[c].code \in OKCodes <=> request[c].code \in OKCodes

\* Then what is left to show is about its own request, and the counters.
LEMMA HandlerKeeps ==
    ASSUME IInv, NEW c \in Callers, HandlerMoves(c), recorded' \in [Statuses -> Nat],
           Served(c)', Exact', NotBehind(c)'
    PROVE  IInv'
<1>1. Framed
  <2>1. ASSUME NEW b \in Callers
        PROVE  /\ SameCall(b)
               /\ exit[b] = "ok" => exit'[b] = "ok"
               /\ request[b].op # "metrics" =>
                     /\ request'[b].body = request[b].body
                     /\ request'[b].code \in OKCodes <=> request[b].code \in OKCodes
    BY DEF HandlerMoves, SameCall
  <2> QED
    BY <2>1 DEF Framed, HandlerMoves
<1>2. TypeInv'
  BY DEF IInv, TypeInv, HandlerMoves
<1>3. ASSUME NEW b \in Callers PROVE Served(b)'
  <2>1. CASE b = c
    BY <2>1
  <2>2. CASE b # c
    <3>1. Served(b)
      BY DEF IInv
    <3>2. request'[b] = request[b] /\ exit'[b] = exit[b] /\ proc' = proc
      BY <2>2 DEF HandlerMoves
    <3> QED
      BY <3>1, <3>2 DEF Served
  <2> QED
    BY <2>1, <2>2
<1>4. Quiet'
  BY DEF IInv, Quiet, HandlerMoves, Serving
<1>5. ASSUME NEW b \in Callers PROVE NotBehind(b)'
  <2>1. CASE b = c
    BY <2>1
  <2>2. CASE b # c
    <3>1. request'[b] = request[b]
      BY <2>2 DEF HandlerMoves
    <3> QED
      BY <1>1, <3>1, FramedScrape DEF Scraped
  <2> QED
    BY <2>1, <2>2
<1> QED
  BY <1>1, <1>2, <1>3, <1>4, <1>5, FramedKeeps DEF IInv

\* The counters are left alone, and so are the requests they count.
LEMMA ExactStays ==
    ASSUME IInv, NEW c \in Callers, HandlerMoves(c), recorded' = recorded,
           \/ request[c].op = "metrics"
           \/ request'[c].code \notin OKCodes
           \/ request[c].pc \in {"observe", "done"} /\ request'[c].pc \in {"observe", "done"}
    PROVE  Exact'
<1>1. ASSUME NEW b \in Callers, NEW s \in Statuses
      PROVE  b \in Counted(s)' <=> b \in Counted(s)
  <2>1. CASE b # c
    BY <2>1 DEF HandlerMoves, Counted
  <2>2. CASE b = c /\ request[c].op = "metrics"
    BY <2>2 DEF HandlerMoves, SameCall, Counted, Writing
  <2>3. CASE b = c /\ request[c].op # "metrics"
    BY <2>3 DEF HandlerMoves, SameCall, Counted
  <2> QED
    BY <2>1, <2>2, <2>3
<1>2. \A s \in Statuses : Counted(s)' = Counted(s)
  BY <1>1 DEF Counted
<1>3. proc'.phase = proc.phase
  BY DEF HandlerMoves
<1>4. Exact
  BY DEF IInv
<1> QED
  BY <1>2, <1>3, <1>4 DEF Exact

\* Panic and Observe.
LEMMA AnswerKeeps ==
    ASSUME IInv, NEW c \in Callers, Panic(c) \/ Observe(c)
    PROVE  IInv'
<1>0. request \in [Callers -> Requests] /\ request[c] \in Requests /\ recorded \in [Statuses -> Nat]
  BY DEF IInv, TypeInv
<1>1. Served(c)
  BY DEF IInv
<1>2. /\ Serving /\ proc' = proc /\ closed' = closed /\ exit' = exit /\ runs' = runs
      /\ recorded' = recorded
  BY DEF Panic, Observe, process, registry
<1>3. /\ request' \in [Callers -> Requests]
      /\ \A b \in Callers \ {c} : request'[b] = request[b]
      /\ SameCall(c)
      /\ request'[c].body = request[c].body
      /\ \/ /\ request[c].pc = "sent" /\ request[c].op # "metrics"
            /\ request'[c].pc = "observe" /\ request'[c].code = 500
         \/ /\ request[c].pc = "observe" /\ request'[c].pc = "done"
            /\ request'[c].code = request[c].code
  <2>1. CASE Panic(c)
    <3>1. request' = [request EXCEPT ![c].pc = "observe", ![c].code = 500]
      BY <2>1 DEF Panic
    <3>2. "observe" \in Phases /\ 500 \in Codes
      BY DEF Phases, Codes
    <3>3. request[c].pc = "sent" /\ request[c].op # "metrics"
      BY <2>1 DEF Panic
    <3>4. Becomes(c, "observe", 500, request[c].count, request[c].body)
      BY <1>0, <3>1, <3>2, Answered
    <3> QED
      BY <3>3, <3>4 DEF Becomes
  <2>2. CASE Observe(c)
    <3>1. request' = [request EXCEPT ![c].pc = "done"]
      BY <2>2 DEF Observe
    <3>2. "done" \in Phases
      BY DEF Phases
    <3>3. request[c].pc = "observe"
      BY <2>2 DEF Observe
    <3>4. Becomes(c, "done", request[c].code, request[c].count, request[c].body)
      BY <1>0, <3>1, <3>2, Moved
    <3> QED
      BY <3>3, <3>4 DEF Becomes
  <2> QED
    BY <2>1, <2>2
<1>4. 500 \notin OKCodes /\ 0 \notin OKCodes
  BY DEF OKCodes
<1>5. request'[c].code \in OKCodes <=> request[c].code \in OKCodes
  BY <1>1, <1>3, <1>4 DEF Served
<1>6. HandlerMoves(c)
  BY <1>2, <1>3, <1>5 DEF HandlerMoves
<1>7. Exact'
  BY <1>2, <1>3, <1>4, <1>6, ExactStays
<1>8. Served(c)'
  BY <1>1, <1>2, <1>3, <1>4 DEF Served, SameCall
<1>9. NotBehind(c)'
  <2>1. Framed
    BY <1>2, <1>3, <1>5 DEF Framed, SameCall
  <2>2. Scraped(c)' => Scraped(c)
    BY <1>3, <1>5 DEF Scraped, SameCall
  <2>3. request'[c].pc \notin {"gauge", "write"}
    BY <1>3
  <2> QED
    BY <1>3, <2>1, <2>2, <2>3, FramedScrape
<1> QED
  BY <1>0, <1>2, <1>6, <1>7, <1>8, <1>9, HandlerKeeps

\* While the server runs, the counter of a status has all the writes that were
\* answered before a scrape was sent.
LEMMA ReportsCounted ==
    ASSUME IInv, Serving, NEW c \in Callers, NEW s \in Statuses
    PROVE  recorded[s] \in Nat /\ Cardinality(Reported(c, s)) \in Nat
           /\ recorded[s] >= Cardinality(Reported(c, s))
<1>1. ASSUME NEW b \in Reported(c, s)
      PROVE  b \in Counted(s)
  <2>1. b \in Callers /\ exit[b] = "ok" /\ request[b].op \in Writing /\ request[b].status = s
    BY <1>1 DEF Reported, IInv, Current, TypeInv, Requests
  <2>2. Served(b) /\ proc.phase # "exited"
    BY <2>1 DEF IInv, Serving
  <2>3. request[b].code \in OKCodes /\ request[b].pc \in {"observe", "done"}
    BY <2>1, <2>2 DEF Served
  <2> QED
    BY <2>1, <2>3 DEF Counted
<1>2. Reported(c, s) \in SUBSET Counted(s) /\ Counted(s) \in SUBSET Callers
  BY <1>1 DEF Counted
<1>3. IsFiniteSet(Counted(s))
  BY <1>2, ServerAssumption, FS_Subset
<1>4. Cardinality(Reported(c, s)) <= Cardinality(Counted(s)) /\ IsFiniteSet(Reported(c, s))
  BY <1>2, <1>3, FS_Subset
<1>5. recorded[s] = Cardinality(Counted(s))
  BY DEF IInv, Exact, Serving
<1>6. Cardinality(Reported(c, s)) \in Nat /\ Cardinality(Counted(s)) \in Nat
  BY <1>3, <1>4, FS_CardinalityType
<1>7. \A m, n \in Nat : m <= n => n >= m
  OBVIOUS
<1> QED
  BY <1>4, <1>5, <1>6, <1>7

\* A set of callers whose runs are in the ledger is smaller than the ledger, which
\* also holds a run from before.
LEMMA LedgerLarger ==
    ASSUME IInv, NEW S \in SUBSET Callers, \A b \in S : runs[b] # NoRun
    PROVE  Cardinality(S) \in Nat /\ Cardinality(S) < Cardinality(Stored)
<1>1. IsFiniteSet(S) /\ Old \notin S
  BY ServerAssumption, FS_Subset
<1>2. /\ IsFiniteSet(S \union {Old})
      /\ Cardinality(S \union {Old}) = Cardinality(S) + 1
  BY <1>1, FS_AddElement
<1>3. S \union {Old} \in SUBSET Stored
  BY ServerAssumption DEF IInv, RunsSound, Stored
<1>4. Cardinality(S \union {Old}) <= Cardinality(Stored)
  BY <1>3, StoredFinite, FS_Subset
<1>5. Cardinality(S) \in Nat /\ Cardinality(Stored) \in Nat
  BY <1>1, StoredFinite, FS_CardinalityType
<1>6. \A m, n \in Nat : m + 1 <= n => m < n
  OBVIOUS
<1> QED
  BY <1>2, <1>4, <1>5, <1>6

\* As long as nobody finishes a run as created, what is counted as created was
\* recorded as such, or posted.
LEMMA CreatedAreStored ==
    ASSUME IInv, Serving, AllLasting
    PROVE  recorded[Created] < Cardinality(Stored) + Cardinality(Retries)
<1> DEFINE fresh == {b \in Counted(Created) : request[b].op = "record"}
<1>1. ASSUME NEW b \in Counted(Created)
      PROVE  (b \in fresh /\ runs[b] # NoRun) \/ b \in Retries
  <2>1. /\ b \in Callers /\ request[b].op \in Writing /\ request[b].code \in OKCodes
        /\ request[b].status = Created
    BY <1>1 DEF Counted
  <2>2. Served(b) /\ Lasting(b)
    BY <2>1 DEF IInv, AllLasting
  <2>3. request[b].op \in {"record", "post"}
    BY <2>1, <2>2 DEF Served, Lasting, Writing, Terminal, Created, Running, Succeeded, Failed, Cancelled
  <2>4. Happened(b)
    BY <2>1, <2>2 DEF IInv, Effective
  <2>5. CASE request[b].op = "record"
    BY <1>1, <2>4, <2>5 DEF Happened, Target
  <2>6. CASE request[b].op = "post"
    BY <2>1, <2>6 DEF Retries
  <2> QED
    BY <2>3, <2>5, <2>6
<1>2. fresh \in SUBSET Callers
  BY DEF Counted
<1>3. ASSUME NEW b \in fresh PROVE runs[b] # NoRun
  <2>1. b \notin Retries
    BY <1>3 DEF Retries
  <2> QED
    BY <1>1, <1>3, <2>1
<1> HIDE DEF fresh
<1>4. Cardinality(fresh) \in Nat /\ Cardinality(fresh) < Cardinality(Stored)
  BY <1>2, <1>3, LedgerLarger
<1>5. IsFiniteSet(fresh) /\ IsFiniteSet(Retries) /\ Cardinality(Retries) \in Nat
  BY <1>2, ServerAssumption, FS_Subset, RetriesFinite
<1>6. /\ IsFiniteSet(fresh \union Retries)
      /\ Cardinality(fresh \union Retries)
            = Cardinality(fresh) + Cardinality(Retries) - Cardinality(fresh \cap Retries)
  BY <1>5, FS_Union
<1>7. Cardinality(fresh \cap Retries) \in Nat
  <2>1. fresh \cap Retries \in SUBSET fresh
    OBVIOUS
  <2> QED
    BY <1>5, <2>1, FS_Subset, FS_CardinalityType
<1>8. Counted(Created) \in SUBSET (fresh \union Retries)
  BY <1>1
<1>9. /\ Cardinality(Counted(Created)) <= Cardinality(fresh \union Retries)
      /\ Cardinality(Counted(Created)) \in Nat /\ Cardinality(fresh \union Retries) \in Nat
  BY <1>6, <1>8, FS_Subset, FS_CardinalityType
<1>10. recorded[Created] = Cardinality(Counted(Created))
  BY DEF IInv, Exact, Serving, Statuses
<1>11. Cardinality(Stored) \in Nat
  BY StoredFinite
<1>12. \A i, k, l, m, n, s \in Nat : i <= k /\ k = l + m - n /\ l < s => i < s + m
  OBVIOUS
<1> QED
  BY <1>4, <1>5, <1>6, <1>7, <1>9, <1>10, <1>11, <1>12

\* The counters of the registry are rendered.
LEMMA ScrapeCountersKeeps ==
    ASSUME IInv, NEW c \in Callers, ScrapeCounters(c)
    PROVE  IInv'
<1>0. request \in [Callers -> Requests] /\ recorded \in [Statuses -> Nat] /\ Served(c)
  BY DEF IInv, TypeInv
<1> DEFINE body == [recorded |-> recorded, runs |-> 0]
<1>1. body \in Scrapes /\ body \in Bodies /\ body.recorded = recorded
  <2>1. body \in Scrapes /\ body.recorded = recorded
    BY <1>0 DEF Scrapes
  <2> HIDE DEF body
  <2> QED
    BY <2>1, Zenon DEF Bodies
<1>2. /\ Serving /\ proc' = proc /\ closed' = closed /\ exit' = exit /\ runs' = runs
      /\ recorded' = recorded /\ request[c].pc = "sent" /\ request[c].op = "metrics"
      /\ request' = [request EXCEPT ![c].pc = "gauge", ![c].body = body]
  BY DEF ScrapeCounters, process
<1> HIDE DEF body
<1>3. "gauge" \in Phases
  BY DEF Phases
<1>4. Becomes(c, "gauge", request[c].code, request[c].count, body)
  BY <1>0, <1>1, <1>2, <1>3, Wrote
<1>5. HandlerMoves(c)
  BY <1>2, <1>4 DEF HandlerMoves, Becomes
<1>6. Exact'
  BY <1>2, <1>5, ExactStays
<1>7. Served(c)'
  BY <1>0, <1>2, <1>4 DEF Served, Becomes, SameCall, Writing
<1>8. NotBehind(c)'
  <2>1. /\ request'[c].pc = "gauge" /\ request'[c].code = 0 /\ request'[c].body = body
        /\ request'[c].before = request[c].before
    BY <1>0, <1>2, <1>4 DEF Becomes, Served, SameCall
  <2>2. ~Scraped(c)'
    BY <2>1 DEF Scraped, OKCodes
  <2>3. ASSUME NEW s \in Statuses
        PROVE  request'[c].body.recorded[s] >= Cardinality(Reported(c, s)')
    <3>1. Reported(c, s)' = Reported(c, s)
      <4>1. request[c].before \subseteq Callers
        BY <1>0 DEF Requests
      <4>2. \A b \in Callers : request'[b].op = request[b].op /\ request'[b].status = request[b].status
        BY <1>5 DEF HandlerMoves, SameCall
      <4> QED
        BY <2>1, <4>1, <4>2 DEF Reported
    <3> QED
      BY <1>1, <1>2, <2>1, <3>1, ReportsCounted
  <2>4. ASSUME AllLasting'
        PROVE  request'[c].body.recorded[Created] < Cardinality(Stored') + Cardinality(Retries')
    <3>1. AllLasting
      BY <1>5, <2>4 DEF AllLasting, Lasting, HandlerMoves, SameCall
    <3>2. Stored' = Stored
      BY <1>2 DEF Stored
    <3>3. Retries' = Retries
      BY <1>5 DEF HandlerMoves, SameCall, Retries
    <3> QED
      BY <1>1, <1>2, <2>1, <3>1, <3>2, <3>3, CreatedAreStored
  <2> QED
    BY <1>1, <2>1, <2>2, <2>3, <2>4 DEF NotBehind
<1> QED
  BY <1>0, <1>2, <1>5, <1>6, <1>7, <1>8, HandlerKeeps

\* The gauge of runs is read, or the store fails.
LEMMA ScrapeGaugeKeeps ==
    ASSUME IInv, NEW c \in Callers, ScrapeGauge(c)
    PROVE  IInv'
<1>0. /\ request \in [Callers -> Requests] /\ recorded \in [Statuses -> Nat]
      /\ Served(c) /\ NotBehind(c)
  BY DEF IInv, TypeInv
<1>1. /\ Serving /\ proc' = proc /\ closed' = closed /\ exit' = exit /\ runs' = runs
      /\ recorded' = recorded /\ request[c].pc = "gauge"
  BY DEF ScrapeGauge, process, registry
<1>2. PICK n \in {-1, Cardinality(Stored)} :
          request' = [request EXCEPT ![c].pc = "write", ![c].body.runs = n]
  BY DEF ScrapeGauge
<1>3. n \in Int
  BY <1>2, StoredFinite
<1> DEFINE body == [request[c].body EXCEPT !.runs = n]
<1>4. request[c].body \in Scrapes
  BY <1>0, <1>1 DEF NotBehind
<1>5. body \in Scrapes /\ body.recorded = request[c].body.recorded /\ body.runs = n
  BY <1>3, <1>4 DEF Scrapes
<1>6. request' = [request EXCEPT ![c].pc = "write", ![c].body = body]
  BY <1>0, <1>2
<1> HIDE DEF body
<1>7. "write" \in Phases /\ body \in Bodies
  BY <1>5, Zenon DEF Phases, Bodies
<1>8. Becomes(c, "write", request[c].code, request[c].count, body)
  BY <1>0, <1>6, <1>7, Wrote
<1>9. request[c].op = "metrics"
  BY <1>0, <1>1 DEF Served
<1>10. HandlerMoves(c)
  BY <1>1, <1>8, <1>9 DEF HandlerMoves, Becomes
<1>11. Exact'
  BY <1>1, <1>9, <1>10, ExactStays
<1>12. Served(c)'
  BY <1>0, <1>1, <1>8, <1>9 DEF Served, Becomes, SameCall, Writing
<1>13. NotBehind(c)'
  <2>1. /\ request'[c].pc = "write" /\ request'[c].code = 0 /\ request'[c].body = body
        /\ request'[c].before = request[c].before
    BY <1>0, <1>1, <1>8 DEF Becomes, Served, SameCall
  <2>2. ~Scraped(c)'
    BY <2>1 DEF Scraped, OKCodes
  <2>3. /\ request[c].before \subseteq Callers
        /\ \A b \in Callers : request'[b].op = request[b].op /\ request'[b].status = request[b].status
    BY <1>0, <1>10 DEF HandlerMoves, SameCall, Requests
  <2>4. ASSUME NEW s \in Statuses
        PROVE  request'[c].body.recorded[s] >= Cardinality(Reported(c, s)')
    <3>1. Reported(c, s)' = Reported(c, s)
      BY <2>1, <2>3 DEF Reported
    <3> QED
      BY <1>0, <1>1, <1>5, <2>1, <3>1 DEF NotBehind
  <2>5. ASSUME n # -1
        PROVE  /\ n >= Cardinality(Added(c)' \union {Old})
               /\ AllLasting' => n + Cardinality(Retries') > body.recorded[Created]
    <3>1. n = Cardinality(Stored) /\ n \in Nat
      BY <1>2, <2>5, StoredFinite
    <3>2. Added(c)' = Added(c)
      <4>1. \A b \in Callers : Target(b)' = Target(b)
        BY <1>10 DEF HandlerMoves, SameCall, Target
      <4> QED
        BY <2>1, <2>3, <4>1 DEF Added
    <3>3. ASSUME NEW b \in Callers, b \in request[c].before, request[b].op \in {"record", "post"}
          PROVE  Target(b) \in Stored
      <4>1. exit[b] = "ok"
        BY <3>3 DEF IInv, Current
      <4>2. Served(b)
        BY DEF IInv
      <4>3. request[b].code \in OKCodes /\ Lasting(b) /\ request[b].op \in Writing
        BY <3>3, <4>1, <4>2 DEF Served, Lasting, Writing
      <4>4. Happened(b)
        BY <4>3 DEF IInv, Effective
      <4>5. Target(b) \in RunIDs
        BY <3>3, <4>2, ServerAssumption DEF Target, Served
      <4> QED
        BY <4>4, <4>5 DEF Happened, Stored
    <3>4. Added(c) \union {Old} \in SUBSET Stored
      BY <2>3, <3>3, ServerAssumption DEF Added, Stored, IInv, RunsSound
    <3>5. /\ Cardinality(Added(c) \union {Old}) \in Nat
          /\ Cardinality(Added(c) \union {Old}) <= Cardinality(Stored)
      BY <3>4, StoredFinite, FS_Subset, FS_CardinalityType
    <3>6. AllLasting' => AllLasting
      BY <2>3 DEF AllLasting, Lasting
    <3>7. AllLasting => body.recorded[Created] < Cardinality(Stored) + Cardinality(Retries)
      BY <1>0, <1>1, <1>5 DEF NotBehind
    <3>8. body.recorded[Created] \in Nat /\ Cardinality(Retries) \in Nat
      BY <1>5, RetriesFinite DEF Scrapes, Statuses
    <3>9. Retries' = Retries
      BY <1>10 DEF HandlerMoves, SameCall, Retries
    <3>10. /\ \A i, j \in Nat : i <= j => j >= i
           /\ \A i, j, k \in Nat : i < j + k => j + k > i
      OBVIOUS
    <3> QED
      BY <3>1, <3>2, <3>5, <3>6, <3>7, <3>8, <3>9, <3>10
  <2> QED
    BY <1>5, <2>1, <2>2, <2>4, <2>5 DEF NotBehind
<1> QED
  BY <1>0, <1>1, <1>10, <1>11, <1>12, <1>13, HandlerKeeps

\* A scrape is over: it panics, or its text goes out.
LEMMA ScrapeEndKeeps ==
    ASSUME IInv, NEW c \in Callers, ScrapePanics(c) \/ ScrapeWrite(c)
    PROVE  IInv'
<1>0. /\ request \in [Callers -> Requests] /\ recorded \in [Statuses -> Nat] /\ Served(c)
  BY DEF IInv, TypeInv
<1>1. /\ Serving /\ proc' = proc /\ closed' = closed /\ exit' = exit /\ runs' = runs
      /\ recorded' = recorded
  BY DEF ScrapePanics, ScrapeWrite, process
<1>2. PICK code \in {200, 500} :
          /\ Becomes(c, "observe", code, request[c].count, request[c].body)
          /\ code = 200 => request[c].pc = "write"
          /\ request[c].pc \in {"gauge", "write"}
  <2>1. "observe" \in Phases /\ 200 \in Codes /\ 500 \in Codes
    BY DEF Phases, Codes, OKCodes
  <2>2. CASE ScrapePanics(c)
    <3>1. /\ request' = [request EXCEPT ![c].pc = "observe", ![c].code = 500]
          /\ request[c].pc = "gauge"
      BY <2>2 DEF ScrapePanics
    <3>2. Becomes(c, "observe", 500, request[c].count, request[c].body)
      BY <1>0, <2>1, <3>1, Answered
    <3> QED
      BY <3>1, <3>2
  <2>3. CASE ScrapeWrite(c)
    <3>1. /\ request' = [request EXCEPT ![c].pc = "observe", ![c].code = 200]
          /\ request[c].pc = "write"
      BY <2>3 DEF ScrapeWrite
    <3>2. Becomes(c, "observe", 200, request[c].count, request[c].body)
      BY <1>0, <2>1, <3>1, Answered
    <3> QED
      BY <3>1, <3>2
  <2> QED
    BY <2>2, <2>3
<1>3. code # 0
  OBVIOUS
<1>4. Becomes(c, "observe", code, request[c].count, request[c].body)
  BY <1>2
<1>5. request[c].op = "metrics"
  BY <1>0, <1>2 DEF Served
<1>6. HandlerMoves(c)
  BY <1>1, <1>4, <1>5 DEF HandlerMoves, Becomes
<1>7. Exact'
  BY <1>1, <1>5, <1>6, ExactStays
<1>8. exit[c] # "ok"
  BY <1>0, <1>2 DEF Served
<1>9. Served(c)'
  BY <1>0, <1>1, <1>2, <1>3, <1>4, <1>5, <1>8 DEF Served, Becomes, SameCall, Writing
<1>10. NotBehind(c)'
  <2>1. Framed
    BY <1>1, <1>4, <1>5 DEF Framed, SameCall, Becomes
  <2>2. Scraped(c)' => request[c].pc = "write"
    BY <1>2, <1>4 DEF Scraped, Becomes, OKCodes
  <2>3. request'[c].pc = "observe" /\ request'[c].body = request[c].body
    BY <1>4 DEF Becomes
  <2> QED
    BY <2>1, <2>2, <2>3, FramedScrape
<1> QED
  BY <1>0, <1>1, <1>6, <1>7, <1>9, <1>10, HandlerKeeps

\* A write is counted under its status, or a failure under its kind.
LEMMA CountKeeps ==
    ASSUME IInv, NEW c \in Callers, Count(c)
    PROVE  IInv'
<1>0. /\ request \in [Callers -> Requests] /\ recorded \in [Statuses -> Nat]
      /\ Served(c) /\ NotBehind(c)
  BY DEF IInv, TypeInv
<1>1. /\ Serving /\ proc' = proc /\ closed' = closed /\ exit' = exit /\ runs' = runs
      /\ request[c].pc = "count"
      /\ request' = [request EXCEPT ![c].pc = "observe"]
  BY DEF Count, process
<1>2. "observe" \in Phases
  BY DEF Phases
<1>3. Becomes(c, "observe", request[c].code, request[c].count, request[c].body)
  BY <1>0, <1>1, <1>2, Moved
<1>4. HandlerMoves(c)
  BY <1>1, <1>3 DEF HandlerMoves, Becomes
<1>5. \/ /\ request[c].op \in Writing /\ request[c].code \in OKCodes
         /\ request[c].status \in Statuses
         /\ request[c].count = [call |-> "RecordRun", label |-> request[c].status]
      \/ request[c].code \notin OKCodes /\ request[c].count.call = "StoreError"
  BY <1>0, <1>1 DEF Served
<1>6. recorded' \in [Statuses -> Nat] /\ Exact'
  <2>1. CASE request[c].code \notin OKCodes /\ request[c].count.call = "StoreError"
    <3>1. recorded' = recorded
      BY <2>1 DEF Count
    <3>2. request'[c].code \notin OKCodes
      BY <1>3, <2>1 DEF Becomes
    <3> QED
      BY <1>0, <1>4, <3>1, <3>2, ExactStays
  <2>2. CASE /\ request[c].op \in Writing /\ request[c].code \in OKCodes
             /\ request[c].status \in Statuses
             /\ request[c].count = [call |-> "RecordRun", label |-> request[c].status]
    <3>1. PICK l \in Statuses : l = request[c].status
      BY <2>2
    <3>2. request[c].count.call = "RecordRun" /\ request[c].count.label = l
      BY <2>2, <3>1
    <3>3. recorded' = [recorded EXCEPT ![l] = @ + 1]
      BY <3>2 DEF Count
    <3>4. recorded' \in [Statuses -> Nat] /\ recorded'[l] = recorded[l] + 1
          /\ \A s \in Statuses \ {l} : recorded'[s] = recorded[s]
      BY <1>0, <3>1, <3>3
    <3>5. \A s \in Statuses : recorded[s] = Cardinality(Counted(s))
      BY <1>1 DEF IInv, Exact, Serving
    <3>6. ASSUME NEW s \in Statuses, s # l
          PROVE  Counted(s)' = Counted(s)
      BY <1>3, <3>1, <3>6 DEF Becomes, SameCall, Counted
    <3>7. c \notin Counted(l) /\ Counted(l) \in SUBSET Callers
      BY <1>1 DEF Counted
    <3>8. Counted(l)' = Counted(l) \union {c}
      <4>1. c \in Counted(l)'
        BY <1>3, <2>2, <3>1 DEF Becomes, SameCall, Counted
      <4>2. ASSUME NEW b \in Callers, b # c
            PROVE  b \in Counted(l)' <=> b \in Counted(l)
        BY <1>3, <4>2 DEF Becomes, Counted
      <4>3. Counted(l)' \subseteq Callers
        BY DEF Counted
      <4> QED
        BY <3>7, <4>1, <4>2, <4>3
    <3>9. Cardinality(Counted(l)') = Cardinality(Counted(l)) + 1
      BY <3>7, <3>8, ServerAssumption, FS_Subset, FS_AddElement
    <3>10. \A s \in Statuses : recorded'[s] = Cardinality(Counted(s)')
      BY <3>4, <3>5, <3>6, <3>9
    <3> QED
      BY <3>4, <3>10 DEF Exact
  <2> QED
    BY <1>5, <2>1, <2>2
<1>7. Served(c)'
  BY <1>0, <1>1, <1>3 DEF Served, Becomes, SameCall
<1>8. NotBehind(c)'
  <2>1. Framed
    BY <1>1, <1>3 DEF Framed, SameCall, Becomes
  <2>2. Scraped(c)' => Scraped(c)
    BY <1>3 DEF Scraped, Becomes, SameCall
  <2>3. request'[c].pc = "observe" /\ request'[c].body = request[c].body
    BY <1>3 DEF Becomes
  <2> QED
    BY <2>1, <2>2, <2>3, FramedScrape
<1> QED
  BY <1>4, <1>6, <1>7, <1>8, HandlerKeeps

\* A request goes out.  It starts with no answer, knowing who has had theirs.
LEMMA SendKeeps ==
    ASSUME IInv, NEW c \in Callers, Send(c)
    PROVE  IInv'
<1>0. /\ request \in [Callers -> Requests] /\ exit \in [Callers -> {"none", "ok", "failed"}]
      /\ Served(c)
  BY DEF IInv, TypeInv
<1>1. /\ proc.phase = "serving" /\ exit[c] = "none" /\ request[c].pc = "idle"
      /\ proc' = proc /\ closed' = closed /\ exit' = exit /\ runs' = runs /\ recorded' = recorded
  BY DEF Send, process, registry
<1>2. PICK r \in Sends[c] :
          /\ r.op = "post" => r.id \in Given \/ runs[r.id] # NoRun
          /\ request' = [request EXCEPT ![c] =
                [pc |-> "sent", op |-> r.op, id |-> r.id, status |-> r.status, code |-> 0,
                 count |-> None, body |-> None, before |-> {b \in Callers : exit[b] = "ok"}]]
  BY DEF Send
<1>3. r \in Request
  BY <1>2, ServerAssumption
<1> DEFINE new == [pc |-> "sent", op |-> r.op, id |-> r.id, status |-> r.status, code |-> 0,
                   count |-> None, body |-> None, before |-> {b \in Callers : exit[b] = "ok"}]
<1>4. request' = [request EXCEPT ![c] = new]
  BY <1>2
<1>5. new \in Requests
  <2>1. r.op \in Ops /\ r.id \in RunIDs \union {None} /\ r.status \in Statuses \union {UnknownStatus, None}
    BY <1>3 DEF Request, Ops
  <2>2. "sent" \in Phases /\ 0 \in Codes /\ None \in Counts /\ None \in Bodies
    BY DEF Phases, Codes, Counts, Bodies
  <2> QED
    BY <2>1, <2>2 DEF Requests
<1>6. /\ new.pc = "sent" /\ new.op = r.op /\ new.id = r.id /\ new.status = r.status
      /\ new.code = 0 /\ new.before = {b \in Callers : exit[b] = "ok"}
  OBVIOUS
<1>7. r.op \in Ops /\ "none" \notin Ops
  BY <1>3 DEF Request, Ops, Writing
<1> HIDE DEF new
<1>8. /\ request' \in [Callers -> Requests] /\ request'[c] = new
      /\ \A b \in Callers \ {c} : request'[b] = request[b]
  BY <1>0, <1>4, <1>5
<1>9. request[c].op = "none" /\ request[c].code = 0
  BY <1>0, <1>1 DEF Served
<1>10. ASSUME NEW b \in Callers
       PROVE  /\ c \notin request[b].before /\ request[b].before \subseteq Callers
              /\ \A d \in request[b].before : exit[d] = "ok" /\ d \in Callers /\ request'[d] = request[d]
  BY <1>0, <1>1, <1>8 DEF IInv, Current, Requests
<1>11. 0 \notin OKCodes
  BY DEF OKCodes
<1>12. TypeInv'
  BY <1>1, <1>8 DEF IInv, TypeInv
<1>13. RunsSound'
  BY <1>1 DEF IInv, RunsSound
<1>14. ASSUME NEW b \in Callers PROVE Served(b)'
  <2>1. CASE b = c
    <3>1. /\ r.op \in {"record", "post"} => r.status \in Statuses
          /\ r.op = "start" => r.status = Running
          /\ r.op = "finish" => r.status # None
          /\ r.op \in {"post", "start", "finish", "show"} => r.id \in RunIDs
      BY <1>2, SendsAssumption
    <3>2. r.op # "none"
      BY <1>7
    <3> QED
      BY <1>1, <1>6, <1>8, <1>11, <2>1, <3>1, <3>2 DEF Served
  <2>2. CASE b # c
    BY <1>1, <1>8, <2>2 DEF IInv, Served
  <2> QED
    BY <2>1, <2>2
<1>15. Effective'
  <2>1. SUFFICES ASSUME NEW b \in Callers, request'[b].op \in Writing,
                        request'[b].code \in OKCodes, Lasting(b)'
        PROVE  Happened(b)'
    BY DEF Effective
  <2>2. b # c
    BY <1>6, <1>8, <1>11, <2>1
  <2>3. request'[b] = request[b]
    BY <1>8, <2>2
  <2>4. Happened(b)
    BY <2>1, <2>3 DEF IInv, Effective, Lasting
  <2> QED
    BY <1>1, <2>3, <2>4 DEF Happened, Target
<1>16. Caused'
  <2>1. ASSUME NEW b \in Callers, request[b].code \in OKCodes
        PROVE  request'[b] = request[b]
    BY <1>8, <1>9, <1>11, <2>1
  <2>2. ASSUME NEW b \in Callers, runs'[b] # NoRun
        PROVE  request'[b].op = "record" /\ request'[b].code \in OKCodes
    BY <1>1, <2>1, <2>2 DEF IInv, Caused
  <2>3. ASSUME NEW id \in RunIDs, runs'[id] # NoRun, runs'[id].endedAt # None
        PROVE  \E b \in Callers : /\ request'[b].op = "finish" /\ request'[b].id = id
                                  /\ request'[b].code \in OKCodes
                                  /\ runs'[id].endedAt = Clock[b]
    <3>1. PICK b \in Callers : /\ request[b].op = "finish" /\ request[b].id = id
                               /\ request[b].code \in OKCodes
                               /\ runs[id].endedAt = Clock[b]
      BY <1>1, <2>3 DEF IInv, Caused
    <3> QED
      BY <1>1, <2>1, <3>1
  <2> QED
    BY <2>2, <2>3 DEF Caused
<1>17. Current'
  <2>1. ASSUME NEW b \in Callers, NEW d \in request'[b].before
        PROVE  exit'[d] = "ok"
    <3>1. CASE b = c
      BY <1>1, <1>6, <1>8, <2>1, <3>1
    <3>2. CASE b # c
      BY <1>1, <1>8, <1>10, <2>1, <3>2
    <3> QED
      BY <3>1, <3>2
  <2>2. ASSUME NEW b \in Callers, request'[b].op \in {"show", "list"}, request'[b].code \in OKCodes,
               NEW d \in request'[b].before, request'[d].op \in Writing
        PROVE  Shows(b, d)'
    <3>1. request'[b] = request[b] /\ b # c
      BY <1>6, <1>8, <1>11, <2>2
    <3>2. request'[d] = request[d]
      BY <1>10, <2>2, <3>1
    <3>3. Shows(b, d)
      BY <2>2, <3>1, <3>2 DEF IInv, Current
    <3> QED
      BY <1>1, <2>2, <3>1, <3>2, <3>3 DEF Shows, Target
  <2> QED
    BY <2>1, <2>2 DEF Current
<1>18. Quiet'
  BY <1>1 DEF IInv, Quiet
<1>19. Exact'
  <2>1. ASSUME NEW s \in Statuses
        PROVE  Counted(s)' = Counted(s)
    <3>1. c \notin Counted(s) /\ c \notin Counted(s)'
      BY <1>1, <1>6, <1>8 DEF Counted
    <3>2. ASSUME NEW b \in Callers, b # c
          PROVE  b \in Counted(s)' <=> b \in Counted(s)
      BY <1>8, <3>2 DEF Counted
    <3>3. Counted(s) \subseteq Callers /\ Counted(s)' \subseteq Callers
      BY DEF Counted
    <3> QED
      BY <3>1, <3>2, <3>3
  <2>2. Exact
    BY DEF IInv
  <2> QED
    BY <1>1, <2>1, <2>2 DEF Exact
<1>20. ASSUME NEW b \in Callers PROVE NotBehind(b)'
  <2>1. CASE b = c
    <3>1. ~Scraped(b)' /\ request'[b].pc = "sent"
      BY <1>6, <1>8, <1>11, <2>1 DEF Scraped
    <3> QED
      BY <3>1 DEF NotBehind
  <2>2. CASE b # c
    <3>1. request'[b] = request[b]
      BY <1>8, <2>2
    <3>2. \A d \in request[b].before : SameCall(d)
      BY <1>10 DEF SameCall
    <3>3. AllLasting' => AllLasting
      <4>1. ASSUME AllLasting', NEW d \in Callers
            PROVE  Lasting(d)
        <5>1. CASE d = c
          BY <1>9, <5>1 DEF Lasting
        <5>2. CASE d # c
          BY <1>8, <4>1, <5>2 DEF AllLasting, Lasting
        <5> QED
          BY <5>1, <5>2
      <4> QED
        BY <4>1 DEF AllLasting
    <3>4. Stored' = Stored
      BY <1>1 DEF Stored
    <3>5. Cardinality(Stored') = Cardinality(Stored) /\ Cardinality(Stored) \in Nat
      BY <3>4, StoredFinite
    <3>6. Cardinality(Stored') \in Nat /\ Cardinality(Stored) <= Cardinality(Stored')
      BY <3>5
    <3>7. Scraped(b)' => Scraped(b)
      BY <3>1 DEF Scraped
    <3>8. Retries \in SUBSET Retries' /\ Retries' \in SUBSET Callers
      BY <1>8, <1>9 DEF Retries
    <3>9. IsFiniteSet(Retries')
      BY <3>8, ServerAssumption, FS_Subset
    <3>10. /\ Cardinality(Retries) <= Cardinality(Retries')
           /\ Cardinality(Retries) \in Nat /\ Cardinality(Retries') \in Nat
      BY <3>8, <3>9, RetriesFinite, FS_Subset, FS_CardinalityType
    <3> QED
      BY <3>1, <3>2, <3>3, <3>5, <3>6, <3>7, <3>10, NotBehindStays
  <2> QED
    BY <2>1, <2>2
<1>21. Known'
  <2>1. SUFFICES ASSUME NEW b \in Callers, request'[b].op = "post"
        PROVE  request'[b].id \in Given \/ runs[request'[b].id] # NoRun
    BY <1>1 DEF Known
  <2>2. CASE b = c
    BY <1>2, <1>6, <1>8, <2>1, <2>2
  <2>3. CASE b # c
    BY <1>8, <2>1, <2>3 DEF IInv, Known
  <2> QED
    BY <2>2, <2>3
<1> QED
  BY <1>12, <1>13, <1>14, <1>15, <1>16, <1>17, <1>18, <1>19, <1>20, <1>21 DEF IInv

-----------------------------------------------------------------------------
(* What the handlers do.                                                   *)

\* The run cmdRecord sends is one the store takes.
LEMMA NewRunSound ==
    ASSUME NEW s \in Statuses
    PROVE  /\ NewRun(s) \in Run /\ NewRun(s) # NoRun
           /\ Validate(NewRun(s))
           /\ NewRun(s).status = s /\ NewRun(s).endedAt = None
<1> DEFINE e == CHOOSE x \in Experiments : TRUE
           v == CHOOSE w \in ProvValues : w # Empty
           i == [experiment |-> e, dirty |-> FALSE, config |-> Empty, params |-> None]
           k == [client |-> "rlctl", names |-> {"host"}, sorted |-> TRUE]
<1>1. e \in Experiments /\ e # Blank /\ v \in ProvValues
  BY RunAssumption
<1>2. i \in Identity
  BY <1>1 DEF Identity
<1>3. Compute(i) \in Fingerprints
  BY <1>2 DEF Fingerprints
<1>4. k \in Captures /\ k # None /\ k.names \subseteq CaptureFields
  <2>1. {"host"} \subseteq CaptureFields
    BY DEF CaptureFields
  <2>2. k \in CaptureDeclaration /\ k.names = {"host"}
    BY <2>1, RunAssumption DEF CaptureDeclaration
  <2> HIDE DEF k
  <2> QED
    BY <2>1, <2>2, NoneAssumption DEF Captures
<1>5. NewRun(s) = [experiment |-> e, dirty |-> FALSE, config |-> Empty, params |-> None,
                   fingerprint |-> Compute(i), status |-> s, startedAt |-> 1, endedAt |-> None,
                   prov |-> [f \in ProvFields |-> v], metrics |-> None, capture |-> k]
  BY DEF NewRun
<1> HIDE DEF e, v, i, k
<1>6. NewRun(s) \in Run
  BY <1>1, <1>3, <1>4, <1>5 DEF Run
<1>7. /\ NewRun(s).experiment = e /\ NewRun(s).status = s /\ NewRun(s).dirty = FALSE
      /\ NewRun(s).endedAt = None /\ NewRun(s).capture = k
  BY <1>5
<1>8. Validate(NewRun(s))
  BY <1>1, <1>4, <1>7 DEF Validate
<1> QED
  BY <1>6, <1>7, <1>8, NoRunAssumption

\* What cmdStart and finishRun send is a patch of the status and the end time.
LEMMA PatchSound ==
    ASSUME IInv, NEW c \in Callers
    PROVE  /\ PatchOf(c) \in Patch
           /\ PatchOf(c).status = request[c].status
           /\ PatchOf(c).endedAt = IF request[c].op = "finish" THEN Clock[c] ELSE None
<1>1. request[c].status \in Statuses \union {UnknownStatus, None}
  BY DEF IInv, TypeInv, Requests
<1>2. Clock[c] \in Nat
  BY ServerAssumption
<1>3. [f \in {} |-> f] \in MapsOver(ProvFields, ProvValues)
  <2>1. [f \in {} |-> f] \in [{} -> ProvValues] /\ {} \in SUBSET ProvFields
    OBVIOUS
  <2> QED
    BY <2>1 DEF MapsOver
<1>4. Untouched \in Patch
  BY <1>3 DEF Untouched, Patch
<1> DEFINE t == IF request[c].op = "finish" THEN Clock[c] ELSE None
<1>5. t \in Nat \union {None}
  BY <1>2
<1>6. PatchOf(c) = [Untouched EXCEPT !.status = request[c].status, !.endedAt = t]
  BY DEF PatchOf
<1> HIDE DEF t
<1> QED
  BY <1>1, <1>4, <1>5, <1>6 DEF Patch, t

\* What comes of a request: it is refused, it reads, it records, it updates.
Declined(out) ==
    /\ out.stored = runs /\ out.body = None
    /\ out.code \in Codes \ (OKCodes \union {0})
    /\ out.count.call \in {"none", "StoreError"} /\ out.count \in Counts

ReadBack(c, out) ==
    /\ request[c].op \notin Writing
    /\ out.stored = runs /\ out.code = 200
    /\ out.count = [call |-> "none", label |-> None]
    /\ out.body \in Bodies
    /\ request[c].op = "show" => out.body = runs[request[c].id] /\ out.body # NoRun
    /\ request[c].op = "list" => out.body.page = Stored \/ out.body.more

Recorded(c, out) ==
    /\ request[c].op \in {"record", "post"}
    /\ runs[Target(c)] \in {NoRun, out.body}
    /\ out.code = 201
    /\ out.count = [call |-> "RecordRun", label |-> request[c].status]
    /\ out.body = NewRun(request[c].status)
    /\ out.stored = [runs EXCEPT ![Target(c)] = out.body]

Updated(c, out) ==
    LET old == runs[request[c].id]
        new == out.body
    IN  /\ request[c].op \in {"start", "finish"}
        /\ out.code = 200
        /\ out.count = [call |-> "RecordRun", label |-> request[c].status]
        /\ out.stored = [runs EXCEPT ![request[c].id] = new]
        /\ old # NoRun
        /\ new \in Run /\ Validate(new)
        /\ new.status = request[c].status /\ request[c].status \in Statuses
        /\ old.status # Created => new.status # Created
        /\ Terminal(old.status) => new = old
        /\ new.endedAt = IF request[c].op = "finish" THEN Clock[c] ELSE old.endedAt

\* An update answered 200 has set the status and, a finish, the end time; it does
\* not move a run back, or a finished one at all.
LEMMA UpdateApplied ==
    ASSUME IInv, NEW c \in Callers, request[c].op \in {"start", "finish"},
           NEW e, e = runs[request[c].id], e # NoRun,
           ApplyPatch(e, PatchOf(c), Clock[c]).err = "nil"
    PROVE  LET new == ApplyPatch(e, PatchOf(c), Clock[c]).run
           IN  /\ new \in Run /\ Validate(new)
               /\ new.status = request[c].status /\ request[c].status \in Statuses
               /\ e.status # Created => new.status # Created
               /\ Terminal(e.status) => new = e
               /\ new.endedAt = IF request[c].op = "finish" THEN Clock[c] ELSE e.endedAt
<1> DEFINE p == PatchOf(c)
           new == ApplyPatch(e, p, Clock[c]).run
<1>1. Served(c) /\ request[c].status # None /\ request[c].id \in RunIDs
  <2>1. Served(c)
    BY DEF IInv
  <2>2. Running # None
    BY NoneAssumption DEF Running, Statuses
  <2> QED
    BY <2>1, <2>2 DEF Served
<1>2. e \in Run /\ Validate(e) /\ e.status \in Statuses
  BY <1>1 DEF IInv, TypeInv, RunsSound
<1>3. p \in Patch /\ p.status = request[c].status
      /\ p.endedAt = IF request[c].op = "finish" THEN Clock[c] ELSE None
  BY PatchSound
<1>4. Clock[c] \in Nat \ {0} /\ Clock[c] # None
  BY ServerAssumption, NoneAssumption
<1> HIDE DEF p
<1>5. /\ new \in Run /\ Validate(new)
      /\ Terminal(e.status) => new = e
      /\ new.status # e.status => LegalTransition(e.status, new.status)
  BY <1>2, <1>3, <1>4, PatchKeeps DEF p
<1>6. /\ p.status \in Statuses \union {None}
      /\ \/ Terminal(e.status) /\ IsNoopPatch(e, p) /\ new = e
         \/ ~Terminal(e.status) /\ new = Merged(e, p, Clock[c])
  BY PatchOutcome DEF p
<1>7. request[c].status \in Statuses
  BY <1>1, <1>3, <1>6
<1>8. new.status = request[c].status
  <2>1. CASE Terminal(e.status) /\ IsNoopPatch(e, p) /\ new = e
    BY <1>1, <1>3, <2>1 DEF IsNoopPatch
  <2>2. CASE new = Merged(e, p, Clock[c])
    BY <1>1, <1>2, <1>3, <1>4, <1>6, <2>2, MergedFields
  <2> QED
    BY <1>6, <2>1, <2>2
<1> HIDE DEF new
<1>9. e.status # Created => new.status # Created
  BY <1>5 DEF LegalTransition, Terminal, Created, Running, Succeeded, Failed, Cancelled
<1>10. new.endedAt = IF request[c].op = "finish" THEN Clock[c] ELSE e.endedAt
  <2>1. CASE Terminal(e.status) /\ IsNoopPatch(e, p) /\ new = e
    BY <1>3, <1>4, <2>1 DEF IsNoopPatch
  <2>2. CASE new = Merged(e, p, Clock[c]) /\ request[c].op = "finish"
    BY <1>2, <1>3, <1>4, <1>6, <2>2, MergedFields
  <2>3. CASE new = Merged(e, p, Clock[c]) /\ request[c].op = "start"
    <3>1. p.endedAt = None /\ p.status = Running /\ p.status # None
      BY <1>1, <1>3, <2>3 DEF Served
    <3>2. ~Terminal(p.status)
      BY <3>1 DEF Terminal, Running, Succeeded, Failed, Cancelled
    <3>3. Merged(e, p, Clock[c]).endedAt = e.endedAt
      BY <1>2, <3>1, <3>2 DEF Merged, Run
    <3> QED
      BY <2>3, <3>3
  <2> QED
    BY <1>6, <2>1, <2>2, <2>3
<1> QED
  BY <1>5, <1>7, <1>8, <1>9, <1>10 DEF new, p

\* Each handler comes to one of the four.
LEMMA UpdateOutcome ==
    ASSUME IInv, NEW c \in Callers, request[c].op \in {"start", "finish"},
           NEW failing \in BOOLEAN
    PROVE  Declined(ServeUpdate(c, failing)) \/ Updated(c, ServeUpdate(c, failing))
<1> DEFINE old == runs[request[c].id]
           answer == ApplyPatch(old, PatchOf(c), Clock[c])
           out == ServeUpdate(c, failing)
<1>1. \A err : Declined(UpdateError(err))
  <2>1. /\ 404 \in Codes \ (OKCodes \union {0}) /\ 409 \in Codes \ (OKCodes \union {0})
        /\ 400 \in Codes \ (OKCodes \union {0})
    BY DEF Codes, OKCodes
  <2>2. /\ [call |-> "StoreError", label |-> "not_found"] \in Counts
        /\ [call |-> "StoreError", label |-> "conflict"] \in Counts
        /\ [call |-> "StoreError", label |-> "invalid"] \in Counts
    BY DEF Counts, Labels
  <2>3. /\ Declined(Error(404, "not_found")) /\ Declined(Error(409, "conflict"))
        /\ Declined(Error(400, "invalid"))
    BY <2>1, <2>2 DEF Declined, Error, Answer
  <2> QED
    BY <2>3 DEF UpdateError
<1>2. CASE failing \/ old = NoRun \/ answer.err # "nil"
  <2>1. PICK err : out = UpdateError(err)
    BY <1>2 DEF ServeUpdate, Refused
  <2> QED
    BY <1>1, <2>1
<1>3. CASE ~failing /\ old # NoRun /\ answer.err = "nil"
  <2>1. out = Answer(200, [call |-> "RecordRun", label |-> answer.run.status], answer.run,
                     [runs EXCEPT ![request[c].id] = answer.run])
    BY <1>3 DEF ServeUpdate
  <2>2. /\ answer.run \in Run /\ Validate(answer.run)
        /\ answer.run.status = request[c].status /\ request[c].status \in Statuses
        /\ old.status # Created => answer.run.status # Created
        /\ Terminal(old.status) => answer.run = old
        /\ answer.run.endedAt = IF request[c].op = "finish" THEN Clock[c] ELSE old.endedAt
    BY <1>3, UpdateApplied
  <2> HIDE DEF answer, out
  <2>3. /\ out.code = 200 /\ out.count = [call |-> "RecordRun", label |-> answer.run.status]
        /\ out.body = answer.run
        /\ out.stored = [runs EXCEPT ![request[c].id] = answer.run]
    BY <2>1 DEF Answer
  <2>4. Updated(c, out)
    BY <1>3, <2>2, <2>3 DEF Updated
  <2> QED
    BY <2>4 DEF out
<1> QED
  BY <1>2, <1>3

LEMMA ServeOutcome ==
    ASSUME IInv, NEW c \in Callers, request[c].pc = "sent", request[c].op # "metrics",
           NEW failing \in BOOLEAN, NEW page \in Pages, NEW out, out = Serve(c, failing, page)
    PROVE  Declined(out) \/ ReadBack(c, out) \/ Recorded(c, out) \/ Updated(c, out)
<1>0. /\ 400 \in Codes \ (OKCodes \union {0}) /\ 401 \in Codes \ (OKCodes \union {0})
      /\ 403 \in Codes \ (OKCodes \union {0}) /\ 404 \in Codes \ (OKCodes \union {0})
      /\ 405 \in Codes \ (OKCodes \union {0}) /\ 500 \in Codes \ (OKCodes \union {0})
      /\ 409 \in Codes \ (OKCodes \union {0})
      /\ 503 \in Codes \ (OKCodes \union {0})
  BY DEF Codes, OKCodes
<1>1. ASSUME NEW code \in {400, 401, 403, 404, 405}
      PROVE  Declined(Plain(code, None))
  <2>1. [call |-> "none", label |-> None] \in Counts
    BY DEF Counts, Labels
  <2>2. code \in Codes \ (OKCodes \union {0})
    BY <1>0, <1>1
  <2> QED
    BY <2>1, <2>2 DEF Declined, Plain, Answer
<1>2. ASSUME NEW code \in {400, 404, 409, 500, 503},
             NEW kind \in {"invalid", "not_found", "conflict", "internal", "readyz"}
      PROVE  Declined(Error(code, kind))
  <2>1. [call |-> "StoreError", label |-> kind] \in Counts
    BY <1>2 DEF Counts, Labels
  <2>2. code \in Codes \ (OKCodes \union {0})
    BY <1>0, <1>2
  <2> QED
    BY <2>1, <2>2 DEF Declined, Error, Answer
<1>3. Served(c) /\ request[c].op \in Ops
  <2>1. Served(c) /\ request[c].op \in Ops \union {"none"}
    BY DEF IInv, TypeInv, Requests
  <2> QED
    BY <2>1 DEF Served
<1> DEFINE code == AuthCode(request[c].op, Token[c])
<1>4. code \in {200, 401, 403}
  BY DEF AuthCode
<1>5. CASE code # 200
  <2>1. out = Plain(code, None)
    BY <1>5 DEF Serve
  <2> QED
    BY <1>1, <1>4, <1>5, <2>1
<1>6. CASE code = 200
  <2>1. CASE request[c].op \in {"no_route", "other_method", "malformed"}
    <3>1. out = Plain(404, None) \/ out = Plain(405, None) \/ out = Plain(400, None)
      <4>1. CASE request[c].op = "no_route"
        BY <1>6, <4>1 DEF Serve
      <4>2. CASE request[c].op = "other_method"
        BY <1>6, <4>2 DEF Serve
      <4>3. CASE request[c].op = "malformed"
        BY <1>6, <4>3 DEF Serve
      <4> QED
        BY <2>1, <4>1, <4>2, <4>3
    <3> QED
      BY <1>1, <3>1
  <2>2. CASE request[c].op \in {"healthz", "readyz"}
    <3>1. out = Plain(200, None) \/ out = Error(503, "readyz")
      <4>1. CASE request[c].op = "healthz"
        BY <1>6, <4>1 DEF Serve
      <4>2. CASE request[c].op = "readyz"
        <5>1. out = ServeReadyz(failing)
          BY <1>6, <4>2 DEF Serve
        <5> QED
          BY <5>1 DEF ServeReadyz
      <4> QED
        BY <2>2, <4>1, <4>2
    <3>2. None \in Bodies
      BY DEF Bodies
    <3>3. request[c].op \notin Writing \union {"show", "list"}
      BY <2>2 DEF Writing
    <3>4. ReadBack(c, Plain(200, None))
      BY <3>2, <3>3 DEF ReadBack, Plain, Answer
    <3> QED
      BY <1>2, <3>1, <3>4
  <2>3. CASE request[c].op \in {"record", "post"}
    <3>1. out = ServeRecord(c, failing)
      BY <1>6, <2>3 DEF Serve
    <3>2. request[c].status \in Statuses
      BY <1>3, <2>3 DEF Served
    <3>3. NewRun(request[c].status).status = request[c].status
      BY <3>2, NewRunSound
    <3>4. CASE failing
      BY <1>2, <3>1, <3>4 DEF ServeRecord
    <3>5. CASE ~failing /\ runs[Target(c)] \notin {NoRun, NewRun(request[c].status)}
      BY <1>2, <3>1, <3>5 DEF ServeRecord
    <3>6. CASE ~failing /\ runs[Target(c)] \in {NoRun, NewRun(request[c].status)}
      <4>1. out = Answer(201, [call |-> "RecordRun", label |-> request[c].status],
                         NewRun(request[c].status),
                         [runs EXCEPT ![Target(c)] = NewRun(request[c].status)])
        BY <3>1, <3>3, <3>6 DEF ServeRecord
      <4> QED
        BY <2>3, <3>6, <4>1 DEF Recorded, Answer
    <3> QED
      BY <3>4, <3>5, <3>6
  <2>4. CASE request[c].op \in {"start", "finish"}
    <3>1. out = ServeUpdate(c, failing)
      BY <1>6, <2>4 DEF Serve
    <3> QED
      BY <2>4, <3>1, UpdateOutcome
  <2>5. CASE request[c].op = "show"
    <3>1. out = ServeGet(c, failing)
      BY <1>6, <2>5 DEF Serve
    <3>2. CASE failing \/ runs[request[c].id] = NoRun
      <4>1. out = Error(500, "internal") \/ out = Error(404, "not_found")
        BY <3>1, <3>2 DEF ServeGet
      <4> QED
        BY <1>2, <4>1
    <3>3. CASE ~failing /\ runs[request[c].id] # NoRun
      <4>1. out = Plain(200, runs[request[c].id])
        BY <3>1, <3>3 DEF ServeGet
      <4>2. request[c].id \in RunIDs
        BY <1>3, <2>5 DEF Served
      <4>3. runs[request[c].id] \in Bodies
        BY <3>3, <4>2 DEF Bodies, IInv, TypeInv
      <4>4. request[c].op \notin Writing /\ request[c].op # "list"
        BY <2>5 DEF Writing
      <4> QED
        BY <3>3, <4>1, <4>3, <4>4 DEF ReadBack, Plain, Answer
    <3> QED
      BY <3>2, <3>3
  <2>6. CASE request[c].op = "list"
    <3> DEFINE body == [page |-> page, more |-> Cardinality(Stored) > Limit]
    <3>1. out = Error(500, "internal") \/ out = Plain(200, body)
      <4>1. out = ServeList(failing, page)
        BY <1>6, <2>6 DEF Serve
      <4> QED
        BY <4>1 DEF ServeList
    <3>2. body \in Bodies /\ (body.page = Stored \/ body.more)
      <4>1. page \in SUBSET RunIDs
        BY DEF Pages, Stored
      <4>2. body \in Lists
        BY <4>1 DEF Lists
      <4>3. Cardinality(Stored) <= Limit \/ Cardinality(Stored) > Limit
        BY StoredFinite, ServerAssumption
      <4>4. body.page = Stored \/ body.more
        BY <4>3 DEF Pages
      <4> HIDE DEF body
      <4> QED
        BY <4>2, <4>4, Zenon DEF Bodies
    <3> HIDE DEF body
    <3>3. request[c].op \notin Writing /\ request[c].op # "show"
      BY <2>6 DEF Writing
    <3>4. ReadBack(c, Plain(200, body))
      BY <3>2, <3>3 DEF ReadBack, Plain, Answer
    <3> QED
      BY <1>2, <3>1, <3>4
  <2> QED
    BY <1>3, <2>1, <2>2, <2>3, <2>4, <2>5, <2>6 DEF Ops, Writing
<1> QED
  BY <1>5, <1>6

Comes(c, out) == Declined(out) \/ ReadBack(c, out) \/ Recorded(c, out) \/ Updated(c, out)

\* Whatever comes of a request, the ledger is sound and what was written stays.
LEMMA LedgerMoves ==
    ASSUME IInv, NEW c \in Callers, request[c].pc = "sent", NEW out, Comes(c, out),
           runs' = out.stored
    PROVE  /\ runs' \in [RunIDs -> Run \union {NoRun}]
           /\ RunsSound'
           /\ Ahead
           /\ \A b \in Callers : runs'[b] # NoRun =>
                 runs[b] # NoRun \/ (b = c /\ Recorded(c, out) /\ request[c].op = "record")
           /\ \A id \in RunIDs : runs'[id] # NoRun /\ runs'[id].endedAt # None =>
                 \/ runs[id] # NoRun /\ runs[id].endedAt = runs'[id].endedAt
                 \/ /\ Updated(c, out) /\ request[c].op = "finish" /\ request[c].id = id
                    /\ runs'[id].endedAt = Clock[c]
<1>0. /\ runs \in [RunIDs -> Run \union {NoRun}] /\ RunsSound /\ Served(c)
      /\ c \in RunIDs /\ Old \in RunIDs
  BY ServerAssumption DEF IInv, TypeInv
<1>1. CASE Declined(out) \/ ReadBack(c, out)
  <2>1. runs' = runs
    BY <1>1 DEF Declined, ReadBack
  <2> QED
    BY <1>0, <2>1 DEF RunsSound, Ahead
<1>2. CASE Recorded(c, out)
  <2>1. request[c].status \in Statuses
    BY <1>0, <1>2 DEF Recorded, Served
  <2> DEFINE new == NewRun(request[c].status)
  <2>2. new \in Run /\ new # NoRun /\ Validate(new) /\ new.status \in Statuses /\ new.endedAt = None
    BY <2>1, NewRunSound
  <2> DEFINE id == Target(c)
  <2>3. runs' = [runs EXCEPT ![id] = new] /\ runs[id] \in {NoRun, new}
    BY <1>2 DEF Recorded
  <2>4. id \in RunIDs
    BY <1>0, <1>2 DEF Recorded, Served, Target
  <2>5. ASSUME NEW b \in Callers, b = id
        PROVE  runs[b] # NoRun \/ (b = c /\ request[c].op = "record")
    BY <1>2, <2>5, ServerAssumption DEF IInv, Known, Recorded, Target
  <2> HIDE DEF id, new
  <2>6. runs'[id] = new /\ \A i \in RunIDs \ {id} : runs'[i] = runs[i]
    BY <1>0, <2>3, <2>4
  <2>7. runs' \in [RunIDs -> Run \union {NoRun}]
    BY <1>0, <2>2, <2>3
  <2>8. RunsSound'
    BY <1>0, <2>2, <2>6 DEF RunsSound
  <2>9. Ahead
    BY <2>3, <2>6 DEF Ahead
  <2>10. \A b \in Callers : runs'[b] # NoRun =>
             runs[b] # NoRun \/ (b = c /\ request[c].op = "record")
    BY <2>5, <2>6, ServerAssumption
  <2>11. \A i \in RunIDs : runs'[i] # NoRun /\ runs'[i].endedAt # None =>
             runs[i] # NoRun /\ runs[i].endedAt = runs'[i].endedAt
    BY <2>2, <2>6
  <2> QED
    BY <1>2, <2>7, <2>8, <2>9, <2>10, <2>11
<1>3. CASE Updated(c, out)
  <2> DEFINE id == request[c].id
             new == out.body
  <2>1. id \in RunIDs
    BY <1>0, <1>3 DEF Updated, Served
  <2>2. /\ runs' = [runs EXCEPT ![id] = new] /\ runs[id] # NoRun
        /\ new \in Run /\ Validate(new) /\ new.status \in Statuses
        /\ runs[id].status # Created => new.status # Created
        /\ Terminal(runs[id].status) => new = runs[id]
        /\ new.endedAt = IF request[c].op = "finish" THEN Clock[c] ELSE runs[id].endedAt
    BY <1>3 DEF Updated
  <2>3. new # NoRun
    BY <2>2, NoRunAssumption
  <2> HIDE DEF id, new
  <2>4. runs'[id] = new /\ \A i \in RunIDs \ {id} : runs'[i] = runs[i]
    BY <1>0, <2>1, <2>2
  <2>5. runs' \in [RunIDs -> Run \union {NoRun}]
    BY <1>0, <2>1, <2>2
  <2>6. RunsSound'
    BY <1>0, <2>1, <2>2, <2>3, <2>4 DEF RunsSound
  <2>7. Ahead
    BY <2>1, <2>2, <2>3, <2>4 DEF Ahead
  <2>8. \A b \in Callers : runs'[b] # NoRun => runs[b] # NoRun
    BY <2>2, <2>4, ServerAssumption
  <2>9. ASSUME NEW i \in RunIDs, runs'[i] # NoRun, runs'[i].endedAt # None
        PROVE  \/ runs[i] # NoRun /\ runs[i].endedAt = runs'[i].endedAt
               \/ /\ Updated(c, out) /\ request[c].op = "finish" /\ request[c].id = i
                  /\ runs'[i].endedAt = Clock[c]
    <3>1. CASE i # id
      BY <2>4, <2>9, <3>1
    <3>2. CASE i = id
      BY <1>3, <2>2, <2>4, <3>2 DEF id
    <3> QED
      BY <3>1, <3>2
  <2> QED
    BY <2>5, <2>6, <2>7, <2>8, <2>9
<1> QED
  BY <1>1, <1>2, <1>3 DEF Comes

\* The handler's answer is what becomes of the request.
LEMMA HandleOutcome ==
    ASSUME IInv, NEW c \in Callers, Handle(c)
    PROVE  \E out, pc :
              /\ Comes(c, out)
              /\ runs' = out.stored
              /\ pc = IF out.count.call = "none" THEN "observe" ELSE "count"
              /\ Becomes(c, pc, out.code, out.count, out.body)
<1>0. request \in [Callers -> Requests] /\ Served(c)
  BY DEF IInv, TypeInv
<1>1. request[c].pc = "sent" /\ request[c].op # "metrics"
  BY DEF Handle
<1>2. PICK failing \in BOOLEAN, page \in Pages : Handled(c, Serve(c, failing, page))
  BY DEF Handle
<1>3. PICK out : out = Serve(c, failing, page)
  OBVIOUS
<1>4. Comes(c, out)
  BY <1>1, <1>3, ServeOutcome DEF Comes
<1>5. PICK pc : pc = IF out.count.call = "none" THEN "observe" ELSE "count"
  OBVIOUS
<1>6. pc \in Phases
  BY <1>5 DEF Phases
<1>7. out.code \in Codes /\ out.count \in Counts /\ out.body \in Bodies
  <2>1. 200 \in Codes /\ 201 \in Codes /\ None \in Bodies
    BY DEF Codes, OKCodes, Bodies
  <2>2. /\ \A s \in Statuses : [call |-> "RecordRun", label |-> s] \in Counts
        /\ [call |-> "none", label |-> None] \in Counts
    BY DEF Counts, Labels
  <2>3. \A r \in Run : r \in Bodies
    BY DEF Bodies
  <2>4. CASE Declined(out)
    BY <2>1, <2>4 DEF Declined
  <2>5. CASE ReadBack(c, out)
    BY <2>1, <2>2, <2>5 DEF ReadBack
  <2>6. CASE Recorded(c, out)
    <3>1. request[c].status \in Statuses
      BY <1>0, <2>6 DEF Served, Recorded
    <3> QED
      BY <2>1, <2>2, <2>3, <2>6, <3>1, NewRunSound DEF Recorded
  <2>7. CASE Updated(c, out)
    BY <2>1, <2>2, <2>3, <2>7 DEF Updated
  <2> QED
    BY <1>4, <2>4, <2>5, <2>6, <2>7 DEF Comes
<1>8. runs' = out.stored
  BY <1>2, <1>3 DEF Handled
<1>9. request' = [request EXCEPT ![c].pc = pc, ![c].code = out.code,
                                 ![c].count = out.count, ![c].body = out.body]
  BY <1>2, <1>3, <1>5 DEF Handled
<1>10. Becomes(c, pc, out.code, out.count, out.body)
  BY <1>0, <1>6, <1>7, <1>9, Through
<1> QED
  BY <1>4, <1>5, <1>8, <1>10

\* A handler does its work.
LEMMA HandleKeeps ==
    ASSUME IInv, NEW c \in Callers, Handle(c)
    PROVE  IInv'
<1>0. /\ request \in [Callers -> Requests] /\ Served(c)
      /\ request[c].pc = "sent" /\ request[c].op # "metrics"
      /\ Serving /\ proc' = proc /\ closed' = closed /\ exit' = exit /\ recorded' = recorded
      /\ Callers \subseteq RunIDs
  BY ServerAssumption DEF Handle, process, registry, IInv, TypeInv
<1>1. PICK out, pc :
          /\ Comes(c, out)
          /\ runs' = out.stored
          /\ pc = IF out.count.call = "none" THEN "observe" ELSE "count"
          /\ Becomes(c, pc, out.code, out.count, out.body)
  BY HandleOutcome
<1>2. /\ runs' \in [RunIDs -> Run \union {NoRun}]
      /\ RunsSound'
      /\ Ahead
      /\ \A b \in Callers : runs'[b] # NoRun =>
            runs[b] # NoRun \/ (b = c /\ Recorded(c, out) /\ request[c].op = "record")
      /\ \A id \in RunIDs : runs'[id] # NoRun /\ runs'[id].endedAt # None =>
            \/ runs[id] # NoRun /\ runs[id].endedAt = runs'[id].endedAt
            \/ /\ Updated(c, out) /\ request[c].op = "finish" /\ request[c].id = id
               /\ runs'[id].endedAt = Clock[c]
  BY <1>0, <1>1, LedgerMoves
<1>3. /\ request' \in [Callers -> Requests]
      /\ \A b \in Callers \ {c} : request'[b] = request[b]
      /\ \A b \in Callers : SameCall(b)
      /\ request'[c].pc = pc /\ request'[c].code = out.code
      /\ request'[c].count = out.count /\ request'[c].body = out.body
  BY <1>1 DEF Becomes, SameCall
<1>4. request[c].code = 0 /\ 0 \notin OKCodes /\ 200 \in OKCodes /\ 201 \in OKCodes /\ exit[c] # "ok"
  BY <1>0 DEF Served, OKCodes
<1>5. /\ out.code # 0
      /\ request[c].op \in Writing /\ out.code \in OKCodes =>
            /\ Recorded(c, out) \/ Updated(c, out)
            /\ request[c].status \in Statuses
            /\ out.count = [call |-> "RecordRun", label |-> request[c].status]
      /\ \/ out.count.call = "none"
         \/ out.code \notin OKCodes /\ out.count.call = "StoreError"
         \/ request[c].op \in Writing /\ out.code \in OKCodes
      /\ request[c].op \in {"show", "list"} /\ out.code \in OKCodes => ReadBack(c, out)
  <2>1. CASE Declined(out)
    BY <2>1 DEF Declined
  <2>2. CASE ReadBack(c, out)
    BY <1>4, <2>2 DEF ReadBack
  <2>3. CASE Recorded(c, out)
    BY <1>0, <1>4, <2>3 DEF Recorded, Served, Writing
  <2>4. CASE Updated(c, out)
    BY <1>4, <2>4 DEF Updated, Writing
  <2> QED
    BY <1>1, <2>1, <2>2, <2>3, <2>4 DEF Comes
<1>6. TypeInv'
  BY <1>0, <1>2, <1>3 DEF IInv, TypeInv
<1>7. ASSUME NEW b \in Callers PROVE Served(b)'
  <2>1. CASE b # c
    BY <1>0, <1>3, <2>1 DEF IInv, Served
  <2>2. CASE b = c
    <3>1. pc \in {"observe", "count"}
      BY <1>1
    <3>2. pc = "count" =>
             \/ /\ request[c].op \in Writing /\ out.code \in OKCodes /\ request[c].status \in Statuses
                /\ out.count = [call |-> "RecordRun", label |-> request[c].status]
             \/ out.code \notin OKCodes /\ out.count.call = "StoreError"
      BY <1>1, <1>5
    <3>3. request[c].op # "none"
      BY <1>0 DEF Served
    <3>4. request[c].op \in Writing /\ out.code \in OKCodes => request[c].status \in Statuses
      BY <1>5
    <3>5. SameCall(c) /\ out.code # 0
      BY <1>3, <1>5
    <3> QED
      BY <1>0, <1>3, <1>4, <2>2, <3>1, <3>2, <3>3, <3>4, <3>5 DEF Served, SameCall
  <2> QED
    BY <2>1, <2>2
<1>8. Effective'
  <2>1. SUFFICES ASSUME NEW b \in Callers, request'[b].op \in Writing,
                        request'[b].code \in OKCodes, Lasting(b)'
        PROVE  Happened(b)'
    BY DEF Effective
  <2>2. CASE b # c
    <3>1. request'[b] = request[b] /\ SameCall(b) /\ Served(b)
      BY <1>3, <2>2 DEF IInv
    <3>2. Lasting(b) /\ request[b].op \in Writing /\ request[b].code \in OKCodes
      BY <2>1, <3>1 DEF Lasting
    <3>3. Happened(b)
      BY <3>2 DEF IInv, Effective
    <3> QED
      BY <1>0, <1>2, <3>1, <3>2, <3>3, HappenedStays
  <2>3. CASE b = c
    <3>1. /\ request'[c].op = request[c].op /\ request'[c].id = request[c].id
          /\ request'[c].status = request[c].status
      BY <1>3 DEF SameCall
    <3>2. Recorded(c, out) \/ Updated(c, out)
      BY <1>3, <1>5, <2>1, <2>3, <3>1
    <3>3. CASE Recorded(c, out)
      <4>1. request[c].status \in Statuses /\ request[c].op \in {"record", "post"}
        BY <1>0, <3>3 DEF Recorded, Served
      <4>2. Target(c) \in RunIDs /\ Target(c)' = Target(c)
        BY <1>0, <3>1, <4>1 DEF Served, Target
      <4>3. out.body # NoRun /\ out.body.status = request[c].status
        BY <3>3, <4>1, NewRunSound DEF Recorded
      <4>4. runs'[Target(c)] = out.body
        BY <1>1, <3>3, <4>2 DEF Recorded, IInv, TypeInv
      <4> QED
        BY <2>3, <3>1, <4>1, <4>2, <4>3, <4>4 DEF Happened
    <3>4. CASE Updated(c, out)
      <4>1. request[c].id \in RunIDs
        BY <1>0, <3>4 DEF Updated, Served
      <4>2. runs'[request[c].id] = out.body
        BY <1>1, <3>4, <4>1 DEF Updated, IInv, TypeInv
      <4>3. /\ out.body # NoRun /\ out.body.status = request[c].status
            /\ request[c].op = "finish" => out.body.endedAt = Clock[c]
            /\ request[c].op \in {"start", "finish"}
        BY <3>4, NoRunAssumption DEF Updated
      <4>4. request[c].op = "start" => request[c].status # Created
        BY <1>0 DEF Served, Running, Created
      <4>5. Target(c)' = request[c].id
        BY <3>1, <4>3 DEF Target
      <4> QED
        BY <2>3, <3>1, <4>2, <4>3, <4>4, <4>5 DEF Happened
    <3> QED
      BY <3>2, <3>3, <3>4
  <2> QED
    BY <2>2, <2>3
<1>9. Caused'
  <2>1. ASSUME NEW b \in Callers, request[b].code \in OKCodes
        PROVE  request'[b] = request[b]
    BY <1>3, <1>4, <2>1
  <2>2. ASSUME NEW b \in Callers, runs'[b] # NoRun
        PROVE  request'[b].op = "record" /\ request'[b].code \in OKCodes
    <3>1. CASE runs[b] # NoRun
      BY <2>1, <3>1 DEF IInv, Caused
    <3>2. CASE b = c /\ Recorded(c, out) /\ request[c].op = "record"
      BY <1>3, <1>4, <3>2 DEF Recorded, SameCall
    <3> QED
      BY <1>2, <2>2, <3>1, <3>2
  <2>3. ASSUME NEW id \in RunIDs, runs'[id] # NoRun, runs'[id].endedAt # None
        PROVE  \E b \in Callers : /\ request'[b].op = "finish" /\ request'[b].id = id
                                  /\ request'[b].code \in OKCodes
                                  /\ runs'[id].endedAt = Clock[b]
    <3>1. CASE runs[id] # NoRun /\ runs[id].endedAt = runs'[id].endedAt
      <4>1. PICK b \in Callers : /\ request[b].op = "finish" /\ request[b].id = id
                                 /\ request[b].code \in OKCodes
                                 /\ runs[id].endedAt = Clock[b]
        BY <2>3, <3>1 DEF IInv, Caused
      <4> QED
        BY <2>1, <3>1, <4>1
    <3>2. CASE /\ Updated(c, out) /\ request[c].op = "finish" /\ request[c].id = id
               /\ runs'[id].endedAt = Clock[c]
      <4>1. request'[c].op = "finish" /\ request'[c].id = id
        BY <1>3, <3>2 DEF SameCall
      <4>2. request'[c].code \in OKCodes
        BY <1>3, <1>4, <3>2 DEF Updated
      <4> QED
        BY <3>2, <4>1, <4>2
    <3> QED
      BY <1>2, <2>3, <3>1, <3>2
  <2> QED
    BY <2>2, <2>3 DEF Caused
<1>10. Current'
  <2>1. ASSUME NEW b \in Callers, NEW d \in request'[b].before
        PROVE  d \in request[b].before /\ d \in Callers /\ exit[d] = "ok" /\ d # c
    <3>1. d \in request[b].before
      BY <1>3, <2>1 DEF SameCall
    <3>2. exit[d] = "ok"
      BY <3>1 DEF IInv, Current
    <3> QED
      BY <1>0, <1>4, <3>1, <3>2 DEF Requests
  <2>2. ASSUME NEW b \in Callers, request'[b].op \in {"show", "list"}, request'[b].code \in OKCodes,
               NEW d \in request'[b].before, request'[d].op \in Writing
        PROVE  Shows(b, d)'
    <3>1. d \in request[b].before /\ d \in Callers /\ exit[d] = "ok" /\ d # c
      BY <2>1
    <3>2. SameCall(d) /\ SameCall(b) /\ Served(d)
      BY <1>3, <3>1 DEF IInv
    <3>3. request[d].op \in Writing /\ request[d].code \in OKCodes
          /\ request[b].op \in {"show", "list"}
      BY <2>2, <3>1, <3>2 DEF Served, SameCall
    <3>4. Lasting(d) => Happened(d)
      BY <3>1, <3>3 DEF IInv, Effective
    <3>5. CASE b # c
      <4>1. request'[b] = request[b]
        BY <1>3, <3>5
      <4>2. Shows(b, d)
        BY <2>2, <3>1, <3>3, <4>1 DEF IInv, Current
      <4> QED
        BY <1>0, <1>2, <3>1, <3>2, <3>3, <3>4, <4>1, <4>2, ShowsStays
    <3>6. CASE b = c
      <4>1. ReadBack(c, out)
        BY <1>3, <1>5, <2>2, <3>3, <3>6
      <4>2. runs' = runs /\ request'[c].body = out.body
        BY <1>1, <1>3, <4>1 DEF ReadBack
      <4>3. CASE request[c].op = "list"
        <5>1. request'[c].body.page = Stored \/ request'[c].body.more
          BY <4>1, <4>2, <4>3 DEF ReadBack
        <5>2. request[d].op \in {"record", "post"} => Target(d) \in Stored
          BY <1>0, <3>1, <3>2, <3>4 DEF Lasting, Happened, Served, Target, Stored
        <5>3. Target(d)' = Target(d) /\ request'[d].op = request[d].op
          BY <3>2 DEF SameCall, Target
        <5>4. request'[c].op = "list"
          BY <1>3, <4>3 DEF SameCall
        <5> QED
          BY <3>6, <5>1, <5>2, <5>3, <5>4 DEF Shows
      <4>4. CASE request[c].op = "show"
        <5>1. request'[c].body = runs'[request[c].id]
          BY <4>1, <4>2, <4>4 DEF ReadBack
        <5>2. request[d].op = "start" => runs'[Target(d)].status # Created
          BY <3>4, <4>2 DEF Lasting, Happened
        <5>3. request'[c].op = "show" /\ request'[c].id = request[c].id
          BY <1>3, <4>4 DEF SameCall
        <5>4. request'[d].op = request[d].op /\ Target(d)' = Target(d)
          BY <3>2 DEF SameCall, Target
        <5> QED
          BY <3>6, <5>1, <5>2, <5>3, <5>4 DEF Shows
      <4> QED
        BY <3>3, <3>6, <4>3, <4>4
    <3> QED
      BY <3>5, <3>6
  <2> QED
    BY <1>0, <2>1, <2>2 DEF Current
<1>11. Quiet'
  BY <1>0 DEF IInv, Quiet, Serving
<1>12. Exact'
  <2>1. ASSUME NEW s \in Statuses
        PROVE  Counted(s)' = Counted(s)
    <3>1. c \notin Counted(s)
      BY <1>0 DEF Counted
    <3>2. c \notin Counted(s)'
      <4>1. request'[c].op \in Writing /\ request'[c].code \in OKCodes => request'[c].pc = "count"
        BY <1>1, <1>3, <1>5 DEF SameCall
      <4> QED
        BY <4>1 DEF Counted
    <3>3. ASSUME NEW b \in Callers, b # c
          PROVE  b \in Counted(s)' <=> b \in Counted(s)
      BY <1>3, <3>3 DEF Counted
    <3>4. Counted(s) \subseteq Callers /\ Counted(s)' \subseteq Callers
      BY DEF Counted
    <3> QED
      BY <3>1, <3>2, <3>3, <3>4
  <2>2. Exact
    BY DEF IInv
  <2> QED
    BY <1>0, <2>1, <2>2 DEF Exact
<1>13. ASSUME NEW b \in Callers PROVE NotBehind(b)'
  <2>1. CASE b = c
    <3>1. ~Scraped(b)' /\ request'[b].pc \notin {"gauge", "write"}
      BY <1>0, <1>1, <1>3, <2>1 DEF Scraped, SameCall
    <3> QED
      BY <3>1 DEF NotBehind
  <2>2. CASE b # c
    <3>1. request'[b] = request[b]
      BY <1>3, <2>2
    <3>2. \A d \in request[b].before : SameCall(d)
      BY <1>0, <1>3 DEF Requests
    <3>3. AllLasting' => AllLasting
      BY <1>3 DEF AllLasting, Lasting, SameCall
    <3>4. Stored \in SUBSET Stored' /\ Stored' \in SUBSET RunIDs
      BY <1>2 DEF Ahead, Stored
    <3>5. IsFiniteSet(Stored')
      BY <3>4, StoredFinite, FS_Subset
    <3>6. /\ Cardinality(Stored) <= Cardinality(Stored')
          /\ Cardinality(Stored) \in Nat /\ Cardinality(Stored') \in Nat
      BY <3>4, <3>5, StoredFinite, FS_Subset, FS_CardinalityType
    <3>7. Scraped(b)' => Scraped(b)
      BY <3>1 DEF Scraped
    <3>8. Retries' = Retries
      BY <1>3 DEF SameCall, Retries
    <3>9. /\ Cardinality(Retries) <= Cardinality(Retries')
          /\ Cardinality(Retries) \in Nat /\ Cardinality(Retries') \in Nat
      BY <3>8, RetriesFinite
    <3> QED
      BY <3>1, <3>2, <3>3, <3>6, <3>7, <3>9, NotBehindStays
  <2> QED
    BY <2>1, <2>2
<1>14. Known'
  <2>1. SUFFICES ASSUME NEW b \in Callers, request'[b].op = "post"
        PROVE  request'[b].id \in Given \/ runs'[request'[b].id] # NoRun
    BY DEF Known
  <2>2. request[b].op = "post" /\ request'[b].id = request[b].id /\ Served(b)
    BY <1>3, <2>1 DEF SameCall, IInv
  <2>3. request[b].id \in RunIDs
    BY <2>2 DEF Served
  <2>4. request[b].id \in Given \/ runs[request[b].id] # NoRun
    BY <2>2 DEF IInv, Known
  <2> QED
    BY <1>2, <2>2, <2>3, <2>4 DEF Ahead
<1> QED
  BY <1>2, <1>6, <1>7, <1>8, <1>9, <1>10, <1>11, <1>12, <1>13, <1>14 DEF IInv

-----------------------------------------------------------------------------
(* The theorems.                                                           *)

LEMMA ServerInit == Init => IInv
<1> SUFFICES ASSUME Init PROVE IInv
  OBVIOUS
<1>1. /\ Running \in Statuses /\ Old \in RunIDs /\ Callers \subseteq RunIDs
      /\ Given \cap Callers = {}
  BY ServerAssumption DEF Statuses
<1>2. /\ NewRun(Running) \in Run /\ NewRun(Running) # NoRun /\ Validate(NewRun(Running))
      /\ NewRun(Running).status = Running /\ NewRun(Running).endedAt = None
  BY <1>1, NewRunSound
<1>3. PICK old \in SUBSET Given :
          /\ Old \in old
          /\ runs = [id \in RunIDs |-> IF id \in old THEN NewRun(Running) ELSE NoRun]
  BY DEF Init
<1>4. NoRequest \in Requests
  <2>1. "idle" \in Phases /\ 0 \in Codes /\ None \in Counts /\ None \in Bodies
    BY DEF Phases, Codes, Counts, Bodies
  <2> QED
    BY <2>1 DEF Requests, NoRequest
<1>5. \A c \in Callers : request[c] = NoRequest /\ exit[c] = "none"
  BY DEF Init
<1>6. /\ NoRequest.pc = "idle" /\ NoRequest.op = "none" /\ NoRequest.code = 0
      /\ NoRequest.before = {}
  BY DEF NoRequest
<1>7. 0 \notin OKCodes /\ "none" \notin Writing
  BY DEF OKCodes, Writing
<1>8. TypeInv
  <2>1. runs \in [RunIDs -> Run \union {NoRun}]
    BY <1>2, <1>3
  <2>2. request \in [Callers -> Requests]
    BY <1>4 DEF Init
  <2> QED
    BY <2>1, <2>2 DEF Init, TypeInv
<1>9. RunsSound
  BY <1>1, <1>2, <1>3 DEF RunsSound
<1>10. ASSUME NEW c \in Callers PROVE Served(c)
  BY <1>5, <1>6, <1>7 DEF Served
<1>11. Effective
  BY <1>5, <1>6, <1>7 DEF Effective
<1>12. Caused
  BY <1>1, <1>2, <1>3 DEF Caused
<1>13. Current
  BY <1>5, <1>6, <1>7 DEF Current
<1>14. Quiet
  BY DEF Quiet, Init
<1>15. Exact
  <2>1. \A s \in Statuses : Counted(s) = {}
    BY <1>5, <1>6, <1>7 DEF Counted
  <2> QED
    BY <2>1, FS_EmptySet DEF Exact, Init
<1>16. ASSUME NEW c \in Callers PROVE NotBehind(c)
  BY <1>5, <1>6, <1>7 DEF NotBehind, Scraped
<1>17. Known
  BY <1>5, <1>6 DEF Known
<1> QED
  BY <1>8, <1>9, <1>10, <1>11, <1>12, <1>13, <1>14, <1>15, <1>16, <1>17 DEF IInv

\* A step that changes nothing keeps the invariant.
LEMMA ServerStutters ==
    ASSUME IInv, UNCHANGED vars
    PROVE  IInv'
<1>1. /\ proc' = proc /\ closed' = closed /\ runs' = runs /\ request' = request
      /\ exit' = exit /\ recorded' = recorded
  BY DEF vars
<1>2. Framed
  BY <1>1 DEF Framed, SameCall
<1>3. TypeInv'
  BY <1>1 DEF IInv, TypeInv
<1>4. \A c \in Callers : Served(c)'
  BY <1>1 DEF IInv, Served
<1>5. Quiet'
  BY <1>1 DEF IInv, Quiet, InFlight
<1>6. Exact'
  BY <1>1 DEF IInv, Exact, Counted
<1>7. ASSUME NEW c \in Callers PROVE NotBehind(c)'
  BY <1>1, <1>2, FramedScrape DEF Scraped
<1> QED
  BY <1>2, <1>3, <1>4, <1>5, <1>6, <1>7, FramedKeeps DEF IInv

(***************************************************************************)
(* The inductive invariant holds: the ledger is sound, a request's status  *)
(* code says what its handler did, nobody else did it, nothing is in       *)
(* flight when the store is closed, and the counters are exact.            *)
(***************************************************************************)
THEOREM ServerInvariant == Spec => []IInv
<1>1. Init => IInv
  BY ServerInit
<1>2. IInv /\ [Next]_vars => IInv'
  <2>1. SUFFICES ASSUME IInv, [Next]_vars PROVE IInv'
    OBVIOUS
  <2>2. ASSUME NEW c \in Callers, Handler(c) \/ Panic(c) \/ ScrapePanics(c)
        PROVE  IInv'
    BY <2>1, <2>2, HandleKeeps, CountKeeps, ScrapeCountersKeeps, ScrapeGaugeKeeps,
       ScrapeEndKeeps, AnswerKeeps DEF Handler
  <2>3. ASSUME NEW c \in Callers, UsageError(c) \/ Send(c) \/ Receive(c) \/ NoAnswer(c)
        PROVE  IInv'
    BY <2>1, <2>3, CallerEnds, SendKeeps
  <2>4. CASE Main \/ Sigterm \/ ServeFails
    BY <2>1, <2>4, MainMoves
  <2>5. CASE UNCHANGED vars
    BY <2>1, <2>5, ServerStutters
  <2> QED
    BY <2>1, <2>2, <2>3, <2>4, <2>5 DEF Next
<1> QED
  BY <1>1, <1>2, PTL DEF Spec

(***************************************************************************)
(* Exit code 0 means that no accepted request was cut off and that the     *)
(* store was closed, and it is closed only when nobody is left to use it   *)
(* (cmd/runledger, main), for any number of requests in flight.            *)
(***************************************************************************)
THEOREM StopsDrained == Spec => []DrainedExit
<1>1. IInv => DrainedExit
  BY DEF IInv, Quiet, DrainedExit, InFlight
<1> QED
  BY <1>1, ServerInvariant, PTL

(***************************************************************************)
(* An exit status is true: a write that ended with 0 is in the ledger, and  *)
(* with its terminal status for good, whoever posts the same id; a record  *)
(* or finish refused with a 4xx left nothing behind; and a reading command *)
(* sees every write that had ended with 0 before it was sent, a list of    *)
(* one page by saying that there are more (cmd/rlctl, call; internal/api,  *)
(* the handlers), for any number of concurrent commands and of runs, any   *)
(* limit, faults and an end of the server at any moment.                   *)
(***************************************************************************)
THEOREM ExitsTruthful == Spec => []ExitTruthful
<1>1. ASSUME IInv PROVE ExitTruthful
  <2>1. ASSUME NEW c \in Callers
        PROVE  Served(c)
    BY <1>1 DEF IInv
  <2>2. ASSUME NEW c \in Callers, NEW op \in Writing, Succeeds(c, op), Lasting(c)
        PROVE  Happened(c)
    <3>1. request[c].op \in Writing /\ request[c].code \in OKCodes
      BY <2>1, <2>2 DEF Succeeds, Served
    <3> QED
      BY <1>1, <2>2, <3>1 DEF IInv, Effective
  <2>3. ASSUME NEW c \in Callers, ToldNo(c), request[c].op \in {"record", "finish"}, Happened(c)
        PROVE  FALSE
    <3>1. request[c].code \notin OKCodes
      BY <2>3 DEF ToldNo, OKCodes
    <3>2. CASE request[c].op = "record"
      BY <1>1, <2>3, <3>1, <3>2 DEF IInv, Caused, Happened, Target
    <3>3. CASE request[c].op = "finish"
      <4>1. runs[request[c].id] # NoRun /\ runs[request[c].id].endedAt = Clock[c]
        BY <2>3, <3>3 DEF Happened, Target
      <4>2. request[c].id \in RunIDs
        BY <2>1, <3>3 DEF Served
      <4>3. Clock[c] # None
        BY ServerAssumption, NoneAssumption
      <4>4. PICK b \in Callers : request[b].code \in OKCodes /\ Clock[c] = Clock[b]
        BY <1>1, <4>1, <4>2, <4>3 DEF IInv, Caused
      <4>5. b = c
        BY <4>4, ServerAssumption
      <4> QED
        BY <3>1, <4>4, <4>5
    <3> QED
      BY <2>3, <3>2, <3>3
  <2>4. ASSUME NEW c \in Callers, Succeeds(c, "show") \/ Succeeds(c, "list"),
               NEW b \in request[c].before, request[b].op \in Writing
        PROVE  Shows(c, b)
    <3>1. request[c].op \in {"show", "list"} /\ request[c].code \in OKCodes
      BY <2>1, <2>4 DEF Succeeds, Served
    <3> QED
      BY <1>1, <2>4, <3>1 DEF IInv, Current
  <2> QED
    BY <2>2, <2>3, <2>4 DEF ExitTruthful
<1> QED
  BY <1>1, ServerInvariant, PTL

(***************************************************************************)
(* A scrape has counted every write that was answered before it was sent,  *)
(* its gauge has every run they recorded and one from before, and unless   *)
(* somebody finishes a run as created the counter of created runs is ahead *)
(* of it by no more than the posts, which are counted again when they are  *)
(* repeated (internal/metrics, WriteTo; internal/api, record), for any     *)
(* number of writers and scrapes that meet in the registry's mutex.        *)
(***************************************************************************)
THEOREM ScrapesCurrent == Spec => []ScrapeCurrent
<1>1. ASSUME IInv PROVE ScrapeCurrent
  <2>1. SUFFICES ASSUME NEW c \in Callers, Succeeds(c, "metrics")
        PROVE  LET seen    == request[c].body
                   written == {b \in request[c].before : request[b].op \in Writing}
                   added   == {Target(b) : b \in {d \in written : request[d].op \in {"record", "post"}}}
               IN  /\ \A s \in Statuses :
                         seen.recorded[s] >= Cardinality({b \in written : request[b].status = s})
                   /\ seen.runs # -1 =>
                         /\ seen.runs >= Cardinality(added \union {Old})
                         /\ (\A b \in Callers : request[b].op = "finish" => Lasting(b)) =>
                               seen.runs + Cardinality(Retries) > seen.recorded[Created]
    BY DEF ScrapeCurrent
  <2> DEFINE written == {b \in request[c].before : request[b].op \in Writing}
             added == {Target(b) : b \in {d \in written : request[d].op \in {"record", "post"}}}
  <2>2. Served(c) /\ NotBehind(c)
    BY <1>1 DEF IInv
  <2>3. Scraped(c)
    BY <2>1, <2>2 DEF Succeeds, Served, Scraped
  <2>4. \A s \in Statuses : {b \in written : request[b].status = s} = Reported(c, s)
    BY DEF Reported
  <2>5. added = Added(c)
    BY DEF Added, Writing
  <2>6. (\A b \in Callers : request[b].op = "finish" => Lasting(b)) => AllLasting
    BY DEF AllLasting, Lasting
  <2> HIDE DEF added, written
  <2>7. \A s \in Statuses :
            request[c].body.recorded[s] >= Cardinality({b \in written : request[b].status = s})
    BY <2>2, <2>3, <2>4 DEF NotBehind
  <2>8. request[c].body.runs # -1 =>
            /\ request[c].body.runs >= Cardinality(added \union {Old})
            /\ AllLasting => request[c].body.runs + Cardinality(Retries) > request[c].body.recorded[Created]
    BY <2>2, <2>3, <2>5 DEF NotBehind
  <2> QED
    BY <2>6, <2>7, <2>8 DEF written, added
<1> QED
  BY <1>1, ServerInvariant, PTL

=============================================================================
