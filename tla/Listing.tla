------------------------------ MODULE Listing ------------------------------
(***************************************************************************)
(* GET /v1/runs: a client pages through the ledger by cursor while runs    *)
(* are recorded and patched.  List of both backends (internal/store,       *)
(* memory.go and duckdb.go), the handler (internal/api, list) and the      *)
(* encoding of the cursor.  The cursor, and every column and argument of   *)
(* DuckDB, carries a time as int64 nanoseconds, which wrap around; memory  *)
(* compares the times themselves.                                          *)
(***************************************************************************)
EXTENDS Integers, Sequences, FiniteSets, Functions

CONSTANTS
    IDs,            \* run ids, as numbers in their lexical order
    Times,          \* the start times clients give, from the epoch on or before it
    MaxNano,        \* the last instant an int64 of nanoseconds reaches
    Labels,         \* the values, taken together, of the fields a query can filter
                    \* by and a patch can change: status, device, submitter_claim
                    \* and job_id
    Final,          \* those with a terminal status
    Filters,        \* what the equality filters of a query select of them
    MaxListLimit,
    NoRow,          \* no run under this id
    Nil             \* a nil cursor

ASSUME ListingAssumption ==
    /\ IDs \subseteq Nat
    /\ Times \subseteq Int \ {0}
    /\ MaxNano \in Nat
    /\ Filters \subseteq SUBSET Labels /\ Labels \in Filters
    /\ MaxListLimit \in Nat \ {0}
    /\ Nil \notin [t : Int, id : IDs]
    /\ NoRow \notin [startedAt : Times, label : Labels]

VARIABLES
    ledger,         \* id -> start time and label, or NoRow
    reader,         \* the traversal: its query, the cursor and what it has seen
    owed            \* history: runs that have matched the query ever since they
                    \* were ahead of the traversal

listingVars == <<ledger, reader, owed>>

-----------------------------------------------------------------------------
(* store.List.                                                             *)

\* A row's place in the listing: newest first, the id breaking ties.
Row(id) == [t |-> ledger[id].startedAt, id |-> id]

Precedes(a, b) == a.t > b.t \/ (a.t = b.t /\ a.id < b.id)

\* How many rows come before a row, and the rows in order.
RowPlace(rows, r) == Cardinality({x \in rows : Precedes(x, r)})

Sorted(rows) ==
    [i \in 1..Cardinality(rows) |-> CHOOSE r \in rows : RowPlace(rows, r) = i - 1]

\* The filters of a query; Since is inclusive, Until exclusive, zero is none.
Matches(q, r) ==
    /\ r # NoRow
    /\ r.label \in q.labels
    /\ q.since # 0 => r.startedAt >= q.since
    /\ q.until # 0 => r.startedAt < q.until

Matching(q) == {Row(id) : id \in {i \in IDs : Matches(q, ledger[i])}}

\* Fault: a run with the cursor's start time is taken for one already seen.
IsAfterCursorTime(r, c) == c.t > r.t

\* Fault: the cursor's own row is taken to come after it.
IsAtOrAfterCursor(r, c) == IF r.t = c.t THEN r.id >= c.id ELSE r.t < c.t

\* isAfterCursor.
IsAfterCursor(r, c) == IF r.t = c.t THEN r.id > c.id ELSE r.t < c.t

\* paginate.  The slice of rows may be nil, which JSON writes as null.
Paginate(rows, limit) ==
    IF limit <= 0 \/ Len(rows) <= limit
    THEN [rows |-> rows, next |-> Nil, null |-> FALSE]
    ELSE [rows |-> SubSeq(rows, 1, limit), next |-> rows[limit], null |-> FALSE]

\* Memory.List: filter, sort, cut at the first row after the cursor.
MemoryList(q, after, limit) ==
    LET out   == Sorted(Matching(q))
        first == CHOOSE i \in 1..Len(out) + 1 :
                    /\ i <= Len(out) => IsAfterCursor(out[i], after)
                    /\ \A j \in 1..i - 1 : ~IsAfterCursor(out[j], after)
    IN  Paginate(IF after = Nil THEN out ELSE SubSeq(out, first, Len(out)), limit)

\* time.Time.UnixNano, which wraps around.
UnixNano(t) == ((t + MaxNano + 1) % (2 * (MaxNano + 1))) - (MaxNano + 1)

\* A row as its columns hold it and nsToTime reads it back, and its filters.
Column(id) == [t |-> UnixNano(ledger[id].startedAt), id |-> id]

ColumnMatches(q, r) ==
    /\ r # NoRow
    /\ r.label \in q.labels
    /\ q.since # 0 => UnixNano(r.startedAt) >= UnixNano(q.since)
    /\ q.until # 0 => UnixNano(r.startedAt) < UnixNano(q.until)

\* WHERE, with the keyset predicate.
Where(q, after) ==
    {r \in {Column(id) : id \in {i \in IDs : ColumnMatches(q, ledger[i])}} :
        after # Nil => LET ns == UnixNano(after.t)
                       IN  r.t < ns \/ (r.t = ns /\ r.id > after.id)}

\* Fault: the query asks for as many rows as the page holds.
DuckListExact(q, after, limit) ==
    LET all  == Sorted(Where(q, after))
        some == IF limit > 0 /\ Len(all) > limit THEN SubSeq(all, 1, limit) ELSE all
    IN  [Paginate(some, limit) EXCEPT !.null = some = <<>>]

\* DuckDB.List: ORDER BY and LIMIT, one row more than the page.  The slice that no row
\* was appended to is nil.
DuckList(q, after, limit) ==
    LET all  == Sorted(Where(q, after))
        some == IF limit > 0 /\ Len(all) > limit + 1 THEN SubSeq(all, 1, limit + 1) ELSE all
    IN  [Paginate(some, limit) EXCEPT !.null = some = <<>>]

-----------------------------------------------------------------------------
(* api.list.                                                               *)

\* Fault: the client gets what it asks for.
PageSizeAsked(limit) == limit

\* parseLimit: no more than the maximum.
PageSize(limit) == IF limit > MaxListLimit THEN MaxListLimit ELSE limit

\* encodeCursor, then decodeCursor of the next request.
CursorSent(next) == IF next = Nil THEN Nil ELSE [next EXCEPT !.t = UnixNano(@)]

\* A client begins to page through the runs that match a query.
BeginList(q, limit) ==
    /\ reader.pc = "idle"
    /\ reader' = [pc |-> "paging", query |-> q, limit |-> PageSize(limit), after |-> Nil,
                  visited |-> <<>>]
    /\ owed' = {id \in IDs : Matches(q, ledger[id])}
    /\ UNCHANGED ledger

\* One request; without next_cursor it was the last.
ListPage ==
    /\ reader.pc = "paging"
    /\ LET page == MemoryList(reader.query, reader.after, reader.limit)
       IN  reader' = [reader EXCEPT
             !.pc = IF page.next = Nil THEN "done" ELSE "paging",
             !.after = CursorSent(page.next),
             !.visited = @ \o [i \in DOMAIN page.rows |-> page.rows[i].id]]
    /\ UNCHANGED <<ledger, owed>>

Ahead(row) == reader.after = Nil \/ IsAfterCursor(row, reader.after)

\* The run under this id is now r.  A traversal under way owes it to the client
\* if it matches and is still to come, or was owed before.
WriteRun(id, r) ==
    /\ ledger' = [ledger EXCEPT ![id] = r]
    /\ owed' = IF reader.pc # "paging" THEN owed
               ELSE IF ~Matches(reader.query, r) THEN owed \ {id}
               ELSE IF Ahead([t |-> r.startedAt, id |-> id]) THEN owed \union {id}
               ELSE owed
    /\ UNCHANGED reader

\* A run is recorded while the client pages.
RecordRun(id, t, l) ==
    /\ ledger[id] = NoRow
    /\ WriteRun(id, [startedAt |-> t, label |-> l])

\* A patch finishes a run or corrects its provenance, which may take it out of the query
\* or into it, again and again.
PatchRun(id, l) ==
    /\ ledger[id] # NoRow
    /\ ledger[id].label \notin Final
    /\ WriteRun(id, [ledger[id] EXCEPT !.label = l])

Queries == [labels : Filters, since : Times \union {0}, until : Times \union {0}]

ListingInit ==
    /\ ledger = [id \in IDs |-> NoRow]
    /\ reader = [pc |-> "idle", query |-> [labels |-> Labels, since |-> 0, until |-> 0],
                 limit |-> 1, after |-> Nil, visited |-> <<>>]
    /\ owed = {}

ListingNext ==
    \/ \E q \in Queries, limit \in 1..MaxListLimit + 1 : BeginList(q, limit)
    \/ ListPage
    \/ \E id \in IDs, l \in Labels : PatchRun(id, l) \/ \E t \in Times : RecordRun(id, t, l)

ListingSpec == ListingInit /\ [][ListingNext]_listingVars

-----------------------------------------------------------------------------
(* Properties.                                                             *)

Cursors == [t : Int, id : IDs]

\* The ledger and the traversal have their types, and no page is asked to be
\* longer than the server allows (parseLimit).
ListingTypeOK ==
    /\ ledger \in [IDs -> [startedAt : Times, label : Labels] \union {NoRow}]
    /\ reader \in [pc : {"idle", "paging", "done"}, query : Queries,
                   limit : 1..MaxListLimit, after : Cursors \union {Nil},
                   visited : Seq(IDs)]
    /\ owed \subseteq IDs

\* The start times on record.
StartTimes == {ledger[id].startedAt : id \in {i \in IDs : ledger[i] # NoRow}}

\* An int64 of nanoseconds holds the instant, as it does from 1678 to 2261.
Fits(t) == UnixNano(t) = t

AllFit == \A t \in StartTimes : Fits(t)

\* No instant is so early that it wraps forward.
NoneEarly == \A t \in StartTimes : UnixNano(t) <= t

(***************************************************************************)
(* A run is returned at most once by a traversal, and in the listing's     *)
(* order, however many runs are recorded or patched between two pages, as  *)
(* long as no start time wraps forward (before 1678): a cursor there leads *)
(* back into what was listed.                                              *)
(***************************************************************************)
NeverRepeats ==
    NoneEarly =>
        \A i, j \in 1..Len(reader.visited) :
            i < j => Precedes(Row(reader.visited[i]), Row(reader.visited[j]))

(***************************************************************************)
(* README, Pagination, and store.Page: a finished traversal has returned   *)
(* every run that matched from before the traversal reached its place      *)
(* until its end, those recorded meanwhile ahead of the cursor included.   *)
(* Of the program that is true while every start time on record fits an    *)
(* int64; AllListed is what the documents say.                             *)
(***************************************************************************)
AllListed == reader.pc = "done" => owed \subseteq Range(reader.visited)

NeverSkips == AllFit => AllListed

(***************************************************************************)
(* The two backends return the same runs, and the same cursor, for every   *)
(* query at every moment: filter, sort and cut agree with the keyset       *)
(* predicate and LIMIT n+1 (store.go:175 "the semantics every other        *)
(* backend must reproduce").  A limit of 0 is no limit.  It is so while    *)
(* the start times on record and the bounds of the query fit an int64, and *)
(* leaves aside how an empty page is written (EmptyPageIsList).            *)
(***************************************************************************)
BackendsAgree ==
    AllFit /\ Fits(reader.query.since) /\ Fits(reader.query.until) =>
        \A limit \in 0..MaxListLimit :
            \A after \in {Row(id) : id \in {i \in IDs : ledger[i] # NoRow}} \union {Nil} :
                LET memory == MemoryList(reader.query, after, limit)
                    duck   == DuckList(reader.query, after, limit)
                IN  memory.rows = duck.rows /\ memory.next = duck.next

\* api.go:749 "an empty result must still come back as [], the same rule list already
\* follows via page.Runs": DuckDB's page without runs is a nil slice, written as null.
EmptyPageIsList == ~DuckList(reader.query, reader.after, reader.limit).null

=============================================================================
