---------------------------- MODULE PagingProofs ----------------------------
(***************************************************************************)
(* Proofs about the two listings a client pages through: the groups of     *)
(* Spread and the runs of Listing, for every ledger, query and page size.  *)
(*                                                                         *)
(* The argument, for both: the order is strict and total, so each row has  *)
(* a place of its own, the number of rows before it, and a page is the     *)
(* rows of consecutive places.  A cursor marks a place, not a number of    *)
(* rows, so what is recorded meanwhile moves no row to the other side.     *)
(***************************************************************************)
EXTENDS Spread, Listing, FiniteSetTheorems, TLAPS

-----------------------------------------------------------------------------
(* Finite sets in a strict total order.                                    *)

Orders(R, S) ==
    /\ \A x \in S : <<x, x>> \notin R
    /\ \A x, y, z \in S : <<x, y>> \in R /\ <<y, z>> \in R => <<x, z>> \in R
    /\ \A x, y \in S : x # y => <<x, y>> \in R \/ <<y, x>> \in R

Before(R, S, x) == {y \in S : <<y, x>> \in R}

\* Every place is taken, by one element, and the places go with the order.
LEMMA Places ==
    ASSUME NEW S, IsFiniteSet(S), NEW R, Orders(R, S)
    PROVE  /\ Cardinality(S) \in Nat
           /\ \A x \in S : Cardinality(Before(R, S, x)) \in 0..Cardinality(S) - 1
           /\ \A x, y \in S : <<x, y>> \in R =>
                 Cardinality(Before(R, S, x)) < Cardinality(Before(R, S, y))
           /\ \A x, y \in S : Cardinality(Before(R, S, x)) = Cardinality(Before(R, S, y)) => x = y
           /\ \A i \in 1..Cardinality(S) : \E x \in S : Cardinality(Before(R, S, x)) = i - 1
<1> DEFINE n == Cardinality(S)
           place(x) == Cardinality(Before(R, S, x))
<1>1. n \in Nat
  BY FS_CardinalityType
<1>2. \A x \in S : IsFiniteSet(Before(R, S, x)) /\ place(x) \in Nat
  <2> TAKE x \in S
  <2>1. Before(R, S, x) \in SUBSET S
    BY DEF Before
  <2> QED
    BY <2>1, FS_Subset, FS_CardinalityType
<1>3. \A x \in S : place(x) \in 0..n - 1
  <2> TAKE x \in S
  <2>1. Before(R, S, x) \in SUBSET S /\ Before(R, S, x) # S
    BY DEF Before, Orders
  <2>2. place(x) <= n /\ place(x) # n
    BY <2>1, FS_Subset
  <2> QED
    BY <1>1, <1>2, <2>2
<1>4. \A x, y \in S : <<x, y>> \in R => place(x) < place(y)
  <2> SUFFICES ASSUME NEW x \in S, NEW y \in S, <<x, y>> \in R PROVE place(x) < place(y)
    OBVIOUS
  <2>1. Before(R, S, x) \in SUBSET Before(R, S, y)
    BY DEF Before, Orders
  <2>2. x \in Before(R, S, y) /\ x \notin Before(R, S, x)
    BY DEF Before, Orders
  <2>3. IsFiniteSet(Before(R, S, y))
    BY <1>2
  <2>4. place(x) <= place(y) /\ place(x) # place(y)
    BY <2>1, <2>2, <2>3, FS_Subset
  <2> QED
    BY <1>2, <2>4
<1>5. \A x, y \in S : place(x) = place(y) => x = y
  <2> SUFFICES ASSUME NEW x \in S, NEW y \in S, place(x) = place(y), x # y PROVE FALSE
    OBVIOUS
  <2>1. place(x) < place(y) \/ place(y) < place(x)
    BY <1>4 DEF Orders
  <2> QED
    BY <1>2, <2>1
<1>6. \A i \in 1..n : \E x \in S : place(x) = i - 1
  <2> DEFINE f == [x \in S |-> place(x) + 1]
  <2>1. \A x \in S : place(x) + 1 \in 1..n
    BY <1>1, <1>3
  <2>2. \A x, y \in S : f[x] = f[y] => x = y
    <3> SUFFICES ASSUME NEW x \in S, NEW y \in S, f[x] = f[y] PROVE x = y
      OBVIOUS
    <3>1. place(x) + 1 = place(y) + 1
      OBVIOUS
    <3> QED
      BY <1>2, <1>5, <3>1
  <2>3. f \in Injection(S, 1..n)
    BY <2>1, <2>2 DEF Injection, IsInjective
  <2>4. IsFiniteSet(1..n) /\ Cardinality(1..n) = n
    BY <1>1, FS_Interval
  <2>5. f \in Surjection(S, 1..n)
    BY <2>3, <2>4, FS_Injection
  <2>6. \A i \in 1..n : \E x \in S : f[x] = i
    BY <2>5 DEF Surjection
  <2> QED
    BY <1>2, <2>6
<1> QED
  BY <1>1, <1>3, <1>4, <1>5, <1>6

\* A set of natural numbers that is not empty has a least one.
LEMMA Least ==
    ASSUME NEW T \in SUBSET Nat, T # {}
    PROVE  \E n \in T : \A m \in T : n <= m
<1>1. \E n \in T : \A m \in T : ~(<<m, n>> \in OpToRel(<, Nat))
  BY WFMin, NatLessThanWellFounded
<1>2. \A m, n \in Nat : m < n => <<m, n>> \in OpToRel(<, Nat)
  BY DEF OpToRel
<1>3. \A m, n \in Nat : ~(m < n) => n <= m
  OBVIOUS
<1> QED
  BY <1>1, <1>2, <1>3, Zenon

-----------------------------------------------------------------------------
(* Listing: the rows in order.                                             *)

ListRows == [t : Int, id : Nat]

PairsOf(S) == {p \in S \X S : Precedes(p[1], p[2])}

LEMMA RowsOrdered ==
    ASSUME NEW S, S \subseteq ListRows
    PROVE  /\ Orders(PairsOf(S), S)
           /\ \A x \in S : Before(PairsOf(S), S, x) = {y \in S : Precedes(y, x)}
<1>1. \A x, y \in S : <<x, y>> \in PairsOf(S) <=> Precedes(x, y)
  BY DEF PairsOf
<1>2. \A x, y \in ListRows : x # y => x.t # y.t \/ x.id # y.id
  BY DEF ListRows
<1>3. \A x \in ListRows : x.t \in Int /\ x.id \in Nat
  BY DEF ListRows
<1>4. /\ \A x \in S : ~Precedes(x, x)
      /\ \A x, y, z \in S : Precedes(x, y) /\ Precedes(y, z) => Precedes(x, z)
      /\ \A x, y \in S : x # y => Precedes(x, y) \/ Precedes(y, x)
  BY <1>2, <1>3 DEF Precedes
<1> QED
  BY <1>1, <1>4 DEF Orders, Before

\* sort.Slice, ORDER BY: every row once, in order.
LEMMA SortedRows ==
    ASSUME NEW S, IsFiniteSet(S), S \subseteq ListRows
    PROVE  /\ Cardinality(S) \in Nat
           /\ Sorted(S) \in [1..Cardinality(S) -> S]
           /\ \A i, j \in 1..Cardinality(S) :
                 i < j => Precedes(Sorted(S)[i], Sorted(S)[j])
           /\ \A x \in S : \E i \in 1..Cardinality(S) : Sorted(S)[i] = x
           /\ \A x \in S, i \in 1..Cardinality(S) :
                 RowPlace(S, x) = i - 1 => Sorted(S)[i] = x
<1> DEFINE n == Cardinality(S)
           place(x) == RowPlace(S, x)
<1>1. /\ n \in Nat
      /\ \A x \in S : place(x) \in 0..n - 1
      /\ \A x, y \in S : Precedes(x, y) => place(x) < place(y)
      /\ \A x, y \in S : place(x) = place(y) => x = y
      /\ \A i \in 1..n : \E x \in S : place(x) = i - 1
  <2>1. Orders(PairsOf(S), S)
    BY RowsOrdered
  <2>2. \A x \in S : Cardinality(Before(PairsOf(S), S, x)) = place(x)
    BY RowsOrdered DEF RowPlace
  <2>3. \A x, y \in S : <<x, y>> \in PairsOf(S) <=> Precedes(x, y)
    BY DEF PairsOf
  <2>4. /\ n \in Nat
        /\ \A x \in S : Cardinality(Before(PairsOf(S), S, x)) \in 0..n - 1
        /\ \A x, y \in S : <<x, y>> \in PairsOf(S) =>
              Cardinality(Before(PairsOf(S), S, x)) < Cardinality(Before(PairsOf(S), S, y))
        /\ \A x, y \in S : Cardinality(Before(PairsOf(S), S, x))
                             = Cardinality(Before(PairsOf(S), S, y)) => x = y
        /\ \A i \in 1..n : \E x \in S : Cardinality(Before(PairsOf(S), S, x)) = i - 1
    BY <2>1, Places
  <2> HIDE DEF place, n
  <2> QED
    BY <2>2, <2>3, <2>4
<1>2. Sorted(S) = [i \in 1..n |-> CHOOSE r \in S : place(r) = i - 1]
  BY DEF Sorted
<1> HIDE DEF place, n
<1>3. \A i \in 1..n : Sorted(S)[i] \in S /\ place(Sorted(S)[i]) = i - 1
  BY <1>1, <1>2
<1>4. Sorted(S) \in [1..n -> S]
  BY <1>2, <1>3
<1>5. \A x \in S, i \in 1..n : place(x) = i - 1 => Sorted(S)[i] = x
  BY <1>1, <1>3
<1>6. \A x \in S : \E i \in 1..n : Sorted(S)[i] = x
  <2> TAKE x \in S
  <2>1. place(x) + 1 \in 1..n /\ place(x) = (place(x) + 1) - 1
    BY <1>1
  <2> QED
    BY <1>5, <2>1
<1>7. \A i, j \in 1..n : i < j => Precedes(Sorted(S)[i], Sorted(S)[j])
  <2> SUFFICES ASSUME NEW i \in 1..n, NEW j \in 1..n, i < j,
                      ~Precedes(Sorted(S)[i], Sorted(S)[j])
               PROVE  FALSE
    OBVIOUS
  <2> DEFINE a == Sorted(S)[i]
             b == Sorted(S)[j]
  <2>1. a \in S /\ b \in S /\ place(a) = i - 1 /\ place(b) = j - 1
    BY <1>3
  <2>2. a = b \/ Precedes(b, a)
    <3>1. Orders(PairsOf(S), S)
      BY RowsOrdered
    <3>2. \A x, y \in S : <<x, y>> \in PairsOf(S) <=> Precedes(x, y)
      BY DEF PairsOf
    <3> QED
      BY <2>1, <3>1, <3>2 DEF Orders
  <2>3. place(b) <= place(a)
    <3>1. place(a) \in Int /\ place(b) \in Int
      BY <1>1, <2>1
    <3>2. place(a) = place(b) \/ place(b) < place(a)
      BY <1>1, <2>1, <2>2
    <3> QED
      BY <3>1, <3>2
  <2> QED
    BY <1>1, <2>1, <2>3
<1> QED
  BY <1>1, <1>4, <1>5, <1>6, <1>7 DEF place, n

\* There is one way to sort.
LEMMA SortedOnce ==
    ASSUME NEW S, S \subseteq ListRows, NEW n \in Nat, NEW s \in [1..n -> S],
           \A i, j \in 1..n : i < j => Precedes(s[i], s[j]),
           \A x \in S : \E i \in 1..n : s[i] = x
    PROVE  IsFiniteSet(S) /\ Cardinality(S) = n /\ s = Sorted(S)
<1>0. \A x, y \in S : Precedes(x, y) => x # y /\ ~Precedes(y, x)
  <2>1. \A x, y \in S : <<x, y>> \in PairsOf(S) <=> Precedes(x, y)
    BY DEF PairsOf
  <2> QED
    BY <2>1, RowsOrdered DEF Orders
<1>1. \A i, j \in 1..n : Precedes(s[i], s[j]) => i < j
  BY <1>0
<1>2. \A i, j \in 1..n : s[i] = s[j] => i = j
  BY <1>0
<1>3. s \in Bijection(1..n, S)
  BY <1>2 DEF Bijection, Injection, Surjection, IsInjective
<1>4. IsFiniteSet(S) /\ Cardinality(S) = n
  <2>1. ExistsBijection(1..n, S)
    BY <1>3 DEF ExistsBijection
  <2> QED
    BY <2>1, FS_CountingElements, FS_NatBijection
<1>5. \A i \in 1..n : Cardinality({y \in S : Precedes(y, s[i])}) = i - 1
  <2> TAKE i \in 1..n
  <2> DEFINE T == {y \in S : Precedes(y, s[i])}
             f == [j \in 1..i - 1 |-> s[j]]
  <2>1. i - 1 \in Nat /\ \A j \in 1..i - 1 : j \in 1..n /\ j < i
    OBVIOUS
  <2>2. \A j \in 1..i - 1 : f[j] = s[j] /\ f[j] \in T
    BY <2>1
  <2>3. f \in [1..i - 1 -> T]
    BY <2>2
  <2>4. \A j, k \in 1..i - 1 : f[j] = f[k] => j = k
    BY <1>2, <2>1, <2>2
  <2>5. \A y \in T : \E j \in 1..i - 1 : f[j] = y
    <3> TAKE y \in T
    <3>1. PICK j \in 1..n : s[j] = y
      OBVIOUS
    <3>2. j < i
      BY <1>1, <3>1
    <3> QED
      BY <2>2, <3>1, <3>2
  <2>6. f \in Bijection(1..i - 1, T)
    <3> HIDE DEF f, T
    <3> QED
      BY <2>3, <2>4, <2>5 DEF Bijection, Injection, Surjection, IsInjective
  <2> QED
    BY <2>1, <2>6, FS_CountingElements DEF ExistsBijection
<1>6. \A i \in 1..n : Sorted(S)[i] = s[i]
  <2> TAKE i \in 1..n
  <2>1. s[i] \in S /\ Cardinality({y \in S : Precedes(y, s[i])}) = i - 1
    BY <1>5
  <2>2. RowPlace(S, s[i]) = i - 1
    BY <2>1 DEF RowPlace
  <2> QED
    BY <1>4, <2>1, <2>2, SortedRows
<1>7. Sorted(S) \in [1..n -> S]
  BY <1>4, SortedRows
<1> QED
  BY <1>4, <1>6, <1>7

-----------------------------------------------------------------------------
(* Listing: the page both backends return.                                 *)

RecordedRuns == {id \in IDs : ledger[id] # NoRow}

LedgerOK ==
    /\ ledger \in [IDs -> [startedAt : Times, label : Labels] \union {NoRow}]
    /\ IsFiniteSet(RecordedRuns)

\* The rows of a query that a page with this cursor may hold.
Remaining(q, after) ==
    {r \in Matching(q) : after # Nil => IsAfterCursor(r, after)}

LEMMA RowOfRun ==
    ASSUME ListingAssumption, LedgerOK, NEW id \in RecordedRuns
    PROVE  /\ ledger[id] \in [startedAt : Times, label : Labels]
           /\ Row(id) \in ListRows
           /\ Row(id).t = ledger[id].startedAt /\ Row(id).t \in Times
           /\ Row(id).id = id
<1>1. id \in IDs /\ id \in Nat /\ ledger[id] \in [startedAt : Times, label : Labels]
  BY DEF ListingAssumption, LedgerOK, RecordedRuns
<1>2. ledger[id].startedAt \in Times
  BY <1>1
<1>3. Times \subseteq Int
  BY DEF ListingAssumption
<1> QED
  BY <1>1, <1>2, <1>3 DEF Row, ListRows

LEMMA MatchingRows ==
    ASSUME ListingAssumption, LedgerOK, NEW q
    PROVE  /\ IsFiniteSet(Matching(q))
           /\ Matching(q) \subseteq ListRows
           /\ \A r \in Matching(q) :
                 r.id \in RecordedRuns /\ Matches(q, ledger[r.id]) /\ r = Row(r.id)
           /\ \A id \in IDs : Matches(q, ledger[id]) =>
                 id \in RecordedRuns /\ Row(id) \in Matching(q)
<1> DEFINE I == {i \in IDs : Matches(q, ledger[i])}
           f == [id \in I |-> Row(id)]
<1>1. I \in SUBSET RecordedRuns
  BY DEF RecordedRuns, Matches
<1>2. IsFiniteSet(I)
  BY <1>1, FS_Subset DEF LedgerOK
<1>3. Matching(q) = {Row(id) : id \in I}
  BY DEF Matching
<1>4. f \in Surjection(I, Matching(q))
  <2>1. \A id \in I : f[id] \in Matching(q)
    BY <1>3
  <2>2. \A r \in Matching(q) : \E id \in I : f[id] = r
    BY <1>3
  <2> HIDE DEF I
  <2> QED
    BY <2>1, <2>2 DEF Surjection
<1>5. IsFiniteSet(Matching(q))
  BY <1>2, <1>4, FS_Surjection
<1>6. \A id \in I : id \in RecordedRuns /\ Row(id) \in ListRows /\ Row(id).id = id
  BY <1>1, RowOfRun
<1> QED
  BY <1>1, <1>3, <1>5, <1>6

LEMMA RemainingRows ==
    ASSUME ListingAssumption, LedgerOK, NEW q, NEW after
    PROVE  IsFiniteSet(Remaining(q, after)) /\ Remaining(q, after) \subseteq ListRows
<1>1. Remaining(q, after) \in SUBSET Matching(q)
  BY DEF Remaining
<1> QED
  BY <1>1, MatchingRows, FS_Subset

\* Cutting the sorted rows at the first one after the cursor leaves the rows
\* after the cursor, sorted.
LEMMA MemoryPage ==
    ASSUME ListingAssumption, LedgerOK, NEW q, NEW limit,
           NEW after \in [t : Int, id : IDs] \union {Nil}
    PROVE  MemoryList(q, after, limit)
           = Paginate(Sorted(Remaining(q, after)), limit)
<1>1. CASE after = Nil
  <2>1. Remaining(q, after) = Matching(q)
    BY <1>1 DEF Remaining
  <2> QED
    BY <1>1, <2>1 DEF MemoryList
<1>2. CASE after # Nil
  <2> DEFINE M == Matching(q)
             out == Sorted(M)
             n == Cardinality(M)
             Cut(i) == /\ i <= Len(out) => IsAfterCursor(out[i], after)
                       /\ \A j \in 1..i - 1 : ~IsAfterCursor(out[j], after)
  <2>1. /\ n \in Nat /\ out \in [1..n -> M]
        /\ \A i, j \in 1..n : i < j => Precedes(out[i], out[j])
        /\ \A x \in M : \E i \in 1..n : out[i] = x
    BY MatchingRows, SortedRows
  <2>2. M \subseteq ListRows
    BY MatchingRows
  <2>3. out \in Seq(M) /\ Len(out) = n
    BY <2>1
  <2>4. after.t \in Int /\ after.id \in Nat
    BY <1>2 DEF ListingAssumption
  <2>5. \A x, y \in M : IsAfterCursor(x, after) /\ Precedes(x, y)
                           => IsAfterCursor(y, after)
    <3>1. \A x \in M : x.t \in Int /\ x.id \in Nat
      BY <2>2 DEF ListRows
    <3> QED
      BY <2>4, <3>1 DEF IsAfterCursor, Precedes
  <2> HIDE DEF M, out, n
  <2>6. \E i \in 1..Len(out) + 1 : Cut(i)
    <3> DEFINE T == {i \in 1..n + 1 : i <= n => IsAfterCursor(out[i], after)}
    <3>1. n + 1 \in T /\ T \subseteq Nat
      BY <2>1
    <3>2. PICK i \in T : \A m \in T : i <= m
      <4> HIDE DEF T
      <4> QED
        BY <3>1, Least
    <3>3. \A j \in 1..i - 1 : ~IsAfterCursor(out[j], after)
      <4> SUFFICES ASSUME NEW j \in 1..i - 1, IsAfterCursor(out[j], after) PROVE FALSE
        OBVIOUS
      <4>1. j \in T /\ j < i
        BY <2>1, <3>1
      <4> QED
        BY <2>1, <3>2, <4>1
    <3> QED
      BY <2>3, <3>3
  <2> DEFINE first == CHOOSE i \in 1..Len(out) + 1 : Cut(i)
  <2>7. first \in 1..n + 1 /\ Cut(first)
    BY <2>3, <2>6
  <2>8. MemoryList(q, after, limit) = Paginate(SubSeq(out, first, n), limit)
    BY <1>2, <2>3 DEF MemoryList, M, out
  <2> HIDE DEF first
  <2> DEFINE R == Remaining(q, after)
             rest == SubSeq(out, first, n)
             m == n - first + 1
  <2>9. /\ m \in Nat /\ Len(rest) = m /\ rest = [i \in 1..m |-> out[i + first - 1]]
    BY <2>1, <2>3, <2>7
  <2>10. \A i \in 1..m : i + first - 1 \in first..n /\ rest[i] = out[i + first - 1]
    BY <2>1, <2>7, <2>9
  <2>11. \A i \in 1..n : IsAfterCursor(out[i], after) <=> i >= first
    <3> TAKE i \in 1..n
    <3>1. CASE i < first
      BY <2>1, <2>3, <2>7, <3>1
    <3>2. CASE i = first
      BY <2>1, <2>3, <2>7, <3>2
    <3>3. CASE i > first
      <4>1. first \in 1..n /\ out[first] \in M /\ out[i] \in M
        BY <2>1, <2>7, <3>3
      <4>2. IsAfterCursor(out[first], after)
        BY <2>3, <2>7, <4>1
      <4> QED
        BY <2>1, <2>5, <3>3, <4>1, <4>2
    <3> QED
      BY <2>1, <2>7, <3>1, <3>2, <3>3
  <2>12. \A r : r \in R <=> r \in M /\ IsAfterCursor(r, after)
    BY <1>2 DEF Remaining, M
  <2>13. rest \in [1..m -> R]
    <3>1. \A i \in 1..m : rest[i] \in R
      BY <2>1, <2>7, <2>10, <2>11, <2>12
    <3> QED
      BY <2>9, <3>1
  <2>14. \A i, j \in 1..m : i < j => Precedes(rest[i], rest[j])
    BY <2>1, <2>7, <2>9, <2>10
  <2>15. \A x \in R : \E i \in 1..m : rest[i] = x
    <3> TAKE x \in R
    <3>1. PICK k \in 1..n : out[k] = x
      BY <2>1, <2>12
    <3>2. k >= first
      BY <2>11, <2>12, <3>1
    <3>3. k - first + 1 \in 1..m /\ (k - first + 1) + first - 1 = k
      BY <2>1, <2>7, <3>2
    <3> QED
      BY <2>10, <3>1, <3>3
  <2>16. rest = Sorted(R)
    <3>1. R \subseteq ListRows
      BY RemainingRows
    <3>2. m \in Nat
      BY <2>9
    <3> HIDE DEF rest, R, m
    <3> QED
      BY <2>13, <2>14, <2>15, <3>1, <3>2, SortedOnce
  <2> QED
    BY <2>8, <2>16
<1> QED
  BY <1>1, <1>2

LEMMA NanoType ==
    ASSUME ListingAssumption, NEW t \in Int
    PROVE  UnixNano(t) \in Int
<1>1. /\ 2 * (MaxNano + 1) \in Int /\ 2 * (MaxNano + 1) > 0
      /\ t + MaxNano + 1 \in Int
  BY DEF ListingAssumption
<1>2. (t + MaxNano + 1) % (2 * (MaxNano + 1)) \in Int
  BY <1>1
<1> QED
  BY <1>2 DEF UnixNano, ListingAssumption

\* The columns hold what was recorded, and the arguments what was asked, when an
\* int64 holds both: the WHERE selects the rows that remain.
LEMMA RowsSelected ==
    ASSUME ListingAssumption, LedgerOK, AllFit, NEW q, Fits(q.since), Fits(q.until),
           NEW after \in [t : Int, id : IDs] \union {Nil}, after # Nil => Fits(after.t)
    PROVE  Where(q, after) = Remaining(q, after)
<1>1. \A id \in RecordedRuns : Column(id) = Row(id) /\ UnixNano(ledger[id].startedAt) = ledger[id].startedAt
  BY DEF AllFit, StartTimes, Fits, Column, Row, RecordedRuns
<1>2. \A id \in IDs : ColumnMatches(q, ledger[id]) <=> Matches(q, ledger[id])
  BY <1>1 DEF ColumnMatches, Matches, Fits, RecordedRuns
<1>3. {Column(id) : id \in {i \in IDs : ColumnMatches(q, ledger[i])}} = Matching(q)
  <2>1. {i \in IDs : ColumnMatches(q, ledger[i])} = {i \in IDs : Matches(q, ledger[i])}
    BY <1>2
  <2>2. \A id \in {i \in IDs : Matches(q, ledger[i])} : Column(id) = Row(id)
    BY <1>1 DEF Matches, RecordedRuns
  <2> QED
    BY <2>1, <2>2 DEF Matching
<1>4. \A r \in Matching(q) : r.t \in Int /\ r.id \in Nat
  BY MatchingRows DEF ListRows
<1>5. after # Nil => after.t \in Int /\ after.id \in Nat /\ UnixNano(after.t) = after.t
  BY DEF ListingAssumption, Fits
<1>6. \A r \in Matching(q) :
         (after # Nil => LET ns == UnixNano(after.t)
                         IN  r.t < ns \/ (r.t = ns /\ r.id > after.id))
         <=> (after # Nil => IsAfterCursor(r, after))
  BY <1>4, <1>5 DEF IsAfterCursor
<1> QED
  BY <1>3, <1>6 DEF Where, Remaining

\* ORDER BY and LIMIT n+1: one row more than the page is enough to know whether there is
\* another page.
LEMMA DuckPage ==
    ASSUME ListingAssumption, LedgerOK, AllFit, NEW q, Fits(q.since), Fits(q.until),
           NEW limit \in Nat,
           NEW after \in [t : Int, id : IDs] \union {Nil}, after # Nil => Fits(after.t)
    PROVE  /\ DuckList(q, after, limit).rows = Paginate(Sorted(Remaining(q, after)), limit).rows
           /\ DuckList(q, after, limit).next = Paginate(Sorted(Remaining(q, after)), limit).next
<1> DEFINE R == Remaining(q, after)
           all == Sorted(R)
           some == IF limit > 0 /\ Len(all) > limit + 1 THEN SubSeq(all, 1, limit + 1) ELSE all
<1>1. R = Where(q, after)
  BY RowsSelected
<1>2. DuckList(q, after, limit) = [Paginate(some, limit) EXCEPT !.null = some = <<>>]
  BY <1>1 DEF DuckList
<1>p. \A rows : DOMAIN Paginate(rows, limit) = {"rows", "next", "null"}
  BY DEF Paginate
<1>3. all \in Seq(R)
  BY RemainingRows, SortedRows
<1> HIDE DEF all, R
<1>4. Paginate(some, limit) = Paginate(all, limit)
  <2>1. CASE limit > 0 /\ Len(all) > limit + 1
    <3>1. some = SubSeq(all, 1, limit + 1) /\ Len(some) = limit + 1
      BY <1>3, <2>1
    <3>2. some[limit] = all[limit]
      BY <1>3, <2>1, <3>1
    <3>3. SubSeq(some, 1, limit) = SubSeq(all, 1, limit)
      BY <1>3, <2>1, <3>1
    <3>4. ~(limit <= 0 \/ Len(some) <= limit) /\ ~(limit <= 0 \/ Len(all) <= limit)
      BY <1>3, <2>1, <3>1
    <3> HIDE DEF some
    <3> QED
      BY <3>2, <3>3, <3>4 DEF Paginate
  <2>2. CASE ~(limit > 0 /\ Len(all) > limit + 1)
    BY <2>2
  <2> QED
    BY <2>1, <2>2
<1> HIDE DEF some
<1>5. /\ DuckList(q, after, limit).rows = Paginate(some, limit).rows
      /\ DuckList(q, after, limit).next = Paginate(some, limit).next
  BY <1>2, <1>p
<1> QED
  BY <1>4, <1>5 DEF all, R

\* What a page is made of, and where the next one begins.
PageOf(R, page) ==
    /\ page.rows \in Seq(R)
    /\ \A i, j \in 1..Len(page.rows) : i < j => Precedes(page.rows[i], page.rows[j])
    /\ page.next = Nil => \A r \in R : \E i \in 1..Len(page.rows) : page.rows[i] = r
    /\ page.next # Nil =>
          /\ Len(page.rows) > 0 /\ page.next = page.rows[Len(page.rows)]
          /\ \A r \in R : \/ \E i \in 1..Len(page.rows) : page.rows[i] = r
                          \/ Precedes(page.next, r)

LEMMA PageRows ==
    ASSUME ListingAssumption, LedgerOK, NEW q, NEW limit \in Nat \ {0},
           NEW after \in [t : Int, id : IDs] \union {Nil}
    PROVE  PageOf(Remaining(q, after), MemoryList(q, after, limit))
<1>0. PICK page : page = MemoryList(q, after, limit)
  OBVIOUS
<1> DEFINE R == Remaining(q, after)
           all == Sorted(R)
           n == Cardinality(R)
<1>1. /\ n \in Nat /\ all \in [1..n -> R]
      /\ \A i, j \in 1..n : i < j => Precedes(all[i], all[j])
      /\ \A x \in R : \E i \in 1..n : all[i] = x
  BY RemainingRows, SortedRows
<1>2. all \in Seq(R) /\ Len(all) = n
  BY <1>1
<1>3. page = Paginate(all, limit)
  BY <1>0, MemoryPage
<1>4. Nil \notin R
  <2>1. \A r \in Matching(q) : r.id \in RecordedRuns /\ r = Row(r.id)
    BY MatchingRows
  <2>2. \A id \in RecordedRuns : Row(id) \in [t : Int, id : IDs]
    <3> SUFFICES ASSUME NEW id \in RecordedRuns PROVE Row(id) \in [t : Int, id : IDs]
      OBVIOUS
    <3>1. Row(id) \in ListRows /\ id \in IDs /\ Row(id).id = id
      BY RowOfRun DEF RecordedRuns
    <3> QED
      BY <3>1 DEF ListRows
  <2> QED
    BY <2>1, <2>2 DEF R, Remaining, ListingAssumption
<1> SUFFICES PageOf(R, page)
  BY <1>0
<1> HIDE DEF R, all, n
<1>5. CASE n <= limit
  <2>1. page.rows = all /\ page.next = Nil
    BY <1>1, <1>2, <1>3, <1>5 DEF Paginate
  <2> QED
    BY <1>1, <1>2, <2>1 DEF PageOf
<1>6. CASE n > limit
  <2>1. page.rows = SubSeq(all, 1, limit) /\ page.next = all[limit]
    <3>1. ~(limit <= 0 \/ Len(all) <= limit)
      BY <1>1, <1>2, <1>6
    <3> QED
      BY <1>3, <3>1 DEF Paginate
  <2>2. /\ page.rows \in Seq(R) /\ Len(page.rows) = limit
        /\ \A i \in 1..limit : page.rows[i] = all[i] /\ i \in 1..n
    BY <1>1, <1>2, <1>6, <2>1
  <2>3. page.next = page.rows[limit] /\ page.next = all[limit] /\ limit \in 1..n
    BY <1>1, <1>6, <2>1, <2>2
  <2>4. \A i, j \in 1..limit : i < j => Precedes(page.rows[i], page.rows[j])
    BY <1>1, <2>2
  <2>5. \A r \in R : \/ \E i \in 1..limit : page.rows[i] = r
                     \/ Precedes(page.next, r)
    <3> TAKE r \in R
    <3>1. PICK k \in 1..n : all[k] = r
      BY <1>1
    <3>2. k \in 1..limit \/ limit < k
      BY <1>1
    <3> QED
      BY <1>1, <2>2, <2>3, <3>1, <3>2
  <2>6. page.next \in R
    BY <1>1, <2>3
  <2> QED
    BY <1>4, <2>2, <2>3, <2>4, <2>5, <2>6 DEF PageOf
<1> QED
  BY <1>1, <1>5, <1>6

-----------------------------------------------------------------------------
(* Listing: the inductive invariant.                                       *)

\* What was returned is in the ledger, and the cursor is at the last of it.
CursorPlace ==
    /\ \A i \in 1..Len(reader.visited) : reader.visited[i] \in RecordedRuns
    /\ reader.pc = "paging" =>
          \/ reader.after = Nil /\ reader.visited = <<>>
          \/ /\ reader.after # Nil /\ Len(reader.visited) > 0
             /\ reader.after.id = reader.visited[Len(reader.visited)]
             /\ reader.after.t = UnixNano(Row(reader.after.id).t)

ListInv == ListingTypeOK /\ IsFiniteSet(RecordedRuns) /\ CursorPlace /\ NeverRepeats

\* What is owed still matches, and has been returned or is ahead.
OwedAhead ==
    /\ reader.pc = "paging" =>
          \A id \in owed : /\ Matches(reader.query, ledger[id])
                           /\ id \in Range(reader.visited) \/ Ahead(Row(id))
    /\ reader.pc = "done" => owed \subseteq Range(reader.visited)

\* Runs are never taken off the record, nor their start times changed.
LEMMA StartsStay ==
    ASSUME \A i \in RecordedRuns : i \in RecordedRuns' /\ ledger'[i].startedAt = ledger[i].startedAt
    PROVE  (AllFit' => AllFit) /\ (NoneEarly' => NoneEarly)
<1>1. StartTimes \subseteq StartTimes'
  BY DEF StartTimes, RecordedRuns
<1> QED
  BY <1>1 DEF AllFit, NoneEarly, Fits, UnixNano

LEMMA ListTypes ==
    ASSUME ListInv
    PROVE  /\ LedgerOK
           /\ reader.limit \in 1..MaxListLimit /\ reader.query \in Queries
           /\ reader.after \in [t : Int, id : IDs] \union {Nil}
           /\ reader.visited \in Seq(IDs)
           /\ reader.pc \in {"idle", "paging", "done"}
  BY DEF ListInv, ListingTypeOK, Cursors, LedgerOK

LEMMA ListInit ==
    ASSUME ListingAssumption PROVE ListingInit => ListInv /\ OwedAhead
<1> SUFFICES ASSUME ListingInit PROVE ListInv /\ OwedAhead
  OBVIOUS
<1>1. /\ ledger = [id \in IDs |-> NoRow] /\ owed = {}
      /\ reader.pc = "idle" /\ reader.visited = <<>>
  BY DEF ListingInit
<1>2. RecordedRuns = {}
  BY <1>1 DEF RecordedRuns
<1>3. IsFiniteSet(RecordedRuns)
  BY <1>2, FS_EmptySet
<1>4. reader \in [pc : {"idle", "paging", "done"}, query : Queries,
                  limit : 1..MaxListLimit, after : Cursors \union {Nil}, visited : Seq(IDs)]
  <2>1. [labels |-> Labels, since |-> 0, until |-> 0] \in Queries
    BY DEF Queries, ListingAssumption
  <2>2. 1 \in 1..MaxListLimit /\ <<>> \in Seq(IDs)
    BY DEF ListingAssumption
  <2> QED
    BY <2>1, <2>2 DEF ListingInit
<1>5. ListingTypeOK
  BY <1>1, <1>4 DEF ListingTypeOK
<1>6. CursorPlace /\ NeverRepeats /\ OwedAhead
  BY <1>1 DEF CursorPlace, NeverRepeats, OwedAhead
<1> QED
  BY <1>3, <1>5, <1>6 DEF ListInv

\* A client that begins has seen nothing, and is owed all that matches.
LEMMA BeginListing ==
    ASSUME ListingAssumption, ListInv, NEW q \in Queries, NEW limit \in 1..MaxListLimit + 1,
           BeginList(q, limit)
    PROVE  ListInv' /\ OwedAhead'
<1>1. /\ reader' = [pc |-> "paging", query |-> q, limit |-> PageSize(limit), after |-> Nil,
                    visited |-> <<>>]
      /\ owed' = {id \in IDs : Matches(q, ledger[id])} /\ ledger' = ledger
  BY DEF BeginList
<1>2. PageSize(limit) \in 1..MaxListLimit
  BY DEF PageSize, ListingAssumption
<1>3. reader' \in [pc : {"idle", "paging", "done"}, query : Queries,
                   limit : 1..MaxListLimit, after : Cursors \union {Nil}, visited : Seq(IDs)]
  <2>1. <<>> \in Seq(IDs)
    OBVIOUS
  <2> QED
    BY <1>1, <1>2, <2>1
<1>4. ListingTypeOK'
  BY <1>1, <1>3 DEF ListInv, ListingTypeOK
<1>5. RecordedRuns' = RecordedRuns
  BY <1>1 DEF RecordedRuns
<1>6. reader'.visited = <<>> /\ reader'.after = Nil /\ reader'.pc = "paging" /\ reader'.query = q
  BY <1>1
<1>7. CursorPlace' /\ NeverRepeats'
  BY <1>6 DEF CursorPlace, NeverRepeats
<1>8. OwedAhead'
  BY <1>1, <1>6 DEF OwedAhead, Ahead
<1> QED
  BY <1>4, <1>5, <1>7, <1>8 DEF ListInv

\* Record and Finish: a row that is there stays where it is.
LEMMA WriteListed ==
    ASSUME ListingAssumption, ListInv, NEW id \in IDs,
           NEW r \in [startedAt : Times, label : Labels],
           ledger[id] = NoRow \/ r.startedAt = ledger[id].startedAt,
           WriteRun(id, r)
    PROVE  ListInv' /\ (AllFit' => AllFit) /\ (OwedAhead => OwedAhead')
<1>0. LedgerOK
  BY ListTypes
<1>1. /\ ledger' = [ledger EXCEPT ![id] = r] /\ reader' = reader
  BY DEF WriteRun
<1>2. /\ ledger' \in [IDs -> [startedAt : Times, label : Labels] \union {NoRow}]
      /\ ledger'[id] = r /\ \A i \in IDs : i # id => ledger'[i] = ledger[i]
  BY <1>0, <1>1 DEF LedgerOK
<1>3. r # NoRow
  BY DEF ListingAssumption
<1>4. RecordedRuns' = RecordedRuns \union {id}
  <2>1. \A i \in IDs : ledger'[i] # NoRow <=> (i = id \/ ledger[i] # NoRow)
    BY <1>2, <1>3
  <2>2. \A i : i \in RecordedRuns' <=> i \in IDs /\ ledger'[i] # NoRow
    BY DEF RecordedRuns
  <2>3. \A i : i \in RecordedRuns <=> i \in IDs /\ ledger[i] # NoRow
    BY DEF RecordedRuns
  <2>4. \A i : i \in RecordedRuns' <=> i \in RecordedRuns \union {id}
    BY <2>1, <2>2, <2>3
  <2> QED
    BY <2>4, Zenon
<1>5. IsFiniteSet(RecordedRuns')
  BY <1>0, <1>4, FS_AddElement DEF LedgerOK
<1>6. \A i \in RecordedRuns : Row(i)' = Row(i)
  BY <1>2 DEF RecordedRuns, Row
<1>s. (AllFit' => AllFit) /\ (NoneEarly' => NoneEarly)
  <2>1. \A i \in RecordedRuns : ledger'[i].startedAt = ledger[i].startedAt
    BY <1>2 DEF RecordedRuns
  <2> QED
    BY <1>4, <2>1, StartsStay
<1>7. ListingTypeOK'
  <2>1. owed' \subseteq IDs
    BY DEF WriteRun, ListInv, ListingTypeOK
  <2> QED
    BY <1>1, <1>2, <2>1 DEF ListInv, ListingTypeOK
<1>8. CursorPlace'
  <2>1. \A i \in 1..Len(reader.visited) : reader.visited[i] \in RecordedRuns
    BY DEF ListInv, CursorPlace
  <2>2. CASE reader.pc = "paging" /\ reader.after # Nil
    <3>1. /\ Len(reader.visited) > 0 /\ reader.after.id = reader.visited[Len(reader.visited)]
          /\ reader.after.t = UnixNano(Row(reader.after.id).t)
      BY <2>2 DEF ListInv, CursorPlace
    <3>2. reader.after.id \in RecordedRuns
      BY <2>1, <3>1, ListTypes
    <3>3. UnixNano(Row(reader.after.id).t)' = UnixNano(Row(reader.after.id).t)
      BY <1>1, <1>6, <3>2 DEF UnixNano
    <3> QED
      BY <1>1, <1>4, <2>1, <2>2, <3>1, <3>3 DEF CursorPlace
  <2>3. CASE ~(reader.pc = "paging" /\ reader.after # Nil)
    BY <1>1, <1>4, <2>1, <2>3 DEF ListInv, CursorPlace
  <2> QED
    BY <2>2, <2>3
<1>9. NeverRepeats'
  <2>1. \A i \in 1..Len(reader.visited) : Row(reader.visited[i])' = Row(reader.visited[i])
    BY <1>1, <1>6 DEF ListInv, CursorPlace
  <2> QED
    BY <1>1, <1>s, <2>1 DEF ListInv, NeverRepeats, Precedes
<1>10. ASSUME OwedAhead PROVE OwedAhead'
  <2>1. CASE reader.pc = "paging"
    <3> SUFFICES ASSUME NEW i \in owed'
                 PROVE  /\ Matches(reader.query, ledger'[i])
                        /\ i \in Range(reader.visited) \/ Ahead(Row(i))'
      BY <1>1, <2>1 DEF OwedAhead
    <3>1. CASE i = id
      <4>1. Matches(reader.query, r)
        BY <2>1, <3>1 DEF WriteRun
      <4>2. Row(id)' = [t |-> r.startedAt, id |-> id]
        BY <1>2 DEF Row
      <4>3. CASE Ahead([t |-> r.startedAt, id |-> id])
        BY <1>1, <1>2, <3>1, <4>1, <4>2, <4>3 DEF Ahead
      <4>4. CASE ~Ahead([t |-> r.startedAt, id |-> id])
        <5>1. id \in owed
          BY <2>1, <3>1, <4>1, <4>4 DEF WriteRun
        <5>2. Matches(reader.query, ledger[id])
          BY <1>10, <2>1, <5>1 DEF OwedAhead
        <5>3. id \in RecordedRuns
          BY <5>2 DEF Matches, RecordedRuns
        <5>4. Row(id) = [t |-> r.startedAt, id |-> id]
          BY <1>6, <4>2, <5>3
        <5>5. id \in Range(reader.visited)
          <6>1. ~Ahead(Row(id))
            BY <4>4, <5>4, Zenon
          <6> QED
            BY <1>10, <2>1, <5>1, <6>1, Zenon DEF OwedAhead
        <5> QED
          BY <1>2, <3>1, <4>1, <5>5
      <4> QED
        BY <4>3, <4>4
    <3>2. CASE i # id
      <4>1. i \in owed /\ i \in IDs
        BY <2>1, <3>2 DEF WriteRun, ListInv, ListingTypeOK
      <4>2. ledger'[i] = ledger[i] /\ Row(i)' = Row(i)
        BY <1>2, <3>2, <4>1 DEF Row
      <4>3. /\ Matches(reader.query, ledger[i])
            /\ i \in Range(reader.visited) \/ Ahead(Row(i))
        BY <1>10, <2>1, <4>1 DEF OwedAhead
      <4> QED
        BY <1>1, <4>2, <4>3 DEF Ahead
    <3> QED
      BY <3>1, <3>2
  <2>2. CASE reader.pc # "paging"
    <3>1. owed' = owed
      BY <2>2 DEF WriteRun
    <3> QED
      BY <1>1, <1>10, <2>2, <3>1 DEF OwedAhead
  <2> QED
    BY <2>1, <2>2
<1> QED
  BY <1>5, <1>7, <1>8, <1>9, <1>10, <1>s DEF ListInv

\* The rows after a cursor come after every row returned before, even where
\* the start time wraps back in the cursor.
LEMMA AfterVisited ==
    ASSUME ListingAssumption, ListInv, NoneEarly, reader.pc = "paging",
           NEW r \in Remaining(reader.query, reader.after),
           NEW i \in 1..Len(reader.visited)
    PROVE  Precedes(Row(reader.visited[i]), r)
<1> DEFINE last == reader.visited[Len(reader.visited)]
<1>1. /\ reader.after # Nil /\ reader.after.id = last
      /\ reader.after.t = UnixNano(Row(last).t)
  BY DEF ListInv, CursorPlace
<1>2. reader.visited[i] \in RecordedRuns /\ last \in RecordedRuns
  BY ListTypes DEF ListInv, CursorPlace
<1>3. /\ Row(last) \in ListRows /\ Row(last).id = last /\ Row(last).t \in Int
      /\ Row(reader.visited[i]) \in ListRows
  BY <1>2, RowOfRun, ListTypes DEF ListingAssumption
<1>4. r \in ListRows /\ IsAfterCursor(r, reader.after)
  BY <1>1, RemainingRows, ListTypes DEF Remaining
<1>5. UnixNano(Row(last).t) \in Int /\ UnixNano(Row(last).t) <= Row(last).t
  <2>1. Row(last).t \in StartTimes
    BY <1>2 DEF StartTimes, RecordedRuns, Row
  <2> QED
    BY <1>3, <2>1, NanoType DEF NoneEarly
<1>6. Precedes(Row(last), r)
  <2>1. r.t \in Int /\ r.id \in Nat /\ Row(last).id \in Nat
    BY <1>3, <1>4 DEF ListRows
  <2> QED
    BY <1>1, <1>3, <1>4, <1>5, <2>1 DEF IsAfterCursor, Precedes
<1>7. CASE i = Len(reader.visited)
  BY <1>6, <1>7
<1>8. CASE i # Len(reader.visited)
  <2>1. Precedes(Row(reader.visited[i]), Row(last))
    BY <1>8, ListTypes DEF ListInv, NeverRepeats
  <2>2. \A x, y, z \in ListRows : Precedes(x, y) /\ Precedes(y, z) => Precedes(x, z)
    BY DEF ListRows, Precedes
  <2> QED
    BY <1>3, <1>4, <1>6, <2>1, <2>2
<1> QED
  BY <1>7, <1>8

\* One page: what it adds comes after what was there, and in order.
LEMMA FetchListed ==
    ASSUME ListingAssumption, ListInv, ListPage
    PROVE  /\ ListInv'
           /\ AllFit /\ OwedAhead => OwedAhead'
<1> DEFINE R == Remaining(reader.query, reader.after)
<1>1. PICK page : page = MemoryList(reader.query, reader.after, reader.limit)
  OBVIOUS
<1>r. PICK ids, m, v, w : /\ ids = [i \in DOMAIN page.rows |-> page.rows[i].id]
                         /\ m = Len(page.rows) /\ v = Len(reader.visited)
                         /\ w = reader'.visited
  OBVIOUS
<1>2. /\ LedgerOK /\ reader.limit \in Nat \ {0} /\ reader.query \in Queries
      /\ reader.after \in [t : Int, id : IDs] \union {Nil}
      /\ reader.visited \in Seq(IDs)
  BY ListTypes DEF ListingAssumption
<1>3. /\ page.rows \in Seq(R)
      /\ \A i, j \in 1..m : i < j => Precedes(page.rows[i], page.rows[j])
      /\ page.next = Nil => \A r \in R : \E i \in 1..m : page.rows[i] = r
      /\ page.next # Nil =>
            /\ m > 0 /\ page.next = page.rows[m]
            /\ \A r \in R : \/ \E i \in 1..m : page.rows[i] = r
                            \/ Precedes(page.next, r)
  <2>1. PageOf(R, page)
    BY <1>1, <1>2, PageRows
  <2> QED
    BY <1>r, <2>1 DEF PageOf
<1>4. /\ reader.pc = "paging" /\ UNCHANGED <<ledger, owed>>
      /\ reader' = [reader EXCEPT !.pc = IF page.next = Nil THEN "done" ELSE "paging",
                                  !.after = CursorSent(page.next),
                                  !.visited = @ \o ids]
  BY <1>1, <1>r DEF ListPage
<1>5. \A r \in R : /\ r.id \in RecordedRuns /\ r.id \in IDs /\ r = Row(r.id)
                   /\ r.t \in Int /\ r.t \in StartTimes /\ r.id \in Nat
  <2>1. \A r \in R : r.id \in RecordedRuns /\ r = Row(r.id)
    BY <1>2, MatchingRows DEF Remaining
  <2>2. \A id \in RecordedRuns : Row(id).t \in Times /\ Row(id).t \in StartTimes /\ id \in IDs
    BY <1>2, RowOfRun DEF RecordedRuns, StartTimes
  <2> QED
    BY <2>1, <2>2 DEF ListingAssumption
<1>6. /\ ids \in Seq(IDs) /\ Len(ids) = m
      /\ \A i \in 1..m : page.rows[i] \in R /\ ids[i] = page.rows[i].id /\ Row(ids[i]) = page.rows[i]
  <2>1. m \in Nat /\ DOMAIN page.rows = 1..m /\ \A i \in 1..m : page.rows[i] \in R
    BY <1>3, <1>r
  <2>2. \A i \in 1..m : ids[i] = page.rows[i].id /\ ids[i] \in IDs
                        /\ Row(ids[i]) = page.rows[i]
    BY <1>5, <1>r, <2>1
  <2>3. ids \in [1..m -> IDs]
    BY <1>r, <2>1, <2>2
  <2> QED
    BY <2>1, <2>2, <2>3
<1>7. /\ reader' \in [pc : {"idle", "paging", "done"}, query : Queries,
                      limit : 1..MaxListLimit, after : Cursors \union {Nil}, visited : Seq(IDs)]
      /\ reader'.pc = IF page.next = Nil THEN "done" ELSE "paging"
      /\ reader'.after = CursorSent(page.next) /\ reader'.visited = reader.visited \o ids
      /\ reader'.query = reader.query
  <2>1. reader \in [pc : {"idle", "paging", "done"}, query : Queries,
                    limit : 1..MaxListLimit, after : Cursors \union {Nil}, visited : Seq(IDs)]
    BY DEF ListInv, ListingTypeOK
  <2>2. reader.visited \o ids \in Seq(IDs)
    BY <1>2, <1>6
  <2>3. CursorSent(page.next) \in Cursors \union {Nil}
    <3>1. CASE page.next = Nil
      BY <3>1 DEF CursorSent
    <3>2. CASE page.next # Nil
      <4>1. page.next \in R /\ page.next \in [t : Int, id : IDs]
        <5>1. page.next \in R
          <6>1. page.next = page.rows[m] /\ m \in 1..m
            BY <1>3, <1>r, <3>2
          <6> QED
            BY <1>6, <6>1
        <5> QED
          BY <1>2, <1>5, <5>1, RemainingRows DEF ListRows
      <4>2. UnixNano(page.next.t) \in Int
        BY <1>5, <4>1, NanoType
      <4> QED
        BY <3>2, <4>1, <4>2 DEF CursorSent, Cursors
    <3> QED
      BY <3>1, <3>2
  <2> QED
    BY <1>4, <2>1, <2>2, <2>3
<1> HIDE DEF R
<1>8. /\ w \in Seq(IDs) /\ Len(w) = v + m /\ v \in Nat /\ m \in Nat
      /\ \A i \in 1..v : w[i] = reader.visited[i]
      /\ \A i \in 1..m : w[v + i] = ids[i]
  <2>1. PICK u \in Seq(IDs) : u = reader.visited
    BY <1>2
  <2>2. v \in Nat /\ m \in Nat /\ v = Len(u) /\ m = Len(ids)
    BY <1>6, <1>r, <2>1
  <2>3. w = u \o ids
    BY <1>7, <1>r, <2>1
  <2>4. \A i \in 1..m : v + i > v /\ v + i \in 1..v + m /\ (v + i) - v = i
    BY <2>2
  <2>5. ids \in Seq(IDs)
    BY <1>6
  <2>6. w \in Seq(IDs) /\ Len(w) = v + m
    BY <2>2, <2>3, <2>5
  <2>7. \A i \in 1..v : w[i] = u[i]
    BY <2>2, <2>3, <2>5
  <2>8. \A i \in 1..m : w[v + i] = ids[i]
    BY <2>2, <2>3, <2>4, <2>5
  <2> QED
    BY <2>1, <2>2, <2>6, <2>7, <2>8
<1>9. /\ RecordedRuns' = RecordedRuns
      /\ \A id : Row(id)' = Row(id)
  BY <1>4 DEF RecordedRuns, Row
<1>10. ListingTypeOK'
  BY <1>4, <1>7 DEF ListInv, ListingTypeOK
<1>11. \A i \in 1..v + m : i \in 1..v \/ \E k \in 1..m : i = v + k
  <2> SUFFICES ASSUME NEW i \in 1..v + m, i \notin 1..v PROVE \E k \in 1..m : i = v + k
    OBVIOUS
  <2>1. i - v \in 1..m /\ i = v + (i - v)
    BY <1>8
  <2> QED
    BY <2>1
<1>12. CursorPlace'
  <2>1. \A i \in 1..v + m : w[i] \in RecordedRuns
    <3>1. \A i \in 1..v : reader.visited[i] \in RecordedRuns
      BY <1>r DEF ListInv, CursorPlace
    <3>2. \A i \in 1..m : ids[i] \in RecordedRuns
      BY <1>5, <1>6
    <3>3. ASSUME NEW i \in 1..v + m PROVE w[i] \in RecordedRuns
      <4>1. CASE i \in 1..v
        BY <1>8, <3>1, <4>1
      <4>2. CASE i \notin 1..v
        <5>1. PICK k \in 1..m : i = v + k
          BY <1>11, <4>2
        <5> QED
          BY <1>8, <3>2, <5>1
      <4> QED
        BY <4>1, <4>2
    <3> QED
      BY <3>3
  <2>2. CASE page.next = Nil
    BY <1>7, <1>8, <1>9, <1>r, <2>1, <2>2 DEF CursorPlace
  <2>3. CASE page.next # Nil
    <3>1. m > 0 /\ page.next = page.rows[m] /\ page.next \in R /\ page.next.id = ids[m]
          /\ Row(ids[m]) = page.next
      BY <1>3, <1>6, <1>8, <2>3
    <3>2. page.next \in ListRows
      BY <1>2, <3>1, RemainingRows DEF R
    <3>3. /\ reader'.after.t = UnixNano(page.next.t) /\ reader'.after.id = page.next.id
      BY <1>7, <2>3, <3>2 DEF CursorSent, ListRows
    <3>4. reader'.after # Nil
      <4>1. reader'.after = [page.next EXCEPT !.t = UnixNano(page.next.t)]
        BY <1>7, <2>3 DEF CursorSent
      <4>2. UnixNano(page.next.t) \in Int /\ page.next.id \in IDs
        BY <1>5, <3>1, NanoType
      <4>3. reader'.after \in [t : Int, id : IDs]
        BY <3>2, <4>1, <4>2 DEF ListRows
      <4> QED
        BY <4>3 DEF ListingAssumption
    <3>5. w[v + m] = ids[m] /\ v + m > 0
      BY <1>8, <3>1
    <3>6. UnixNano(Row(ids[m]).t)' = UnixNano(page.next.t)
      <4>1. Row(ids[m])' = page.next
        BY <1>9, <3>1
      <4> QED
        BY <4>1 DEF UnixNano
    <3> QED
      BY <1>8, <1>9, <1>r, <2>1, <3>1, <3>3, <3>4, <3>5, <3>6 DEF CursorPlace
  <2> QED
    BY <2>2, <2>3
<1>13. ASSUME NoneEarly PROVE NeverRepeats'
  <2>1. \A i, j \in 1..v : i < j => Precedes(Row(reader.visited[i]), Row(reader.visited[j]))
    BY <1>13, <1>r DEF ListInv, NeverRepeats
  <2>2. \A i \in 1..v, k \in 1..m : Precedes(Row(reader.visited[i]), Row(ids[k]))
    <3>1. SUFFICES ASSUME NEW i \in 1..v, NEW k \in 1..m
          PROVE  Precedes(Row(reader.visited[i]), Row(ids[k]))
      OBVIOUS
    <3>2. Row(ids[k]) \in Remaining(reader.query, reader.after)
      BY <1>6, <3>1 DEF R
    <3>3. i \in 1..Len(reader.visited)
      BY <1>r, <3>1
    <3> QED
      BY <1>4, <1>13, <3>2, <3>3, AfterVisited
  <2>3. \A j, k \in 1..m : j < k => Precedes(Row(ids[j]), Row(ids[k]))
    BY <1>3, <1>6
  <2>4. \A i, j \in 1..v + m :
           i < j => Precedes(Row(w[i]), Row(w[j]))
    <3> SUFFICES ASSUME NEW i \in 1..v + m, NEW j \in 1..v + m, i < j
                 PROVE  Precedes(Row(w[i]), Row(w[j]))
      OBVIOUS
    <3>1. CASE i \in 1..v /\ j \in 1..v
      BY <1>8, <2>1, <3>1
    <3>2. CASE i \in 1..v /\ \E k \in 1..m : j = v + k
      BY <1>8, <2>2, <3>2
    <3>3. CASE (\E k \in 1..m : i = v + k) /\ (\E k \in 1..m : j = v + k)
      <4>1. PICK a \in 1..m, b \in 1..m : i = v + a /\ j = v + b
        BY <3>3
      <4>2. a < b
        BY <1>8, <4>1
      <4> QED
        BY <1>8, <2>3, <4>1, <4>2
    <3>4. CASE (\E k \in 1..m : i = v + k) /\ j \in 1..v
      BY <1>8, <3>4
    <3> QED
      BY <1>11, <3>1, <3>2, <3>3, <3>4
  <2>5. \A i \in 1..v + m : Row(reader.visited[i])' = Row(w[i])
    BY <1>4, <1>r DEF Row
  <2>6. Len(reader.visited)' = v + m
    BY <1>8, <1>r
  <2>7. ASSUME NEW i \in 1..v + m, NEW j \in 1..v + m, i < j
        PROVE  Precedes(Row(reader.visited[i])', Row(reader.visited[j])')
    BY <2>4, <2>5, <2>7
  <2> QED
    BY <2>6, <2>7 DEF NeverRepeats, Precedes
<1>14. ASSUME AllFit, OwedAhead PROVE OwedAhead'
  <2>1. \A i \in 1..m : ids[i] \in Range(w)
    <3>1. \A i \in 1..m : v + i \in 1..v + m
      BY <1>8
    <3>2. DOMAIN w = 1..v + m
      BY <1>8
    <3> QED
      BY <1>8, <3>1, <3>2, Zenon DEF Range
  <2>2. \A id \in Range(reader.visited) : id \in Range(w)
    <3>1. \A i \in 1..v : i \in 1..v + m
      BY <1>8
    <3>2. DOMAIN reader.visited = 1..v
      BY <1>2, <1>r
    <3>3. DOMAIN w = 1..v + m
      BY <1>8
    <3> QED
      BY <1>8, <3>1, <3>2, <3>3 DEF Range
  <2>3. \A id \in owed : /\ Matches(reader.query, ledger[id]) /\ id \in IDs
                         /\ id \in Range(reader.visited) \/ Row(id) \in R
    <3> TAKE id \in owed
    <3>1. /\ Matches(reader.query, ledger[id]) /\ id \in IDs
          /\ id \in Range(reader.visited) \/ Ahead(Row(id))
      BY <1>4, <1>14 DEF OwedAhead, ListInv, ListingTypeOK
    <3>2. Row(id) \in Matching(reader.query)
      BY <1>2, <3>1, MatchingRows
    <3> QED
      BY <3>1, <3>2 DEF Ahead, Remaining, R
  <2>4. \A id \in owed : (\E i \in 1..m : page.rows[i] = Row(id)) => id \in Range(w)
    <3> SUFFICES ASSUME NEW id \in owed, NEW i \in 1..m, page.rows[i] = Row(id)
                 PROVE  id \in Range(w)
      OBVIOUS
    <3>1. ids[i] = id
      <4>1. ids[i] = page.rows[i].id
        BY <1>6
      <4>2. Row(id).id = id
        BY DEF Row
      <4> QED
        BY <4>1, <4>2
    <3> QED
      BY <2>1, <3>1
  <2>5. CASE page.next = Nil
    <3>1. \A id \in owed : id \in Range(w)
      BY <1>3, <2>2, <2>3, <2>4, <2>5
    <3> QED
      BY <1>4, <1>7, <1>r, <2>5, <3>1 DEF OwedAhead
  <2>6. CASE page.next # Nil
    <3>1. page.next \in R /\ page.next \in ListRows
      <4>1. page.next \in R
        BY <1>3, <1>6, <2>6, <1>8
      <4> QED
        BY <1>2, <4>1, RemainingRows DEF R
    <3>2. CursorSent(page.next) = page.next
      <4>1. UnixNano(page.next.t) = page.next.t
        BY <1>5, <1>14, <3>1 DEF AllFit, Fits
      <4> QED
        BY <2>6, <3>1, <4>1 DEF CursorSent, ListRows
    <3>3. \A r \in R : Precedes(page.next, r) => IsAfterCursor(r, page.next)
      <4>1. \A r \in R : r.t \in Int /\ r.id \in Nat
        BY <1>5
      <4> QED
        BY <3>1, <4>1 DEF Precedes, IsAfterCursor
    <3>4. \A id \in owed : id \in Range(w) \/ IsAfterCursor(Row(id), reader'.after)
      BY <1>3, <1>7, <2>2, <2>3, <2>4, <2>6, <3>2, <3>3
    <3>5. \A id \in owed : /\ Matches(reader.query, ledger[id])
                           /\ id \in Range(w) \/ Ahead(Row(id))'
      BY <1>9, <2>3, <3>4 DEF Ahead, IsAfterCursor
    <3> QED
      BY <1>4, <1>7, <1>r, <2>6, <3>5 DEF OwedAhead
  <2> QED
    BY <2>5, <2>6
<1>15. NoneEarly' => NoneEarly
  BY <1>4, <1>9, StartsStay
<1> QED
  BY <1>9, <1>10, <1>12, <1>13, <1>14, <1>15 DEF ListInv, NeverRepeats

LEMMA ListNext ==
    ASSUME ListingAssumption, ListInv, [ListingNext]_listingVars
    PROVE  ListInv' /\ (AllFit' => AllFit) /\ (AllFit /\ OwedAhead => OwedAhead')
<1>1. ASSUME NEW q \in Queries, NEW limit \in 1..MaxListLimit + 1, BeginList(q, limit)
      PROVE  ListInv' /\ (AllFit' => AllFit) /\ (AllFit /\ OwedAhead => OwedAhead')
  <2>1. RecordedRuns' = RecordedRuns /\ ledger' = ledger
    BY <1>1 DEF BeginList, RecordedRuns
  <2> QED
    BY <1>1, <2>1, BeginListing, StartsStay
<1>2. CASE ListPage
  <2>1. RecordedRuns' = RecordedRuns /\ ledger' = ledger
    BY <1>2 DEF ListPage, RecordedRuns
  <2> QED
    BY <1>2, <2>1, FetchListed, StartsStay
<1>3. ASSUME NEW id \in IDs, NEW t \in Times, NEW l \in Labels, RecordRun(id, t, l)
      PROVE  ListInv' /\ (AllFit' => AllFit) /\ (AllFit /\ OwedAhead => OwedAhead')
  <2>1. [startedAt |-> t, label |-> l] \in [startedAt : Times, label : Labels]
    OBVIOUS
  <2> QED
    BY <1>3, <2>1, WriteListed DEF RecordRun
<1>4. ASSUME NEW id \in IDs, NEW l \in Labels, PatchRun(id, l)
      PROVE  ListInv' /\ (AllFit' => AllFit) /\ (AllFit /\ OwedAhead => OwedAhead')
  <2> DEFINE r == [ledger[id] EXCEPT !.label = l]
  <2>1. ledger[id] \in [startedAt : Times, label : Labels]
    BY <1>4 DEF PatchRun, ListInv, ListingTypeOK
  <2>2. /\ r \in [startedAt : Times, label : Labels]
        /\ r.startedAt = ledger[id].startedAt
    BY <2>1
  <2>3. WriteRun(id, r)
    BY <1>4 DEF PatchRun
  <2> HIDE DEF r
  <2> QED
    BY <2>2, <2>3, WriteListed
<1>5. CASE UNCHANGED listingVars
  <2>1. ledger' = ledger /\ reader' = reader /\ owed' = owed
    BY <1>5 DEF listingVars
  <2> QED
    BY <2>1 DEF ListInv, ListingTypeOK, RecordedRuns, CursorPlace, NeverRepeats, Row,
                Precedes, UnixNano, OwedAhead, Ahead, Matches, IsAfterCursor, AllFit,
                NoneEarly, StartTimes, Fits
<1> QED
  BY <1>1, <1>2, <1>3, <1>4, <1>5 DEF ListingNext

\* However the ledger changes under a traversal, the cursor is at the last run
\* it was given, and what it was given is in order.
THEOREM ListingInvariant ==
    ASSUME ListingAssumption PROVE ListingSpec => []ListInv
<1>1. ListingInit => ListInv
  BY ListInit
<1>2. ListInv /\ [ListingNext]_listingVars => ListInv'
  BY ListNext
<1> QED
  BY <1>1, <1>2, PTL DEF ListingSpec

\* Ledger and traversal have their types, and parseLimit bounds every page.
THEOREM ListingTypeCorrect ==
    ASSUME ListingAssumption PROVE ListingSpec => []ListingTypeOK
<1>1. ListInv => ListingTypeOK
  BY DEF ListInv
<1> QED
  BY <1>1, ListingInvariant, PTL

\* List with a cursor: no run is returned twice, or out of order, whatever is recorded and
\* patched between two pages, for every page size, unless a start time on record is so early
\* that the cursor wraps forward.
THEOREM RunsNeverRepeated ==
    ASSUME ListingAssumption PROVE ListingSpec => []NeverRepeats
<1>1. ListInv => NeverRepeats
  BY DEF ListInv
<1> QED
  BY <1>1, ListingInvariant, PTL

\* List with a cursor: a traversal that came to its end has returned every run that went on
\* matching from before the cursor passed it, when the start times on record fit an int64.
THEOREM RunsNeverSkipped ==
    ASSUME ListingAssumption PROVE ListingSpec => []NeverSkips
<1> DEFINE Inv == ListInv /\ (AllFit => OwedAhead)
<1>1. ListingInit => Inv
  BY ListInit
<1>2. Inv /\ [ListingNext]_listingVars => Inv'
  BY ListNext
<1>3. Inv => NeverSkips
  BY DEF OwedAhead, NeverSkips, AllListed
<1> HIDE DEF Inv
<1> QED
  BY <1>1, <1>2, <1>3, PTL DEF ListingSpec

\* Memory.List and DuckDB.List give the same rows and the same cursor for every query,
\* cursor and limit, in every state of the ledger in which the start times on record and the
\* bounds of the query fit the int64 columns.
THEOREM BackendsReturnTheSame ==
    ASSUME ListingAssumption PROVE ListingSpec => []BackendsAgree
<1>1. ListInv => BackendsAgree
  <2> SUFFICES ASSUME ListInv, AllFit, Fits(reader.query.since), Fits(reader.query.until),
                      NEW limit \in 0..MaxListLimit,
                      NEW after \in {Row(id) : id \in {i \in IDs : ledger[i] # NoRow}}
                                      \union {Nil}
               PROVE  LET memory == MemoryList(reader.query, after, limit)
                          duck   == DuckList(reader.query, after, limit)
                      IN  memory.rows = duck.rows /\ memory.next = duck.next
    BY DEF BackendsAgree
  <2>1. LedgerOK
    BY ListTypes
  <2>2. /\ after \in [t : Int, id : IDs] \union {Nil}
        /\ after # Nil => Fits(after.t)
    <3> SUFFICES ASSUME NEW id \in RecordedRuns
                 PROVE  Row(id) \in [t : Int, id : IDs] /\ Fits(Row(id).t)
      BY DEF RecordedRuns
    <3>1. Row(id) \in ListRows /\ id \in IDs /\ Row(id).id = id
      BY <2>1, RowOfRun DEF RecordedRuns
    <3>2. Row(id).t \in StartTimes
      BY DEF StartTimes, Row, RecordedRuns
    <3> QED
      BY <3>1, <3>2 DEF ListRows, AllFit
  <2>3. limit \in Nat
    OBVIOUS
  <2> QED
    BY <2>1, <2>2, <2>3, MemoryPage, DuckPage
<1> QED
  BY <1>1, ListingInvariant, PTL

-----------------------------------------------------------------------------
(* Extremes of finite sets of numbers.                                     *)

\* A finite set has an element that no other is above.
LEMMA Maximal ==
    ASSUME NEW S, IsFiniteSet(S), S # {}, NEW R,
           \A x \in S : <<x, x>> \notin R,
           \A x, y, z \in S : <<x, y>> \in R /\ <<y, z>> \in R => <<x, z>> \in R
    PROVE  \E x \in S : \A y \in S : <<y, x>> \notin R
<1> DEFINE above(x) == Before(R, S, x)
           T == {Cardinality(above(x)) : x \in S}
<1>1. \A x \in S : IsFiniteSet(above(x)) /\ Cardinality(above(x)) \in Nat
  <2> TAKE x \in S
  <2>1. above(x) \in SUBSET S
    BY DEF Before
  <2> QED
    BY <2>1, FS_Subset, FS_CardinalityType
<1>2. T \in SUBSET Nat /\ T # {}
  BY <1>1
<1>3. PICK n \in T : \A m \in T : n <= m
  BY <1>2, Least
<1>4. PICK x \in S : Cardinality(above(x)) = n
  BY <1>3
<1>5. ASSUME NEW y \in S, <<y, x>> \in R PROVE FALSE
  <2>1. above(y) \in SUBSET above(x) /\ y \in above(x) /\ y \notin above(y)
    BY <1>5 DEF Before
  <2>2. Cardinality(above(y)) <= Cardinality(above(x)) /\ Cardinality(above(y)) # Cardinality(above(x))
    BY <1>1, <2>1, FS_Subset
  <2>3. n <= Cardinality(above(y))
    BY <1>3
  <2> QED
    BY <1>1, <1>4, <2>2, <2>3
<1> QED
  BY <1>5

LEMMA Extremes ==
    ASSUME NEW S, IsFiniteSet(S), S # {}, S \subseteq Int
    PROVE  /\ Min(S) \in S /\ \A y \in S : Min(S) <= y
           /\ Max(S) \in S /\ \A y \in S : Max(S) >= y
<1> DEFINE Lt == {p \in S \X S : p[1] < p[2]}
           Gt == {p \in S \X S : p[1] > p[2]}
<1>1. /\ \A x, y \in S : <<x, y>> \in Lt <=> x < y
      /\ \A x, y \in S : <<x, y>> \in Gt <=> x > y
  OBVIOUS
<1> HIDE DEF Lt, Gt
<1>2. \E x \in S : \A y \in S : <<y, x>> \notin Lt
  <2>1. /\ \A x \in S : <<x, x>> \notin Lt
        /\ \A x, y, z \in S : <<x, y>> \in Lt /\ <<y, z>> \in Lt => <<x, z>> \in Lt
    BY <1>1
  <2> QED
    BY <2>1, Maximal
<1>3. \E x \in S : \A y \in S : <<y, x>> \notin Gt
  <2>1. /\ \A x \in S : <<x, x>> \notin Gt
        /\ \A x, y, z \in S : <<x, y>> \in Gt /\ <<y, z>> \in Gt => <<x, z>> \in Gt
    BY <1>1
  <2> QED
    BY <2>1, Maximal
<1>0. \A x, y \in S : (~(y < x) => x <= y) /\ (~(y > x) => x >= y)
  OBVIOUS
<1>4. \E x \in S : \A y \in S : x <= y
  BY <1>0, <1>1, <1>2, Zenon
<1>5. \E x \in S : \A y \in S : x >= y
  BY <1>0, <1>1, <1>3, Zenon
<1> QED
  BY <1>4, <1>5 DEF Min, Max

LEMMA FiniteRange ==
    ASSUME NEW S, IsFiniteSet(S), NEW f, f = [x \in S |-> f[x]]
    PROVE  IsFiniteSet({f[x] : x \in S}) /\ Range(f) = {f[x] : x \in S}
<1>1. DOMAIN f = S
  OBVIOUS
<1>2. f \in Surjection(S, {f[x] : x \in S})
  BY DEF Surjection
<1> QED
  BY <1>1, <1>2, FS_Surjection DEF Range

\* What Stat says of values reported by at most n runs.
StatOK(s, n, reported) ==
    /\ s.count \in 1..n
    /\ s.min <= s.max /\ {s.min, s.max} \subseteq reported
    /\ s.mean \in Int /\ CV(s.stddev, s.mean) \in Nat \union {-1}

LEMMA StatFacts ==
    ASSUME SpreadAssumption, FloatAssumption,
           NEW D \in SUBSET RunIDs, IsFiniteSet(D), D # {}, NEW values \in [D -> MetricValues]
    PROVE  /\ Stat(values).count = Cardinality(D)
           /\ Stat(values).min <= Stat(values).max
           /\ {Stat(values).min, Stat(values).max} \subseteq {values[id] : id \in D}
           /\ Stat(values).mean \in Int
           /\ CV(Stat(values).stddev, Stat(values).mean) \in Nat \union {-1}
<1>1. PICK S : S = {values[id] : id \in D}
  OBVIOUS
<1>2. IsFiniteSet(S) /\ Range(values) = S /\ DOMAIN values = D
  BY <1>1, FiniteRange
<1>3. S # {} /\ S \subseteq Int
  BY <1>1 DEF SpreadAssumption
<1>4. Min(S) \in S /\ Max(S) \in S /\ Min(S) <= Max(S)
  BY <1>2, <1>3, Extremes
<1>5. /\ Mean(values) \in Int
      /\ CV(StdDev(values), Mean(values)) \in Nat \union {-1}
  <2>1. D \in (SUBSET RunIDs) \ {{}}
    OBVIOUS
  <2> QED
    BY <2>1, Zenon DEF FloatAssumption
<1> QED
  BY <1>1, <1>2, <1>4, <1>5 DEF Stat

-----------------------------------------------------------------------------
(* Spread: the ledger.                                                     *)

\* A recorded run, whose fingerprint is computed from its own project and seed.
RunOK(r) ==
    /\ r \in [project : Projects, seed : Seeds, device : Devices, fingerprint : Projects \X Seeds,
             status : {"running", "succeeded"},
             metrics : UNION {[keys -> MetricValues] : keys \in SUBSET MetricKeys}]
    /\ r.fingerprint = FingerprintOf(r.project, r.seed)
    /\ IsFiniteSet(DOMAIN r.metrics)

LEMMA RunFacts ==
    ASSUME NEW r, RunOK(r)
    PROVE  /\ r.project \in Projects /\ r.seed \in Seeds
           /\ r.fingerprint = FingerprintOf(r.project, r.seed)
           /\ r.metrics = [k \in DOMAIN r.metrics |-> r.metrics[k]]
           /\ DOMAIN r.metrics \subseteq MetricKeys /\ IsFiniteSet(DOMAIN r.metrics)
           /\ \A k \in DOMAIN r.metrics : r.metrics[k] \in MetricValues
<1>1. PICK K \in SUBSET MetricKeys : r.metrics \in [K -> MetricValues]
  BY DEF RunOK
<1> QED
  BY <1>1 DEF RunOK

\* Only finitely many runs are recorded at any time, whatever RunIDs is.
RunsOK ==
    /\ runs = [id \in RunIDs |-> runs[id]]
    /\ IsFiniteSet(Recorded)
    /\ \A id \in Recorded : RunOK(runs[id])

LEMMA LedgerInit ==
    ASSUME Init PROVE RunsOK
<1>1. Recorded = {}
  BY DEF Init, Recorded
<1> QED
  BY <1>1, FS_EmptySet DEF Init, RunsOK

\* One run is written, with its types.
LEMMA LedgerWrite ==
    ASSUME RunsOK, NEW id \in RunIDs, NEW r, NEW groups, Write(id, r, groups), RunOK(r)
    PROVE  RunsOK'
<1>1. /\ runs' = [i \in RunIDs |-> IF i = id THEN r ELSE runs[i]]
  BY DEF RunsOK, Write
<1>2. Recorded' \subseteq Recorded \union {id}
  BY <1>1 DEF Recorded
<1>3. IsFiniteSet(Recorded')
  <2>1. IsFiniteSet(Recorded \union {id})
    BY FS_AddElement DEF RunsOK
  <2> QED
    BY <1>2, <2>1, FS_Subset
<1>4. ASSUME NEW i \in Recorded' PROVE RunOK(runs'[i])
  <2>1. CASE i = id
    BY <1>1, <2>1 DEF Recorded
  <2>2. CASE i # id
    <3>1. i \in Recorded /\ i \in RunIDs
      BY <1>2, <2>2 DEF Recorded
    <3>2. runs'[i] = runs[i]
      BY <1>1, <2>2, <3>1
    <3> QED
      BY <3>1, <3>2 DEF RunsOK
  <2> QED
    BY <2>1, <2>2
<1>5. (\A i \in Recorded : RunOK(runs[i]))'
  BY <1>4
<1>6. (runs = [i \in RunIDs |-> runs[i]])'
  BY <1>1
<1> QED
  BY <1>3, <1>5, <1>6 DEF RunsOK

Fps == {runs[id].fingerprint : id \in Recorded}

\* What every write does: the run keeps its fingerprint, a finished one is not
\* written, and only a group in groups gains a member or a finished run.
Written(id, r, groups) ==
    /\ Write(id, r, groups) /\ RunOK(r) /\ groups \subseteq Projects \X Seeds
    /\ id \in Recorded => r.fingerprint = runs[id].fingerprint /\ ~Terminal(runs[id].status)
    /\ id \notin Recorded => r.fingerprint \in Fps \union groups
    /\ Terminal(r.status) => r.fingerprint \in groups

LEMMA RecordWrites ==
    ASSUME NEW id \in RunIDs, NEW p \in Projects, NEW s \in Seeds, NEW d \in Devices,
           Record(id, p, s, d)
    PROVE  \E r, groups : Written(id, r, groups)
<1>1. PICK r : r = [project |-> p, seed |-> s, device |-> d, fingerprint |-> FingerprintOf(p, s),
                    status |-> "running", metrics |-> NoMetrics]
  OBVIOUS
<1>2. PICK groups : groups = {FingerprintOf(p, s)} \ Fps
  OBVIOUS
<1>3. Write(id, r, groups) /\ id \notin Recorded /\ groups \subseteq Projects \X Seeds
  BY <1>1, <1>2 DEF Record, Fps, Recorded, FingerprintOf
<1>4. DOMAIN NoMetrics = {} /\ NoMetrics \in [{} -> MetricValues]
  BY DEF NoMetrics
<1>5. NoMetrics \in UNION {[keys -> MetricValues] : keys \in SUBSET MetricKeys}
  BY <1>4
<1>6. RunOK(r)
  BY <1>1, <1>4, <1>5, FS_EmptySet DEF RunOK, FingerprintOf
<1>7. r.fingerprint = FingerprintOf(p, s) /\ ~Terminal(r.status)
  BY <1>1 DEF Terminal
<1>8. Written(id, r, groups)
  BY <1>2, <1>3, <1>6, <1>7 DEF Written
<1> QED
  BY <1>8

LEMMA LogMetricWrites ==
    ASSUME RunsOK, NEW id \in RunIDs, NEW k \in MetricKeys, NEW v \in MetricValues,
           LogMetric(id, k, v)
    PROVE  \E r, groups : Written(id, r, groups)
<1>1. PICK r : r = [runs[id] EXCEPT !.metrics =
                      [m \in DOMAIN @ \union {k} |-> IF m = k THEN v ELSE @[m]]]
  OBVIOUS
<1>2. Write(id, r, {}) /\ id \in Recorded /\ ~Terminal(runs[id].status)
  BY <1>1 DEF LogMetric
<1>3. PICK old : old = runs[id].metrics
  OBVIOUS
<1>4. RunOK(runs[id])
  BY <1>2 DEF RunsOK
<1> DEFINE new == [m \in DOMAIN old \union {k} |-> IF m = k THEN v ELSE old[m]]
<1>5. r = [runs[id] EXCEPT !.metrics = new]
  BY <1>1, <1>3, <1>4 DEF RunOK
<1>6. /\ IsFiniteSet(DOMAIN old) /\ DOMAIN old \subseteq MetricKeys
      /\ \A m \in DOMAIN old : old[m] \in MetricValues
  BY <1>3, <1>4, RunFacts
<1>7. IsFiniteSet(DOMAIN new)
  BY <1>6, FS_AddElement
<1>8. new \in [DOMAIN old \union {k} -> MetricValues] /\ DOMAIN old \union {k} \in SUBSET MetricKeys
  BY <1>6
<1>9. new \in UNION {[keys -> MetricValues] : keys \in SUBSET MetricKeys}
  BY <1>8
<1> HIDE DEF new
<1>10. RunOK(r) /\ r.fingerprint = runs[id].fingerprint /\ r.status = runs[id].status
  BY <1>4, <1>5, <1>7, <1>9 DEF RunOK
<1>11. Written(id, r, {})
  BY <1>2, <1>10 DEF Written
<1> QED
  BY <1>11

LEMMA FinishWrites ==
    ASSUME RunsOK, NEW id \in RunIDs, Finish(id)
    PROVE  \E r, groups : Written(id, r, groups)
<1>1. PICK r : r = [runs[id] EXCEPT !.status = "succeeded"]
  OBVIOUS
<1>2. /\ Write(id, r, {runs[id].fingerprint}) /\ RunOK(runs[id])
      /\ id \in Recorded /\ ~Terminal(runs[id].status)
  BY <1>1 DEF Finish, RunsOK
<1>3. /\ RunOK(r) /\ r.fingerprint = runs[id].fingerprint
      /\ {runs[id].fingerprint} \subseteq Projects \X Seeds
  BY <1>1, <1>2 DEF RunOK
<1>4. Written(id, r, {runs[id].fingerprint})
  BY <1>2, <1>3 DEF Written
<1> QED
  BY <1>4

LEMMA LedgerNext ==
    ASSUME RunsOK, [Next]_vars PROVE RunsOK'
<1>1. ASSUME UNCHANGED runs PROVE RunsOK'
  BY <1>1 DEF RunsOK, Recorded
<1>2. ASSUME NEW p \in Projects \union {None}, NEW n \in MinRuns, NEW limit \in 1..MaxLimit,
             Begin(p, n, limit)
      PROVE  RunsOK'
  BY <1>1, <1>2 DEF Begin
<1>3. CASE FetchPage
  BY <1>1, <1>3 DEF FetchPage
<1>4. ASSUME NEW id \in RunIDs, \E r, groups : Written(id, r, groups) PROVE RunsOK'
  BY <1>4, LedgerWrite DEF Written
<1>5. ASSUME NEW id \in RunIDs, NEW p \in Projects, NEW s \in Seeds, NEW d \in Devices,
             Record(id, p, s, d)
      PROVE  RunsOK'
  BY <1>4, <1>5, RecordWrites
<1>6. ASSUME NEW id \in RunIDs, NEW k \in MetricKeys, NEW v \in MetricValues, LogMetric(id, k, v)
      PROVE  RunsOK'
  BY <1>4, <1>6, LogMetricWrites
<1>7. ASSUME NEW id \in RunIDs, Finish(id) PROVE RunsOK'
  BY <1>4, <1>7, FinishWrites
<1>8. CASE UNCHANGED vars
  BY <1>1, <1>8 DEF vars
<1> QED
  BY <1>2, <1>3, <1>5, <1>6, <1>7, <1>8 DEF Next

\* In every reachable state the ledger has its types.
THEOREM LedgerInvariant == Spec => []RunsOK
  BY LedgerInit, LedgerNext, PTL DEF Spec

-----------------------------------------------------------------------------
(* Spread: one group.                                                      *)

\* The values of a metric that some of these runs reported.
Reported(ids, k) == {runs[id].metrics[k] : id \in {r \in ids : k \in DOMAIN runs[r].metrics}}

GroupOK(g) ==
    /\ g.count \in Nat
    /\ IsFiniteSet(DOMAIN g.metrics)
    /\ \A k \in DOMAIN g.metrics : StatOK(g.metrics[k], g.count, Reported(g.ids, k))

LEMMA StatsOfRuns ==
    ASSUME SpreadAssumption, FloatAssumption, RunsOK, NEW ids, ids \subseteq Recorded
    PROVE  /\ IsFiniteSet(ids) /\ Cardinality(ids) \in Nat
           /\ IsFiniteSet(DOMAIN MetricStats(ids))
           /\ \A k \in DOMAIN MetricStats(ids) :
                 StatOK(MetricStats(ids)[k], Cardinality(ids), Reported(ids, k))
<1> DEFINE reporting(k) == {id \in ids : k \in DOMAIN runs[id].metrics}
           keys == {m \in MetricKeys : reporting(m) # {}}
           values(k) == [id \in reporting(k) |-> runs[id].metrics[k]]
<1>1. IsFiniteSet(ids) /\ Cardinality(ids) \in Nat
  BY FS_Subset, FS_CardinalityType DEF RunsOK
<1>2. \A id \in ids : RunOK(runs[id]) /\ id \in RunIDs
  BY DEF RunsOK, Recorded
<1>3. IsFiniteSet(keys)
  <2>0. PICK reported : reported = [id \in ids |-> DOMAIN runs[id].metrics]
    OBVIOUS
  <2>1. IsFiniteSet({reported[id] : id \in ids})
    <3>1. reported = [id \in ids |-> reported[id]]
      BY <2>0
    <3> QED
      BY <1>1, <3>1, FiniteRange
  <2>2. \A T \in {reported[id] : id \in ids} : IsFiniteSet(T)
    BY <1>2, <2>0, RunFacts
  <2>3. IsFiniteSet(UNION {reported[id] : id \in ids})
    BY <2>1, <2>2, FS_UNION
  <2>4. keys \subseteq UNION {reported[id] : id \in ids}
    BY <2>0
  <2> QED
    BY <2>3, <2>4, FS_Subset
<1>4. MetricStats(ids) = [k \in keys |-> Stat(values(k))]
  BY DEF MetricStats
<1>5. ASSUME NEW k \in keys PROVE StatOK(Stat(values(k)), Cardinality(ids), Reported(ids, k))
  <2>1. PICK D : D = reporting(k)
    OBVIOUS
  <2>2. D # {} /\ D \subseteq ids /\ D \in SUBSET RunIDs
    BY <1>2, <2>1
  <2>3. /\ IsFiniteSet(D) /\ Cardinality(D) \in Nat /\ Cardinality(D) <= Cardinality(ids)
        /\ Cardinality(D) # 0
    BY <1>1, <2>2, FS_Subset, FS_CardinalityType, FS_EmptySet
  <2>4. \A id \in D : runs[id].metrics[k] \in MetricValues
    BY <1>2, <2>1, RunFacts
  <2>5. PICK v : v = [id \in D |-> runs[id].metrics[k]]
    OBVIOUS
  <2>6. v \in [D -> MetricValues] /\ values(k) = v
    BY <2>1, <2>4, <2>5
  <2>7. {v[id] : id \in D} = Reported(ids, k)
    BY <2>1, <2>5 DEF Reported
  <2>8. /\ Stat(v).count = Cardinality(D) /\ Stat(v).min <= Stat(v).max
        /\ {Stat(v).min, Stat(v).max} \subseteq {v[id] : id \in D}
        /\ Stat(v).mean \in Int /\ CV(Stat(v).stddev, Stat(v).mean) \in Nat \union {-1}
    BY <2>2, <2>3, <2>6, StatFacts
  <2>9. Cardinality(D) \in 1..Cardinality(ids)
    BY <1>1, <2>3
  <2>10. StatOK(Stat(v), Cardinality(ids), Reported(ids, k))
    BY <2>7, <2>8, <2>9 DEF StatOK
  <2> QED
    BY <2>6, <2>10
<1> HIDE DEF keys, values
<1> QED
  BY <1>1, <1>3, <1>4, <1>5

LEMMA GroupFacts ==
    ASSUME SpreadAssumption, FloatAssumption, RunsOK, NEW fp, NEW ids, ids \subseteq Recorded
    PROVE  GroupOK(One(fp, ids)) /\ One(fp, ids).fingerprint = fp
<1> DEFINE terminal == {id \in ids : Terminal(runs[id].status)}
           repeats == Cardinality(terminal) >= 2
<1>1. PICK g : g = One(fp, ids)
  OBVIOUS
<1>2. /\ g.fingerprint = fp /\ g.ids = terminal /\ g.count = Cardinality(terminal)
      /\ g.metrics = IF repeats THEN MetricStats(terminal) ELSE NoMetrics
  BY <1>1 DEF One
<1>3. terminal \subseteq Recorded
  OBVIOUS
<1> HIDE DEF terminal
<1>4. CASE repeats
  <2>1. g.metrics = MetricStats(terminal)
    BY <1>2, <1>4
  <2> QED
    BY <1>1, <1>2, <1>3, <2>1, StatsOfRuns DEF GroupOK
<1>5. CASE ~repeats
  <2>1. DOMAIN g.metrics = {}
    BY <1>2, <1>5 DEF NoMetrics
  <2> QED
    BY <1>1, <1>2, <1>3, <2>1, StatsOfRuns, FS_EmptySet DEF GroupOK
<1> QED
  BY <1>4, <1>5

LEMMA GroupsFacts ==
    ASSUME SpreadAssumption, FloatAssumption, RunsOK, NEW ids, ids \subseteq Recorded
    PROVE  /\ IsFiniteSet(Groups(ids))
           /\ \A g \in Groups(ids) : GroupOK(g) /\ g.fingerprint \in Projects \X Seeds
           /\ \A g, h \in Groups(ids) : g.fingerprint = h.fingerprint => g = h
<1> DEFINE fps == {runs[id].fingerprint : id \in ids}
           under(fp) == {id \in ids : runs[id].fingerprint = fp}
<1>1. Groups(ids) = {One(fp, under(fp)) : fp \in fps}
  BY DEF Groups
<1>2. \A fp \in fps : GroupOK(One(fp, under(fp))) /\ One(fp, under(fp)).fingerprint = fp
  <2> TAKE fp \in fps
  <2>1. under(fp) \subseteq Recorded
    OBVIOUS
  <2> HIDE DEF under
  <2> QED
    BY <2>1, GroupFacts
<1>3. \A fp \in fps : fp \in Projects \X Seeds
  <2> SUFFICES ASSUME NEW id \in ids PROVE runs[id].fingerprint \in Projects \X Seeds
    OBVIOUS
  <2>1. RunOK(runs[id])
    BY DEF RunsOK
  <2> QED
    BY <2>1 DEF RunOK
<1>4. IsFiniteSet(fps)
  <2>0. PICK f : f = [id \in ids |-> runs[id].fingerprint]
    OBVIOUS
  <2>1. IsFiniteSet(ids)
    BY FS_Subset DEF RunsOK
  <2>2. IsFiniteSet({f[id] : id \in ids})
    <3>1. f = [id \in ids |-> f[id]]
      BY <2>0
    <3> QED
      BY <2>1, <3>1, FiniteRange
  <2>3. {f[id] : id \in ids} = fps
    BY <2>0
  <2> QED
    BY <2>2, <2>3
<1> HIDE DEF fps, under
<1>5. IsFiniteSet(Groups(ids))
  <2>0. PICK f : f = [fp \in fps |-> One(fp, under(fp))]
    OBVIOUS
  <2>1. IsFiniteSet({f[fp] : fp \in fps})
    <3>1. f = [fp \in fps |-> f[fp]]
      BY <2>0
    <3> QED
      BY <1>4, <3>1, FiniteRange
  <2>2. {f[fp] : fp \in fps} = Groups(ids)
    BY <1>1, <2>0
  <2> QED
    BY <2>1, <2>2
<1>6. \A g \in Groups(ids) : g.fingerprint \in fps /\ g = One(g.fingerprint, under(g.fingerprint))
  BY <1>1, <1>2
<1>7. \A g \in Groups(ids) : GroupOK(g)
  BY <1>1, <1>2
<1>8. \A g, h \in Groups(ids) : g.fingerprint = h.fingerprint => g = h
  BY <1>6
<1> QED
  BY <1>3, <1>5, <1>6, <1>7, <1>8

\* A group listed under a project is the one the item endpoint reports: the
\* fingerprint has the project in it, so the filter removes none of its runs.
THEOREM ItemsAreListed ==
    ASSUME SpreadAssumption PROVE Spec => []EndpointsAgree
<1>1. ASSUME RunsOK PROVE EndpointsAgree
  <2> SUFFICES ASSUME NEW p \in Projects
               PROVE  Groups(ListProject(p)) = {Item(runs[id].fingerprint) : id \in ListProject(p)}
    BY DEF EndpointsAgree
  <2> DEFINE listed == ListProject(p)
             fps == {runs[id].fingerprint : id \in listed}
             under(fp) == {id \in listed : runs[id].fingerprint = fp}
             all(fp) == {id \in Recorded : runs[id].fingerprint = fp}
  <2>1. p # None
    BY DEF SpreadAssumption
  <2>2. listed = {id \in Recorded : runs[id].project = p}
    BY <2>1 DEF ListProject
  <2>3. \A id \in Recorded : runs[id].fingerprint[1] = runs[id].project
    <3> TAKE id \in Recorded
    <3>1. RunOK(runs[id])
      BY <1>1 DEF RunsOK
    <3> QED
      BY <3>1 DEF RunOK, FingerprintOf
  <2> HIDE DEF listed
  <2>4. \A fp \in fps : under(fp) = all(fp)
    BY <2>2, <2>3
  <2>5. Groups(listed) = {One(fp, under(fp)) : fp \in fps}
    BY DEF Groups
  <2>6. \A fp : Item(fp) = One(fp, all(fp))
    BY DEF Item
  <2> HIDE DEF under, all
  <2>7. {One(fp, under(fp)) : fp \in fps} = {Item(fp) : fp \in fps}
    BY <2>4, <2>6
  <2>8. {Item(fp) : fp \in fps} = {Item(runs[id].fingerprint) : id \in listed}
    OBVIOUS
  <2> QED
    BY <2>5, <2>7, <2>8 DEF listed
<1> QED
  BY <1>1, LedgerInvariant, PTL

\* A finished run is never written again.
LEMMA TerminalStays ==
    ASSUME RunsOK, [Next]_vars, NEW id \in Recorded, Terminal(runs[id].status)
    PROVE  id \in Recorded' /\ runs'[id] = runs[id]
<1>1. id \in RunIDs /\ runs[id] # NoRun
  BY DEF Recorded
<1>2. ASSUME runs'[id] = runs[id] PROVE id \in Recorded' /\ runs'[id] = runs[id]
  BY <1>1, <1>2 DEF Recorded
<1>3. ASSUME NEW i \in RunIDs, NEW r, NEW groups, Write(i, r, groups), i # id PROVE runs'[id] = runs[id]
  BY <1>1, <1>3 DEF Write, RunsOK
<1>4. ASSUME NEW i \in RunIDs, NEW p, NEW s, NEW d, Record(i, p, s, d) PROVE runs'[id] = runs[id]
  BY <1>1, <1>3, <1>4 DEF Record
<1>5. ASSUME NEW i \in RunIDs, NEW k, NEW v, LogMetric(i, k, v) PROVE runs'[id] = runs[id]
  BY <1>3, <1>5 DEF LogMetric
<1>6. ASSUME NEW i \in RunIDs, Finish(i) PROVE runs'[id] = runs[id]
  BY <1>3, <1>6 DEF Finish
<1>7. CASE FetchPage
  BY <1>2, <1>7 DEF FetchPage
<1>8. ASSUME NEW p, NEW n, NEW limit, Begin(p, n, limit) PROVE runs'[id] = runs[id]
  BY <1>8 DEF Begin
<1>9. CASE UNCHANGED vars
  BY <1>2, <1>9 DEF vars
<1> QED
  BY <1>2, <1>4, <1>5, <1>6, <1>7, <1>8, <1>9 DEF Next

\* The part of a group that only its finished runs make.
LEMMA SameFinished ==
    ASSUME NEW fp,
           \A id \in Recorded : Terminal(runs[id].status) => id \in Recorded' /\ runs'[id] = runs[id],
           \A id \in Recorded' : runs'[id].fingerprint = fp /\ Terminal(runs'[id].status) =>
              id \in Recorded /\ runs'[id] = runs[id]
    PROVE  /\ Unaffected(Item(fp), Item(fp)')
           /\ Item(fp).fingerprint = fp /\ Item(fp)'.fingerprint = fp
           /\ Item(fp)'.metrics = Item(fp).metrics /\ Item(fp)'.count = Item(fp).count
<1> DEFINE ids == {id \in Recorded : runs[id].fingerprint = fp}
           done == {id \in ids : Terminal(runs[id].status)}
           repeats(n) == n >= 2
           reporting(k, r, T) == {id \in T : k \in DOMAIN r[id].metrics}
           stats(r, T) == [k \in {m \in MetricKeys : reporting(m, r, T) # {}} |->
                              Stat([id \in reporting(k, r, T) |-> r[id].metrics[k]])]
           devices(r, T) == {r[id].device : id \in T}
           diffs(V) == IF Cardinality(V) > 1 THEN V ELSE {}
<1>1. PICK T : T = done
  OBVIOUS
<1>2. done' = T /\ \A id \in T : runs'[id] = runs[id]
  BY <1>1 DEF Terminal
<1>3. PICK g : g = Item(fp)
  OBVIOUS
<1>4. PICK h : h = Item(fp)'
  OBVIOUS
<1>5. /\ g.ids = T /\ g.count = Cardinality(T) /\ g.noRepeats = ~repeats(Cardinality(T))
      /\ g.metrics = IF repeats(Cardinality(T)) THEN stats(runs, T) ELSE NoMetrics
      /\ g.provenance = IF repeats(Cardinality(T)) THEN diffs(devices(runs, T)) ELSE {}
  BY <1>1, <1>3 DEF Item, One, MetricStats, ProvenanceDiffs
<1>6. /\ h.ids = T /\ h.count = Cardinality(T) /\ h.noRepeats = ~repeats(Cardinality(T))
      /\ h.metrics = IF repeats(Cardinality(T)) THEN stats(runs', T) ELSE NoMetrics
      /\ h.provenance = IF repeats(Cardinality(T)) THEN diffs(devices(runs', T)) ELSE {}
  BY <1>2, <1>4 DEF Item, One, MetricStats, ProvenanceDiffs
<1>7. devices(runs', T) = devices(runs, T)
  BY <1>2
<1>8. \A k : reporting(k, runs', T) = reporting(k, runs, T)
  BY <1>2
<1>9. \A k : [id \in reporting(k, runs', T) |-> runs'[id].metrics[k]]
           = [id \in reporting(k, runs, T) |-> runs[id].metrics[k]]
  BY <1>2, <1>8
<1>10. stats(runs', T) = stats(runs, T)
  BY <1>8, <1>9
<1>11. /\ g = [fingerprint |-> fp, ids |-> g.ids, count |-> g.count, inFlight |-> g.inFlight,
                noRepeats |-> g.noRepeats, metrics |-> g.metrics, provenance |-> g.provenance]
       /\ g.fingerprint = fp
  BY <1>3 DEF Item, One
<1>12. /\ h = [fingerprint |-> fp, ids |-> h.ids, count |-> h.count, inFlight |-> h.inFlight,
                noRepeats |-> h.noRepeats, metrics |-> h.metrics, provenance |-> h.provenance]
       /\ h.fingerprint = fp
  BY <1>4 DEF Item, One
<1>13. /\ h.ids = g.ids /\ h.count = g.count /\ h.noRepeats = g.noRepeats
       /\ h.metrics = g.metrics /\ h.provenance = g.provenance
  BY <1>5, <1>6, <1>7, <1>10
<1>14. Unaffected(g, h)
  <2>1. [g EXCEPT !.inFlight = 0]
          = [fingerprint |-> fp, ids |-> g.ids, count |-> g.count, inFlight |-> 0,
             noRepeats |-> g.noRepeats, metrics |-> g.metrics, provenance |-> g.provenance]
    BY <1>11
  <2>2. [h EXCEPT !.inFlight = 0]
          = [fingerprint |-> fp, ids |-> h.ids, count |-> h.count, inFlight |-> 0,
             noRepeats |-> h.noRepeats, metrics |-> h.metrics, provenance |-> h.provenance]
    BY <1>12
  <2> QED
    BY <1>13, <2>1, <2>2 DEF Unaffected
<1> QED
  BY <1>3, <1>4, <1>11, <1>12, <1>13, <1>14

\* What a group reports changes only when one of its runs finishes.
THEOREM InFlightUnseen == Spec => InFlightInvisible
<1>1. ASSUME RunsOK, [Next]_vars,
             \A id \in Recorded' : Terminal(runs[id].status)' => id \in Recorded /\ runs'[id] = runs[id],
             NEW fp \in Fingerprints
      PROVE  Unaffected(Item(fp), Item(fp)')
  <2>1. \A id \in Recorded : Terminal(runs[id].status) => id \in Recorded' /\ runs'[id] = runs[id]
    BY <1>1, TerminalStays
  <2>2. \A id \in Recorded' : Terminal(runs'[id].status) => id \in Recorded /\ runs'[id] = runs[id]
    BY <1>1 DEF Terminal
  <2> QED
    BY <2>1, <2>2, SameFinished
<1>2. RunsOK /\ [Next]_vars =>
         [(\A id \in Recorded' : Terminal(runs[id].status)' => id \in Recorded /\ runs'[id] = runs[id])
             => \A fp \in Fingerprints : Unaffected(Item(fp), Item(fp)')]_vars
  BY <1>1
<1> QED
  BY <1>2, LedgerInvariant, PTL DEF Spec, InFlightInvisible

-----------------------------------------------------------------------------
(* Spread: the ranking.                                                    *)

\* Group.Widest is the largest coefficient of variation that is a number.
LEMMA WidestFound ==
    ASSUME NEW g, GroupOK(g)
    PROVE  /\ Widest(g) \in Nat \union {-1}
           /\ Measured(g) => Widest(g) >= 0
           /\ ~Measured(g) => Widest(g) = -1
<1> DEFINE measured == {k \in DOMAIN g.metrics : g.metrics[k].mean # 0}
           cv(k) == CV(g.metrics[k].stddev, g.metrics[k].mean)
           cvs == {-1} \union {cv(k) : k \in measured}
<1>1. \A k \in DOMAIN g.metrics : cv(k) \in Nat \union {-1}
  BY DEF GroupOK, StatOK
<1>2. IsFiniteSet(cvs)
  <2>1. IsFiniteSet(measured)
    BY FS_Subset DEF GroupOK
  <2>2. PICK f : f = [k \in measured |-> cv(k)]
    OBVIOUS
  <2> HIDE DEF measured, cv
  <2>3. f = [k \in measured |-> f[k]] /\ {f[k] : k \in measured} = {cv(k) : k \in measured}
    BY <2>2
  <2>4. IsFiniteSet({f[k] : k \in measured})
    BY <2>1, <2>3, FiniteRange
  <2>5. IsFiniteSet({cv(k) : k \in measured} \union {-1})
    BY <2>3, <2>4, FS_AddElement
  <2>6. cvs = {cv(k) : k \in measured} \union {-1}
    OBVIOUS
  <2> QED
    BY <2>5, <2>6
<1>3. cvs \subseteq Nat \union {-1} /\ -1 \in cvs
  BY <1>1
<1>4. Widest(g) = Max(cvs)
  BY DEF Widest
<1> HIDE DEF cvs
<1>5. Widest(g) \in cvs /\ Widest(g) \in Int /\ \A y \in cvs : Widest(g) >= y
  <2>1. cvs \subseteq Int /\ cvs # {}
    BY <1>3
  <2>2. Max(cvs) \in cvs /\ \A y \in cvs : Max(cvs) >= y
    BY <1>2, <2>1, Extremes
  <2> QED
    BY <1>4, <2>1, <2>2
<1>6. ASSUME Measured(g) PROVE Widest(g) >= 0
  <2>1. PICK k \in DOMAIN g.metrics : g.metrics[k].mean # 0 /\ cv(k) >= 0
    BY <1>6 DEF Measured
  <2>2. cv(k) \in cvs /\ cv(k) \in Int
    BY <1>1, <2>1 DEF cvs
  <2> HIDE DEF cv
  <2>3. Widest(g) \in Int
    BY <1>5, Zenon
  <2>4. Widest(g) >= cv(k)
    BY <1>5, <2>2, Zenon
  <2> QED
    BY <2>1, <2>2, <2>3, <2>4
<1>7. ASSUME ~Measured(g) PROVE Widest(g) = -1
  <2>1. \A k \in measured : cv(k) = -1
    <3> SUFFICES ASSUME NEW k \in measured PROVE cv(k) = -1
      OBVIOUS
    <3>1. cv(k) \in Nat \union {-1} /\ ~(cv(k) >= 0)
      BY <1>1, <1>7 DEF Measured
    <3> QED
      BY <3>1
  <2> QED
    BY <1>5, <2>1 DEF cvs
<1> QED
  BY <1>3, <1>5, <1>6, <1>7

RankPairs(G) == {p \in G \X G : Ranks(p[1], p[2])}

\* A set of groups as Groups makes them.
Rankable(G) ==
    /\ IsFiniteSet(G)
    /\ \A g \in G : GroupOK(g) /\ g.fingerprint \in Projects \X Seeds
    /\ \A g, h \in G : g.fingerprint = h.fingerprint => g = h

LEMMA RanksOrder ==
    ASSUME SpreadAssumption, FloatAssumption, NEW G, Rankable(G)
    PROVE  /\ Orders(RankPairs(G), G)
           /\ \A g, h \in G : <<g, h>> \in RankPairs(G) <=> Ranks(g, h)
<1>1. \A g, h \in G : <<g, h>> \in RankPairs(G) <=> Ranks(g, h)
  BY DEF RankPairs
<1>2. \A g \in G : Widest(g) \in Int /\ g.fingerprint \in Projects \X Seeds
  <2> SUFFICES ASSUME NEW g \in G PROVE Widest(g) \in Int /\ g.fingerprint \in Projects \X Seeds
    OBVIOUS
  <2>1. Widest(g) \in Nat \union {-1}
    BY WidestFound DEF Rankable
  <2> QED
    BY <2>1 DEF Rankable
<1>3. \A f \in Projects \X Seeds : f[1] \in Nat /\ f[2] \in Nat /\ f = <<f[1], f[2]>>
  BY DEF SpreadAssumption
<1>4. /\ \A e \in Projects \X Seeds : ~Less(e, e)
      /\ \A e, f, h \in Projects \X Seeds : Less(e, f) /\ Less(f, h) => Less(e, h)
      /\ \A e, f \in Projects \X Seeds : e # f => Less(e, f) \/ Less(f, e)
  BY <1>3 DEF Less
<1>5. \A g \in G : ~Ranks(g, g)
  BY <1>2, <1>4 DEF Ranks
<1>6. \A g, h \in G : g # h => Ranks(g, h) \/ Ranks(h, g)
  BY <1>2, <1>4 DEF Ranks, Rankable
<1>7. \A f, g, h \in G : Ranks(f, g) /\ Ranks(g, h) => Ranks(f, h)
  <2> SUFFICES ASSUME NEW f \in G, NEW g \in G, NEW h \in G, Ranks(f, g), Ranks(g, h)
               PROVE  Ranks(f, h)
    OBVIOUS
  <2>1. PICK x \in Int : x = Widest(f)
    BY <1>2
  <2>2. PICK y \in Int : y = Widest(g)
    BY <1>2
  <2>3. PICK z \in Int : z = Widest(h)
    BY <1>2
  <2>4. x >= y /\ y >= z
    BY <2>1, <2>2, <2>3 DEF Ranks
  <2>5. CASE x > z
    BY <2>1, <2>3, <2>5 DEF Ranks
  <2>6. CASE x = z
    <3>1. x = y /\ y = z
      BY <2>4, <2>6
    <3>2. Less(f.fingerprint, g.fingerprint) /\ Less(g.fingerprint, h.fingerprint)
      BY <2>1, <2>2, <2>3, <3>1 DEF Ranks
    <3>3. Less(f.fingerprint, h.fingerprint)
      BY <1>2, <1>4, <3>2
    <3> QED
      BY <2>1, <2>3, <2>6, <3>3 DEF Ranks
  <2> QED
    BY <2>4, <2>5, <2>6
<1> QED
  BY <1>1, <1>5, <1>6, <1>7 DEF Orders

RankedGroups(project, minRuns) == {g \in Groups(ListProject(project)) : g.count >= minRuns}

\* Every group above min_runs is ranked, once, and in the order of Ranks.
RankingOK(project, minRuns) ==
    LET G == RankedGroups(project, minRuns)
        R == Ranking(project, minRuns)
        n == Cardinality(G)
    IN  /\ n \in Nat /\ R \in [1..n -> G]
        /\ \A i, j \in 1..n : i < j => Ranks(R[i], R[j])
        /\ \A i, j \in 1..n : R[i].fingerprint = R[j].fingerprint => i = j
        /\ \A g \in G : \E i \in 1..n : R[i] = g

LEMMA RankingFacts ==
    ASSUME SpreadAssumption, FloatAssumption, RunsOK, NEW p, NEW minRuns
    PROVE  RankingOK(p, minRuns) /\ Rankable(RankedGroups(p, minRuns))
<1>1. PICK G : G = RankedGroups(p, minRuns)
  OBVIOUS
<1>2. Rankable(G)
  <2>1. ListProject(p) \subseteq Recorded
    BY DEF ListProject
  <2>2. Rankable(Groups(ListProject(p)))
    BY <2>1, GroupsFacts DEF Rankable
  <2>3. G \subseteq Groups(ListProject(p))
    BY <1>1 DEF RankedGroups
  <2> QED
    BY <2>2, <2>3, FS_Subset DEF Rankable
<1> DEFINE n == Cardinality(G)
           place(g) == Place(G, g)
           R == Ranking(p, minRuns)
<1>3. /\ n \in Nat
      /\ \A x \in G : place(x) \in 0..n - 1
      /\ \A x, y \in G : Ranks(x, y) => place(x) < place(y)
      /\ \A x, y \in G : place(x) = place(y) => x = y
      /\ \A i \in 1..n : \E x \in G : place(x) = i - 1
  <2>1. Orders(RankPairs(G), G)
    BY <1>2, RanksOrder
  <2>2. \A x, y \in G : <<x, y>> \in RankPairs(G) <=> Ranks(x, y)
    BY <1>2, RanksOrder
  <2>3. \A x \in G : Cardinality(Before(RankPairs(G), G, x)) = place(x)
    <3> TAKE x \in G
    <3>1. Before(RankPairs(G), G, x) = {h \in G : Ranks(h, x)}
      BY <2>2 DEF Before
    <3> QED
      BY <3>1 DEF Place
  <2>4. /\ n \in Nat
        /\ \A x \in G : Cardinality(Before(RankPairs(G), G, x)) \in 0..n - 1
        /\ \A x, y \in G : <<x, y>> \in RankPairs(G) =>
              Cardinality(Before(RankPairs(G), G, x)) < Cardinality(Before(RankPairs(G), G, y))
        /\ \A x, y \in G : Cardinality(Before(RankPairs(G), G, x))
                             = Cardinality(Before(RankPairs(G), G, y)) => x = y
        /\ \A i \in 1..n : \E x \in G : Cardinality(Before(RankPairs(G), G, x)) = i - 1
    BY <1>2, <2>1, Places DEF Rankable
  <2> HIDE DEF place, n
  <2>5. \A x \in G : place(x) \in 0..n - 1
    BY <2>3, <2>4
  <2>6. \A x, y \in G : Ranks(x, y) => place(x) < place(y)
    <3> SUFFICES ASSUME NEW x \in G, NEW y \in G, Ranks(x, y) PROVE place(x) < place(y)
      OBVIOUS
    <3>1. Cardinality(Before(RankPairs(G), G, x)) < Cardinality(Before(RankPairs(G), G, y))
      BY <2>2, <2>4, Zenon
    <3> QED
      BY <2>3, <3>1
  <2>7. \A x, y \in G : place(x) = place(y) => x = y
    BY <2>3, <2>4
  <2>8. \A i \in 1..n : \E x \in G : place(x) = i - 1
    BY <2>3, <2>4
  <2> QED
    BY <2>4, <2>5, <2>6, <2>7, <2>8
<1>4. R = [i \in 1..n |-> CHOOSE g \in G : place(g) = i - 1]
  BY <1>1 DEF Ranking, RankedGroups
<1> HIDE DEF place, n, R
<1>5. \A i \in 1..n : R[i] \in G /\ place(R[i]) = i - 1
  BY <1>3, <1>4
<1>6. R \in [1..n -> G]
  BY <1>4, <1>5
<1>7. \A i, j \in 1..n : R[i] = R[j] => i = j
  <2> SUFFICES ASSUME NEW i \in 1..n, NEW j \in 1..n, R[i] = R[j] PROVE i = j
    OBVIOUS
  <2>1. i - 1 = j - 1
    BY <1>5
  <2> QED
    BY <1>3, <2>1
<1>8. \A i, j \in 1..n : R[i].fingerprint = R[j].fingerprint => i = j
  BY <1>2, <1>5, <1>7 DEF Rankable
<1>9. \A g \in G : \E i \in 1..n : R[i] = g
  <2> TAKE g \in G
  <2>1. place(g) + 1 \in 1..n /\ place(g) = (place(g) + 1) - 1
    BY <1>3
  <2> QED
    BY <1>3, <1>5, <2>1
<1>10. \A i, j \in 1..n : i < j => Ranks(R[i], R[j])
  <2> SUFFICES ASSUME NEW i \in 1..n, NEW j \in 1..n, i < j, ~Ranks(R[i], R[j]) PROVE FALSE
    OBVIOUS
  <2>1. /\ R[i] \in G /\ R[j] \in G /\ R[i] # R[j]
        /\ place(R[i]) = i - 1 /\ place(R[j]) = j - 1
    BY <1>3, <1>5, <1>7
  <2>2. Ranks(R[j], R[i])
    BY <1>2, <2>1, RanksOrder DEF Orders
  <2>3. place(R[j]) < place(R[i])
    BY <1>3, <2>1, <2>2
  <2> QED
    BY <1>3, <2>1, <2>3
<1> QED
  BY <1>1, <1>2, <1>3, <1>6, <1>8, <1>9, <1>10 DEF RankingOK, R, n

-----------------------------------------------------------------------------
(* Spread: the traversal.                                                  *)

\* What a traversal of one project, or of all, has to list.
Listable(p, n) == {fp \in Fps : (p # None => fp[1] = p) /\ Item(fp).count >= n}

\* Which group ranks before which.
Leads == {e \in Fps \X Fps : Ranks(Item(e[1]), Item(e[2]))}

\* The listed groups are the groups the item endpoint reports.
LEMMA GroupIsItem ==
    ASSUME SpreadAssumption, RunsOK, NEW p \in Projects \union {None}
    PROVE  /\ \A fp : Item(fp).fingerprint = fp
           /\ Groups(ListProject(p)) = {Item(fp) : fp \in {f \in Fps : p # None => f[1] = p}}
<1>1. \A fp : Item(fp).fingerprint = fp
  BY DEF Item, One
<1> DEFINE listed == ListProject(p)
           fps == {f \in Fps : p # None => f[1] = p}
           under(fp) == {id \in listed : runs[id].fingerprint = fp}
           all(fp) == {id \in Recorded : runs[id].fingerprint = fp}
<1>2. \A id \in Recorded : runs[id].fingerprint[1] = runs[id].project
  <2> TAKE id \in Recorded
  <2>1. RunOK(runs[id])
    BY DEF RunsOK
  <2> QED
    BY <2>1 DEF RunOK, FingerprintOf
<1>3. listed = {id \in Recorded : p # None => runs[id].project = p}
  BY DEF ListProject
<1>4. {runs[id].fingerprint : id \in listed} = fps
  BY <1>2, <1>3 DEF Fps
<1> HIDE DEF listed
<1>5. \A fp \in fps : under(fp) = all(fp)
  BY <1>2, <1>3
<1>6. Groups(listed) = {One(fp, under(fp)) : fp \in fps}
  BY <1>4 DEF Groups
<1>7. \A fp : Item(fp) = One(fp, all(fp))
  BY DEF Item
<1> HIDE DEF under, all, fps
<1>8. Groups(listed) = {Item(fp) : fp \in fps}
  BY <1>5, <1>6, <1>7
<1> QED
  BY <1>1, <1>8 DEF listed, fps

\* The groups of L in the order A, each in one place.
RankedList(R, m, L, A) ==
    /\ m \in Nat /\ R = [i \in 1..m |-> R[i]] /\ Len(R) = m
    /\ {R[i].fingerprint : i \in 1..m} = L
    /\ \A i, j \in 1..m : <<R[i].fingerprint, R[j].fingerprint>> \in A <=> i < j
    /\ \A i, j \in 1..m : R[i].fingerprint = R[j].fingerprint => i = j

LEMMA RankingListed ==
    ASSUME SpreadAssumption, FloatAssumption, RunsOK,
           NEW p \in Projects \union {None}, NEW n
    PROVE  \E m : RankedList(Ranking(p, n), m, Listable(p, n), Leads)
<1> DEFINE G == RankedGroups(p, n)
           R == Ranking(p, n)
           m == Cardinality(G)
<1>1. /\ m \in Nat /\ R \in [1..m -> G]
      /\ \A i, j \in 1..m : i < j => Ranks(R[i], R[j])
      /\ \A i, j \in 1..m : R[i].fingerprint = R[j].fingerprint => i = j
      /\ \A g \in G : \E i \in 1..m : R[i] = g
  BY RankingFacts DEF RankingOK
<1>2. /\ \A g \in G : ~Ranks(g, g)
      /\ \A f, g, h \in G : Ranks(f, g) /\ Ranks(g, h) => Ranks(f, h)
  <2>1. Rankable(G)
    BY RankingFacts
  <2>2. /\ Orders(RankPairs(G), G)
        /\ \A g, h \in G : <<g, h>> \in RankPairs(G) <=> Ranks(g, h)
    BY <2>1, RanksOrder
  <2> HIDE DEF G
  <2> QED
    BY <2>2 DEF Orders
<1>3. \A fp : Item(fp).fingerprint = fp
  BY GroupIsItem
<1>4. G = {Item(fp) : fp \in Listable(p, n)}
  <2>1. Groups(ListProject(p)) = {Item(fp) : fp \in {f \in Fps : p # None => f[1] = p}}
    BY GroupIsItem
  <2> QED
    BY <2>1 DEF RankedGroups, Listable
<1> HIDE DEF G, R, m
<1>5. \A i \in 1..m : R[i].fingerprint \in Listable(p, n) /\ R[i] = Item(R[i].fingerprint)
  <2> SUFFICES ASSUME NEW i \in 1..m
               PROVE  R[i].fingerprint \in Listable(p, n) /\ R[i] = Item(R[i].fingerprint)
    OBVIOUS
  <2>1. PICK fp \in Listable(p, n) : R[i] = Item(fp)
    BY <1>1, <1>4
  <2> QED
    BY <1>3, <2>1
<1>6. {R[i].fingerprint : i \in 1..m} = Listable(p, n)
  <2>1. ASSUME NEW fp \in Listable(p, n) PROVE \E i \in 1..m : R[i].fingerprint = fp
    <3>1. Item(fp) \in G
      BY <1>4
    <3> QED
      BY <1>1, <1>3, <3>1
  <2> QED
    BY <1>5, <2>1
<1>7. ASSUME NEW i \in 1..m, NEW j \in 1..m
      PROVE  <<R[i].fingerprint, R[j].fingerprint>> \in Leads <=> i < j
  <2>1. R[i].fingerprint \in Fps /\ R[j].fingerprint \in Fps
    BY <1>5 DEF Listable
  <2>2. <<R[i].fingerprint, R[j].fingerprint>> \in Leads <=> Ranks(R[i], R[j])
    BY <1>5, <2>1 DEF Leads
  <2>3. R[i] \in G /\ R[j] \in G
    BY <1>1
  <2>4. ASSUME ~(i < j) PROVE ~Ranks(R[i], R[j])
    <3>1. CASE i = j
      BY <1>2, <2>3, <3>1
    <3>2. CASE j < i
      <4>1. Ranks(R[j], R[i])
        BY <1>1, <3>2
      <4> QED
        BY <1>2, <2>3, <4>1
    <3> QED
      BY <1>1, <2>4, <3>1, <3>2
  <2> QED
    BY <1>1, <2>2, <2>4
<1>8. RankedList(R, m, Listable(p, n), Leads)
  <2>1. R = [i \in 1..m |-> R[i]] /\ Len(R) = m
    BY <1>1
  <2> QED
    BY <1>1, <1>6, <1>7, <2>1 DEF RankedList
<1> QED
  BY <1>8 DEF R

LEMMA LesserOfTwo ==
    ASSUME NEW a \in Int, NEW b \in Int
    PROVE  Min({a, b}) \in {a, b} /\ Min({a, b}) <= a /\ Min({a, b}) <= b
<1>1. \E x \in {a, b} : \A y \in {a, b} : x <= y
  OBVIOUS
<1> QED
  BY <1>1 DEF Min

\* Start finds the place of the cursor's group.
LEMMA StartFound ==
    ASSUME NEW R, NEW m, NEW L, NEW A, RankedList(R, m, L, A), NEW c,
           c \in {g.fingerprint : g \in Range(R)} \union {None}
    PROVE  /\ Start(R, c) \in 0..m
           /\ c = None => Start(R, c) = 0
           /\ c # None => Start(R, c) \in 1..m /\ R[Start(R, c)].fingerprint = c
<1> DEFINE I == {i \in 1..m : R[i].fingerprint = c}
<1>1. CASE c = None
  BY <1>1 DEF Start, RankedList
<1>2. CASE c # None
  <2>1. DOMAIN R = 1..m /\ Len(R) = m /\ m \in Nat
    BY DEF RankedList
  <2>2. I # {}
    BY <1>2, <2>1 DEF Range
  <2>3. Start(R, c) = Min(I)
    BY <1>2, <2>1, <2>2 DEF Start, SelectInSeq
  <2>4. IsFiniteSet(1..m)
    BY <2>1, FS_Interval
  <2>5. IsFiniteSet(I) /\ I \subseteq Int
    BY <2>1, <2>4, FS_Subset
  <2> HIDE DEF I
  <2>6. Min(I) \in I
    BY <2>2, <2>5, Extremes
  <2>7. Start(R, c) \in 1..m /\ R[Start(R, c)].fingerprint = c
    BY <2>3, <2>6 DEF I
  <2> QED
    BY <1>2, <2>1, <2>7
<1> QED
  BY <1>1, <1>2

LEMMA Concatenated ==
    ASSUME NEW S, NEW a \in Seq(S), NEW b \in Seq(S)
    PROVE  /\ a \o b \in Seq(S) /\ Len(a \o b) = Len(a) + Len(b)
           /\ DOMAIN (a \o b) = 1..Len(a) + Len(b)
           /\ \A i \in 1..Len(a) + Len(b) :
                 (a \o b)[i] = IF i <= Len(a) THEN a[i] ELSE b[i - Len(a)]
  OBVIOUS

\* new is the listing so far, of length k, and the page after it: the places
\* from start to last of the sequence F, which is in the order A.
Extended(F, m, A, old, k, start, last, new) ==
    /\ m \in Nat /\ k \in Nat /\ start \in 0..m /\ last \in start..m
    /\ \A i, j \in 1..m : <<F[i], F[j]>> \in A <=> i < j
    /\ \A i \in 1..k : \E j \in 1..m : old[i] = F[j]
    /\ \A i, j \in 1..k : i < j => <<old[i], old[j]>> \in A
    /\ k # 0 => start # 0 /\ old[k] = F[start]
    /\ \A i \in 1..k + (last - start) :
          new[i] = IF i <= k THEN old[i] ELSE F[start + (i - k)]

LEMMA PageJoins ==
    ASSUME NEW F, NEW m, NEW A, NEW old, NEW k, NEW start, NEW last, NEW new,
           Extended(F, m, A, old, k, start, last, new)
    PROVE  \A i, j \in 1..k + (last - start) : i < j => <<new[i], new[j]>> \in A
<1> USE DEF Extended
<1> SUFFICES ASSUME NEW i \in 1..k + (last - start), NEW j \in 1..k + (last - start), i < j
             PROVE  <<new[i], new[j]>> \in A
  OBVIOUS
<1>1. CASE j <= k
  <2>1. i \in 1..k /\ j \in 1..k
    BY <1>1
  <2> QED
    BY <2>1
<1>2. CASE i <= k /\ ~(j <= k)
  <2>1. i \in 1..k /\ k \in 1..k /\ start + (j - k) \in 1..m /\ k # 0 /\ start \in 1..m
    BY <1>2
  <2>2. PICK a \in 1..m : old[i] = F[a]
    BY <2>1
  <2>3. a <= start
    <3>1. CASE i = k
      <4>1. F[a] = F[start]
        BY <2>1, <2>2, <3>1
      <4>2. <<F[a], F[a]>> \notin A
        BY <2>2
      <4>3. ~(start < a)
        BY <2>1, <4>1, <4>2
      <4> QED
        BY <2>1, <4>3
    <3>2. CASE i < k
      <4>1. <<F[a], F[start]>> \in A
        BY <2>1, <2>2, <3>2
      <4> QED
        BY <2>1, <4>1
    <3> QED
      BY <2>1, <3>1, <3>2
  <2>4. a < start + (j - k)
    BY <1>2, <2>3
  <2>5. new[i] = F[a] /\ new[j] = F[start + (j - k)]
    BY <1>2, <2>2
  <2> QED
    BY <2>1, <2>4, <2>5
<1>3. CASE ~(i <= k)
  <2>1. start + (i - k) \in 1..m /\ start + (j - k) \in 1..m /\ start + (i - k) < start + (j - k)
    BY <1>3
  <2>2. new[i] = F[start + (i - k)] /\ new[j] = F[start + (j - k)]
    BY <1>3
  <2> QED
    BY <2>1, <2>2
<1> QED
  BY <1>1, <1>2, <1>3

ClientOK ==
    client \in [pc : {"idle", "paging", "done", "refused"},
                project : Projects \union {None}, minRuns : Nat, limit : 1..MaxLimit,
                after : Fingerprints \union {None}, listed : Seq(Fingerprints)]

\* The traversal c among the groups L in the order A, when those in M have
\* moved: the cursor is the group listed last, and while no listed group moves
\* the others are behind it.
Progress(c, M, L, A) ==
    /\ c.pc # "refused"
    /\ c.pc = "idle" => c.listed = <<>>
    /\ c.pc = "paging" => IF c.listed = <<>> THEN c.after = None
                          ELSE c.after = c.listed[Len(c.listed)]
    /\ \A i \in DOMAIN c.listed : c.listed[i] \in L
    /\ Range(c.listed) \intersect M = {} =>
          /\ \A i, j \in DOMAIN c.listed : i < j => <<c.listed[i], c.listed[j]>> \in A
          /\ c.pc = "paging" /\ c.after # None =>
                \A f \in L \ (Range(c.listed) \union M) : <<c.after, f>> \in A
          /\ c.pc = "done" => L \subseteq Range(c.listed) \union M

SpreadInv ==
    /\ RunsOK
    /\ ClientOK
    /\ moved \subseteq Fingerprints
    /\ Progress(client, moved, Listable(client.project, client.minRuns), Leads)

\* One page.
LEMMA FetchGroups ==
    ASSUME SpreadAssumption, FloatAssumption, SpreadInv, FetchPage
    PROVE  /\ ClientOK'
           /\ client'.project = client.project /\ client'.minRuns = client.minRuns
           /\ Progress(client', moved, Listable(client.project, client.minRuns), Leads)
<1>1. PICK R : R = Ranking(client.project, client.minRuns)
  OBVIOUS
<1>2. PICK L : L = Listable(client.project, client.minRuns)
  OBVIOUS
<1>3. PICK A : A = Leads
  OBVIOUS
<1>4. PICK c : c = client
  OBVIOUS
<1>5. /\ c \in [pc : {"idle", "paging", "done", "refused"},
                project : Projects \union {None}, minRuns : Nat, limit : 1..MaxLimit,
                after : Fingerprints \union {None}, listed : Seq(Fingerprints)]
      /\ c.pc = "paging" /\ Progress(c, moved, L, A)
  BY <1>2, <1>3, <1>4 DEF SpreadInv, ClientOK, FetchPage
<1>6. PICK m : RankedList(R, m, L, A)
  <2>1. client.project \in Projects \union {None}
    BY <1>4, <1>5
  <2> QED
    BY <1>1, <1>2, <1>3, <2>1, RankingListed DEF SpreadInv
<1>7. /\ m \in Nat /\ Len(R) = m /\ DOMAIN R = 1..m
      /\ {R[i].fingerprint : i \in 1..m} = L
      /\ \A i, j \in 1..m : <<R[i].fingerprint, R[j].fingerprint>> \in A <=> i < j
  BY <1>6 DEF RankedList
<1>8. L \subseteq Fingerprints /\ None \notin Fingerprints
  <2>1. \A id \in Recorded : runs[id].fingerprint \in Projects \X Seeds
    BY DEF SpreadInv, RunsOK, RunOK
  <2>2. Fingerprints = Projects \X Seeds
    BY DEF Fingerprints, FingerprintOf
  <2>3. None \notin Fingerprints
    BY <2>2 DEF SpreadAssumption
  <2> QED
    BY <1>2, <2>1, <2>2, <2>3 DEF Listable, Fps
<1>9. c.limit \in Nat /\ c.limit > 0
  BY <1>5 DEF SpreadAssumption
<1> DEFINE ranked == {g.fingerprint : g \in Range(R)}
           start  == Start(R, c.after)
           last   == Min({start + c.limit, Len(R)})
           page   == [i \in 1..last - start |-> R[start + i].fingerprint]
           more   == last < Len(R)
           k      == Len(c.listed)
<1>10. client' = IF c.after \notin ranked \union {None}
                 THEN [c EXCEPT !.pc = "refused"]
                 ELSE [c EXCEPT !.listed = @ \o page,
                         !.pc = IF more THEN "paging" ELSE "done",
                         !.after = IF more THEN R[last].fingerprint ELSE None]
  BY <1>1, <1>4 DEF FetchPage
<1>11. /\ k \in Nat /\ DOMAIN c.listed = 1..k /\ (c.listed = <<>> <=> k = 0)
       /\ \A i \in 1..k : c.listed[i] \in L
       /\ k = 0 => c.after = None
       /\ k # 0 => c.after = c.listed[k] /\ c.after \in L /\ c.after # None
  <2>1. k \in Nat /\ DOMAIN c.listed = 1..k /\ (c.listed = <<>> <=> k = 0)
    BY <1>5
  <2>2. \A i \in 1..k : c.listed[i] \in L
    BY <1>5, <2>1 DEF Progress
  <2>3. IF c.listed = <<>> THEN c.after = None ELSE c.after = c.listed[k]
    BY <1>5 DEF Progress
  <2> HIDE DEF k
  <2>4. k # 0 => k \in 1..k
    BY <2>1
  <2> QED
    BY <1>8, <2>1, <2>2, <2>3, <2>4
<1>12. ranked = L
  BY <1>7 DEF Range
<1>13. c.after \in ranked \union {None}
  BY <1>11, <1>12
<1>14. /\ start \in 0..m
       /\ k = 0 => start = 0
       /\ k # 0 => start \in 1..m /\ R[start].fingerprint = c.listed[k]
  <2>1. /\ start \in 0..m
        /\ c.after = None => start = 0
        /\ c.after # None => start \in 1..m /\ R[start].fingerprint = c.after
    BY <1>6, <1>13, StartFound
  <2> HIDE DEF start, k
  <2> QED
    BY <1>11, <2>1
<1> HIDE DEF start, ranked
<1>15. last \in {start + c.limit, m} /\ last <= start + c.limit /\ last <= m
  <2>1. start + c.limit \in Int /\ m \in Int
    BY <1>7, <1>9, <1>14
  <2>2. last = Min({start + c.limit, m})
    BY <1>7
  <2> HIDE DEF last
  <2> QED
    BY <2>1, <2>2, LesserOfTwo
<1> HIDE DEF last
<1>16. last \in start..m /\ (last < m => last \in 1..m /\ start < last)
  BY <1>7, <1>9, <1>14, <1>15
<1>17. \A i \in 1..last - start : start + i \in 1..m
  BY <1>7, <1>14, <1>16
<1>18. \A i \in 1..m : R[i].fingerprint \in L /\ R[i].fingerprint \in Fingerprints
  BY <1>7, <1>8
<1>19. page \in Seq(Fingerprints) /\ Len(page) = last - start
  <2>1. last - start \in Nat
    BY <1>7, <1>14, <1>16
  <2>2. page \in [1..last - start -> Fingerprints]
    BY <1>17, <1>18
  <2> QED
    BY <2>1, <2>2
<1>bounds. /\ k \in Nat /\ start \in Nat /\ last \in Nat /\ m \in Nat
           /\ start <= last /\ last <= m
  <2> HIDE DEF k
  <2> QED
    BY <1>7, <1>11, <1>14, <1>16
<1>20. PICK new : new = c.listed \o page
  OBVIOUS
<1>21. /\ new \in Seq(Fingerprints) /\ DOMAIN new = 1..k + (last - start)
       /\ Len(new) = k + (last - start)
       /\ \A i \in 1..k + (last - start) :
             new[i] = IF i <= k THEN c.listed[i] ELSE R[start + (i - k)].fingerprint
  <2>1. PICK old \in Seq(Fingerprints) : old = c.listed
    BY <1>5
  <2>2. PICK pg \in Seq(Fingerprints) : pg = page
    BY <1>19
  <2>3. new = old \o pg /\ Len(old) = k /\ Len(pg) = last - start
    BY <1>19, <1>20, <2>1, <2>2
  <2>4. \A i \in 1..last - start : pg[i] = R[start + i].fingerprint
    BY <2>2
  <2>5. k \in Nat /\ last - start \in Nat
    BY <1>7, <1>11, <1>14, <1>16
  <2> HIDE DEF page, k
  <2>6. /\ new \in Seq(Fingerprints) /\ DOMAIN new = 1..k + (last - start)
        /\ Len(new) = k + (last - start)
        /\ \A i \in 1..k + (last - start) : new[i] = IF i <= k THEN old[i] ELSE pg[i - k]
    <3>1. /\ old \o pg \in Seq(Fingerprints) /\ Len(old \o pg) = Len(old) + Len(pg)
          /\ DOMAIN (old \o pg) = 1..Len(old) + Len(pg)
          /\ \A i \in 1..Len(old) + Len(pg) :
                (old \o pg)[i] = IF i <= Len(old) THEN old[i] ELSE pg[i - Len(old)]
      BY <2>1, <2>2, Concatenated
    <3> QED
      BY <2>3, <3>1
  <2>7. \A i \in 1..k + (last - start) : ~(i <= k) => i - k \in 1..last - start
    BY <2>5
  <2> QED
    BY <2>1, <2>4, <2>6, <2>7
<1>22. client' = [c EXCEPT !.listed = new,
                    !.pc = IF more THEN "paging" ELSE "done",
                    !.after = IF more THEN R[last].fingerprint ELSE None]
  BY <1>10, <1>13, <1>20
<1>23. /\ client'.listed = new
       /\ client'.pc = (IF last < m THEN "paging" ELSE "done")
       /\ client'.after = (IF last < m THEN R[last].fingerprint ELSE None)
       /\ client'.project = c.project /\ client'.minRuns = c.minRuns
       /\ client'.limit = c.limit
  BY <1>5, <1>7, <1>22
<1>24. ClientOK'
  <2>1. client'.after \in Fingerprints \union {None}
    BY <1>7, <1>16, <1>18, <1>23
  <2>2. client' \in [pc : {"idle", "paging", "done", "refused"},
                     project : Projects \union {None}, minRuns : Nat, limit : 1..MaxLimit,
                     after : Fingerprints \union {None}, listed : Seq(Fingerprints)]
    <3> DEFINE pc1 == IF more THEN "paging" ELSE "done"
               after1 == IF more THEN R[last].fingerprint ELSE None
    <3>1. client' = [c EXCEPT !.listed = new, !.pc = pc1, !.after = after1]
      BY <1>22
    <3>2. pc1 \in {"idle", "paging", "done", "refused"} /\ after1 \in Fingerprints \union {None}
      BY <1>7, <1>16, <1>18
    <3> HIDE DEF pc1, after1
    <3> QED
      BY <1>5, <1>21, <3>1, <3>2
  <2> QED
    BY <2>2 DEF ClientOK
<1> HIDE DEF page, more, k
<1>25. \A i \in DOMAIN new : new[i] \in L
  <2> SUFFICES ASSUME NEW i \in 1..k + (last - start) PROVE new[i] \in L
    BY <1>21
  <2>1. CASE i <= k
    <3>1. i \in 1..k
      BY <1>11, <2>1
    <3> QED
      BY <1>11, <1>21, <2>1, <3>1
  <2>2. CASE ~(i <= k)
    <3>1. start + (i - k) \in 1..m
      BY <1>7, <1>11, <1>14, <1>16, <2>2
    <3> QED
      BY <1>18, <1>21, <2>2, <3>1
  <2> QED
    BY <2>1, <2>2
<1>26. Range(c.listed) \subseteq Range(new)
  <2> SUFFICES ASSUME NEW i \in 1..k PROVE c.listed[i] \in Range(new)
    BY <1>11 DEF Range
  <2>1. i \in 1..k + (last - start) /\ i <= k
    BY <1>7, <1>11, <1>14, <1>16
  <2> QED
    BY <1>21, <2>1 DEF Range
<1>27. \A i \in start + 1..last : R[i].fingerprint \in Range(new)
  <2> SUFFICES ASSUME NEW i \in start + 1..last PROVE R[i].fingerprint \in Range(new)
    OBVIOUS
  <2>1. k + (i - start) \in 1..k + (last - start) /\ ~(k + (i - start) <= k)
        /\ start + ((k + (i - start)) - k) = i
    BY <1>bounds
  <2> QED
    BY <1>21, <2>1 DEF Range
<1>28. ASSUME Range(new) \intersect moved = {}
       PROVE  \A i, j \in DOMAIN new : i < j => <<new[i], new[j]>> \in A
  <2>1. \A i, j \in 1..k : i < j => <<c.listed[i], c.listed[j]>> \in A
    BY <1>5, <1>11, <1>26, <1>28 DEF Progress
  <2>2. PICK F : F = [i \in 1..m |-> R[i].fingerprint]
    OBVIOUS
  <2>3. \A i, j \in 1..m : <<F[i], F[j]>> \in A <=> i < j
    BY <1>7, <2>2
  <2>4. \A i \in 1..k : \E j \in 1..m : c.listed[i] = F[j]
    BY <1>7, <1>11, <2>2
  <2>5. k # 0 => start # 0 /\ c.listed[k] = F[start]
    BY <1>14, <2>2
  <2>6. \A i \in 1..k + (last - start) :
           new[i] = IF i <= k THEN c.listed[i] ELSE F[start + (i - k)]
    <3> SUFFICES ASSUME NEW i \in 1..k + (last - start), ~(i <= k)
                 PROVE  R[start + (i - k)].fingerprint = F[start + (i - k)]
      BY <1>21
    <3>1. start + (i - k) \in 1..m
      BY <1>7, <1>11, <1>14, <1>16
    <3> QED
      BY <2>2, <3>1
  <2>7. m \in Nat /\ k \in Nat /\ start \in 0..m /\ last \in start..m
    BY <1>7, <1>11, <1>14, <1>16
  <2>8. \A i, j \in 1..k + (last - start) : i < j => <<new[i], new[j]>> \in A
    <3>1. Extended(F, m, A, c.listed, k, start, last, new)
      BY <2>1, <2>3, <2>4, <2>5, <2>6, <2>7 DEF Extended
    <3> QED
      BY <3>1, PageJoins
  <2> QED
    BY <1>21, <2>8
\* What is not listed yet is behind the page.
<1>29. ASSUME Range(new) \intersect moved = {}, NEW f \in L \ (Range(new) \union moved)
       PROVE  \E i \in 1..m : last < i /\ f = R[i].fingerprint
  <2>1. PICK i \in 1..m : f = R[i].fingerprint
    BY <1>7
  <2>2. i \notin start + 1..last
    BY <1>27, <1>29, <2>1
  <2>3. ASSUME i <= start PROVE FALSE
    <3>1. start # 0
      BY <1>7, <2>3
    <3>2. k # 0
      BY <1>14, <3>1
    <3>3. c.after = R[start].fingerprint /\ c.after # None /\ start \in 1..m
      BY <1>11, <1>14, <3>2
    <3>4. f \in L \ (Range(c.listed) \union moved) /\ Range(c.listed) \intersect moved = {}
      BY <1>26, <1>29
    <3>5. <<c.after, f>> \in A
      BY <1>5, <3>3, <3>4 DEF Progress
    <3>6. start < i
      BY <1>7, <2>1, <3>3, <3>5
    <3> QED
      BY <1>7, <1>14, <2>3, <3>6
  <2>4. last < i
    BY <1>7, <1>14, <1>16, <2>2, <2>3
  <2> QED
    BY <2>1, <2>4
<1>30. ASSUME last < m
       PROVE  /\ new # <<>> /\ client'.after = new[Len(new)]
              /\ Range(new) \intersect moved = {} =>
                    \A f \in L \ (Range(new) \union moved) : <<client'.after, f>> \in A
  <2>1. last \in 1..m /\ start < last /\ client'.after = R[last].fingerprint
    BY <1>16, <1>23, <1>30
  <2>2. /\ k + (last - start) \in 1..k + (last - start) /\ ~(k + (last - start) <= k)
        /\ start + ((k + (last - start)) - k) = last
    BY <1>bounds, <2>1
  <2>3. new[k + (last - start)] = R[last].fingerprint
    BY <1>21, <2>2
  <2>4. new # <<>> /\ client'.after = new[Len(new)]
    <3>1. Len(new) # 0
      BY <1>11, <1>21, <2>2
    <3> QED
      BY <1>21, <2>1, <2>3, <3>1
  <2>5. ASSUME Range(new) \intersect moved = {}, NEW f \in L \ (Range(new) \union moved)
        PROVE  <<client'.after, f>> \in A
    <3>1. PICK i \in 1..m : last < i /\ f = R[i].fingerprint
      BY <1>29, <2>5
    <3> QED
      BY <1>7, <2>1, <3>1
  <2> QED
    BY <2>4, <2>5
<1>31. ASSUME ~(last < m), Range(new) \intersect moved = {}
       PROVE  L \subseteq Range(new) \union moved
  <2> SUFFICES ASSUME NEW f \in L \ (Range(new) \union moved) PROVE FALSE
    OBVIOUS
  <2>1. PICK i \in 1..m : last < i
    BY <1>29, <1>31
  <2> QED
    BY <1>7, <1>16, <1>31, <2>1
<1>32. Progress(client', moved, L, A)
  <2>1. CASE last < m
    BY <1>23, <1>25, <1>28, <1>30, <2>1 DEF Progress
  <2>2. CASE ~(last < m)
    BY <1>23, <1>25, <1>28, <1>31, <2>2 DEF Progress
  <2> QED
    BY <2>1, <2>2
<1> QED
  BY <1>2, <1>3, <1>4, <1>23, <1>24, <1>32

LEMMA SpreadInit ==
    ASSUME SpreadAssumption, Init PROVE SpreadInv
<1>1. ClientOK
  BY DEF SpreadAssumption, Init, ClientOK
<1>2. client.pc = "idle" /\ client.listed = <<>> /\ moved = {}
  BY DEF Init
<1>3. Progress(client, moved, Listable(client.project, client.minRuns), Leads)
  BY <1>2 DEF Progress, Range
<1> QED
  BY <1>1, <1>2, <1>3, LedgerInit DEF SpreadInv

LEMMA RunTyped ==
    ASSUME NoRunAssumption, NEW r, RunOK(r) PROVE r \in Run /\ r # NoRun
<1>1. Fingerprints = Projects \X Seeds
  BY DEF Fingerprints, FingerprintOf
<1> QED
  BY <1>1 DEF NoRunAssumption, RunOK, Run

\* What a write makes of the ranking: no group has fewer finished runs, and
\* outside groups none is new or reports anything else.
LEMMA WriteRanks ==
    ASSUME SpreadAssumption, FloatAssumption, NoRunAssumption, RunsOK,
           NEW id \in RunIDs, NEW r, NEW groups, Written(id, r, groups), [Next]_vars
    PROVE  /\ Fps \subseteq Fps' /\ Fps' \ groups \subseteq Fps
           /\ \A fp \in Fps : Item(fp).count <= Item(fp)'.count
           /\ \A fp : fp \notin groups => /\ Item(fp)'.count = Item(fp).count
                                          /\ Item(fp)'.metrics = Item(fp).metrics
<1>1. runs'[id] = r /\ (\A i \in RunIDs : i # id => runs'[i] = runs[i]) /\ r # NoRun
  BY RunTyped DEF Written, Write, RunsOK
<1>2. Recorded' = Recorded \union {id}
  BY <1>1 DEF Recorded
<1>3. \A i \in Recorded : runs'[i].fingerprint = runs[i].fingerprint
  BY <1>1 DEF Written, Recorded
<1>4. Fps \subseteq Fps'
  BY <1>2, <1>3 DEF Fps
<1>5. Fps' \ groups \subseteq Fps
  <2> SUFFICES ASSUME NEW i \in Recorded', runs'[i].fingerprint \notin groups
               PROVE  runs'[i].fingerprint \in Fps
    BY DEF Fps
  <2>1. CASE i \in Recorded
    BY <1>3, <2>1 DEF Fps
  <2>2. CASE i \notin Recorded
    BY <1>1, <1>2, <2>2 DEF Written
  <2> QED
    BY <2>1, <2>2
<1>6. RunsOK'
  BY LedgerNext
<1>7. ASSUME NEW fp PROVE Item(fp).count <= Item(fp)'.count
  <2>1. PICK D : D = {i \in Recorded : runs[i].fingerprint = fp /\ Terminal(runs[i].status)}
    OBVIOUS
  <2>2. PICK E : E = {i \in Recorded' : runs'[i].fingerprint = fp /\ Terminal(runs'[i].status)}
    OBVIOUS
  <2>3. D \subseteq E
    <3> SUFFICES ASSUME NEW i \in D PROVE i \in E
      OBVIOUS
    <3>1. i \in Recorded /\ Terminal(runs[i].status) /\ runs[i].fingerprint = fp
      BY <2>1
    <3>2. i \in Recorded' /\ runs'[i] = runs[i]
      BY <3>1, TerminalStays
    <3> QED
      BY <2>2, <3>1, <3>2
  <2>4. IsFiniteSet(E)
    BY <1>6, <2>2, FS_Subset DEF RunsOK
  <2>5. Cardinality(D) <= Cardinality(E)
    BY <2>3, <2>4, FS_Subset
  <2>6. Item(fp).count = Cardinality(D)
    <3>1. D = {i \in {j \in Recorded : runs[j].fingerprint = fp} : Terminal(runs[i].status)}
      BY <2>1
    <3> QED
      BY <3>1 DEF Item, One
  <2>7. Item(fp)'.count = Cardinality(E)
    <3>1. E = {i \in {j \in Recorded' : runs'[j].fingerprint = fp} : Terminal(runs'[i].status)}
      BY <2>2
    <3> QED
      BY <3>1 DEF Item, One, Terminal
  <2> QED
    BY <2>5, <2>6, <2>7
<1>8. ASSUME NEW fp, fp \notin groups
      PROVE  Item(fp)'.count = Item(fp).count /\ Item(fp)'.metrics = Item(fp).metrics
  <2>1. \A i \in Recorded : Terminal(runs[i].status) => i \in Recorded' /\ runs'[i] = runs[i]
    BY TerminalStays
  <2>2. ASSUME NEW i \in Recorded', runs'[i].fingerprint = fp, Terminal(runs'[i].status)
        PROVE  i \in Recorded /\ runs'[i] = runs[i]
    <3>1. i # id
      BY <1>1, <1>8, <2>2 DEF Written
    <3> QED
      BY <1>1, <1>2, <3>1 DEF Recorded
  <2> QED
    BY <2>1, <2>2, SameFinished
<1> QED
  BY <1>4, <1>5, <1>7, <1>8

\* Recording, reporting and finishing, between two pages.
LEMMA WriteKeeps ==
    ASSUME SpreadAssumption, FloatAssumption, NoRunAssumption, SpreadInv,
           NEW id \in RunIDs, NEW r, NEW groups, Written(id, r, groups), [Next]_vars
    PROVE  SpreadInv'
<1>1. RunsOK' /\ ClientOK'
  <2>1. UNCHANGED client
    BY DEF Written, Write
  <2> QED
    BY <2>1, LedgerNext DEF SpreadInv, ClientOK
<1>2. PICK p : p = client.project
  OBVIOUS
<1>3. PICK n : n = client.minRuns /\ n \in Nat
  BY DEF SpreadInv, ClientOK
<1>4. PICK L : L = Listable(p, n)
  OBVIOUS
<1>5. PICK K : K = Listable(p, n)'
  OBVIOUS
<1>6. PICK c : c = client /\ c = client' /\ c.listed \in Seq(Fingerprints)
  BY DEF SpreadInv, ClientOK, Written, Write
<1>7. PICK M : M = moved' /\ (c.pc # "idle" => moved \union groups \subseteq M)
  BY <1>6 DEF Written, Write
<1>8. /\ Fps \subseteq Fps' /\ Fps' \ groups \subseteq Fps
      /\ \A fp \in Fps : Item(fp).count <= Item(fp)'.count
      /\ \A fp : fp \notin groups => /\ Item(fp)'.count = Item(fp).count
                                     /\ Item(fp)'.metrics = Item(fp).metrics
  BY WriteRanks DEF SpreadInv
<1>9. Progress(c, moved, L, Leads)
  BY <1>2, <1>3, <1>4, <1>6 DEF SpreadInv
<1>10. \A fp : Item(fp).count \in Nat /\ Item(fp)'.count \in Nat
  <2> TAKE fp
  <2>1. Item(fp).count \in Nat
    BY GroupFacts DEF SpreadInv, Item, GroupOK
  <2>2. \A S : IsFiniteSet(S) => Cardinality(S) \in Nat
    BY FS_CardinalityType
  <2>3. IsFiniteSet({i \in {j \in Recorded' : runs'[j].fingerprint = fp} : Terminal(runs'[i].status)})
    BY <1>1, FS_Subset DEF RunsOK
  <2>4. Item(fp)'.count
          = Cardinality({i \in {j \in Recorded' : runs'[j].fingerprint = fp} : Terminal(runs'[i].status)})
    BY DEF Item, One, Terminal
  <2> QED
    BY <2>1, <2>2, <2>3, <2>4
<1>11. L \subseteq K /\ K \ groups \subseteq L
  <2>1. L = {fp \in Fps : (p # None => fp[1] = p) /\ Item(fp).count >= n}
    BY <1>4 DEF Listable
  <2>2. K = {fp \in Fps' : (p # None => fp[1] = p) /\ Item(fp)'.count >= n}
    BY <1>5 DEF Listable
  <2>3. \A fp \in L : fp \in K
    BY <1>3, <1>8, <1>10, <2>1, <2>2
  <2>4. \A fp \in K : fp \notin groups => fp \in L
    BY <1>8, <2>1, <2>2
  <2> QED
    BY <2>3, <2>4
<1>12. ASSUME NEW f \in Fps, NEW g \in Fps, f \notin groups, g \notin groups, <<f, g>> \in Leads
       PROVE  <<f, g>> \in Leads'
  <2>1. Ranks(Item(f), Item(g))
    BY <1>12 DEF Leads
  <2>2. /\ Item(f)'.metrics = Item(f).metrics /\ Item(g)'.metrics = Item(g).metrics
        /\ Item(f).fingerprint = f /\ Item(g).fingerprint = g
        /\ Item(f)'.fingerprint = f /\ Item(g)'.fingerprint = g
    BY <1>8, <1>12 DEF Item, One
  <2>3. Widest(Item(f)) = Widest(Item(f)') /\ Widest(Item(g)) = Widest(Item(g)')
    BY <2>2 DEF Widest
  <2>4. Ranks(Item(f)', Item(g)')
    BY <2>1, <2>2, <2>3 DEF Ranks
  <2>5. f \in Fps' /\ g \in Fps'
    BY <1>8
  <2>6. <<f, g>> \in Leads' <=> Ranks(Item(f), Item(g))'
    BY <2>5 DEF Leads
  <2>7. Ranks(Item(f), Item(g))' <=> Ranks(Item(f)', Item(g)')
    BY DEF Ranks, Widest
  <2> QED
    BY <2>4, <2>6, <2>7
<1>13. L \subseteq Fps
  BY <1>4 DEF Listable
<1>14. PICK A : A = Leads'
  OBVIOUS
<1>15. Progress(c, M, K, A)
  <2>1. CASE c.pc = "idle"
    <3>1. c.listed = <<>>
      BY <1>9, <2>1 DEF Progress
    <3> QED
      BY <2>1, <3>1 DEF Progress
  <2>2. CASE c.pc # "idle"
    <3>1. moved \union groups \subseteq M
      BY <1>7, <2>2
    <3>2. /\ c.pc # "refused"
          /\ c.pc = "paging" => IF c.listed = <<>> THEN c.after = None
                                ELSE c.after = c.listed[Len(c.listed)]
          /\ \A i \in DOMAIN c.listed : c.listed[i] \in L
      BY <1>9 DEF Progress
    <3>3. \A i \in DOMAIN c.listed : c.listed[i] \in K
      BY <1>11, <3>2
    <3>4. ASSUME Range(c.listed) \intersect M = {}
          PROVE  /\ Range(c.listed) \intersect moved = {}
                 /\ \A i \in DOMAIN c.listed : c.listed[i] \in Fps /\ c.listed[i] \notin groups
      <4>1. \A i \in DOMAIN c.listed : c.listed[i] \in Range(c.listed)
        BY DEF Range
      <4> QED
        BY <1>13, <3>1, <3>2, <3>4, <4>1
    <3>5. ASSUME Range(c.listed) \intersect M = {},
                 NEW i \in DOMAIN c.listed, NEW j \in DOMAIN c.listed, i < j
          PROVE  <<c.listed[i], c.listed[j]>> \in A
      <4>1. <<c.listed[i], c.listed[j]>> \in Leads
        BY <1>9, <3>4, <3>5 DEF Progress
      <4> QED
        BY <1>12, <1>14, <3>4, <3>5, <4>1
    <3>6. ASSUME Range(c.listed) \intersect M = {}, c.pc = "paging", c.after # None,
                 NEW f \in K \ (Range(c.listed) \union M)
          PROVE  <<c.after, f>> \in A
      <4>1. f \in L /\ f \notin groups /\ f \notin moved
        BY <1>11, <3>1, <3>6
      <4>2. <<c.after, f>> \in Leads
        BY <1>9, <3>4, <3>6, <4>1 DEF Progress
      <4>3. c.listed # <<>> /\ c.after = c.listed[Len(c.listed)]
        BY <3>2, <3>6
      <4>4. Len(c.listed) \in DOMAIN c.listed
        BY <1>6, <4>3
      <4>5. c.after \in Fps /\ c.after \notin groups
        BY <3>4, <3>6, <4>3, <4>4
      <4> QED
        BY <1>12, <1>13, <1>14, <4>1, <4>2, <4>5
    <3>7. ASSUME Range(c.listed) \intersect M = {}, c.pc = "done"
          PROVE  K \subseteq Range(c.listed) \union M
      <4>1. L \subseteq Range(c.listed) \union moved
        BY <1>9, <3>4, <3>7 DEF Progress
      <4> QED
        BY <1>11, <3>1, <4>1
    <3> QED
      BY <2>2, <3>2, <3>3, <3>5, <3>6, <3>7 DEF Progress
  <2> QED
    BY <2>1, <2>2
<1>16. Progress(client, moved, Listable(client.project, client.minRuns), Leads)'
  <2>1. client'.project = p /\ client'.minRuns = n
    BY <1>2, <1>3, <1>6
  <2>2. Listable(client.project, client.minRuns)' = K
    BY <1>5, <2>1 DEF Listable
  <2> QED
    BY <1>6, <1>7, <1>14, <1>15, <2>2 DEF Progress
<1>17. (moved \subseteq Fingerprints)'
  <2>1. groups \subseteq Fingerprints
    BY DEF Written, Fingerprints, FingerprintOf
  <2> QED
    BY <2>1 DEF SpreadInv, Written, Write
<1> QED
  BY <1>1, <1>16, <1>17 DEF SpreadInv

LEMMA SpreadNext ==
    ASSUME SpreadAssumption, FloatAssumption, NoRunAssumption, SpreadInv, [Next]_vars
    PROVE  SpreadInv'
<1>1. RunsOK'
  BY LedgerNext DEF SpreadInv
<1>2. ASSUME UNCHANGED runs, NEW p, NEW n
      PROVE  Listable(p, n)' = Listable(p, n) /\ Leads' = Leads
  <2>1. Recorded' = Recorded
    BY <1>2 DEF Recorded
  <2>2. \A fp : Item(fp)' = Item(fp)
    BY <1>2, <2>1 DEF Item, One, MetricStats, ProvenanceDiffs
  <2>3. Fps' = Fps
    BY <1>2, <2>1 DEF Fps
  <2>4. \A f, g : Ranks(Item(f), Item(g))' <=> Ranks(Item(f), Item(g))
    BY <2>2 DEF Ranks, Widest
  <2> QED
    BY <2>2, <2>3, <2>4 DEF Listable, Leads
<1>3. ASSUME NEW p \in Projects \union {None}, NEW n \in MinRuns, NEW limit \in 1..MaxLimit,
             Begin(p, n, limit)
      PROVE  SpreadInv'
  <2>1. client' = [pc |-> "paging", project |-> p, minRuns |-> n, limit |-> limit,
                   after |-> None, listed |-> <<>>]
    BY <1>3 DEF Begin
  <2>2. ClientOK'
    BY <2>1 DEF ClientOK, SpreadAssumption
  <2>3. moved' = {}
    BY <1>3 DEF Begin
  <2>4. \A L, A : Progress(client', {}, L, A)
    <3>1. client'.pc = "paging" /\ client'.listed = <<>> /\ client'.after = None
      BY <2>1
    <3>2. DOMAIN client'.listed = {}
      BY <3>1
    <3> QED
      BY <3>1, <3>2 DEF Progress
  <2>5. Progress(client, moved, Listable(client.project, client.minRuns), Leads)'
    BY <2>3, <2>4
  <2> QED
    BY <1>1, <2>2, <2>3, <2>5 DEF SpreadInv
<1>4. CASE FetchPage
  <2>1. UNCHANGED <<runs, moved>>
    BY <1>4 DEF FetchPage
  <2>2. PICK p : p = client.project
    OBVIOUS
  <2>3. PICK n : n = client.minRuns
    OBVIOUS
  <2>4. /\ ClientOK' /\ client'.project = p /\ client'.minRuns = n
        /\ Progress(client', moved, Listable(p, n), Leads)
    BY <1>4, <2>2, <2>3, FetchGroups
  <2>5. Listable(client.project, client.minRuns)' = Listable(p, n)'
    BY <2>4 DEF Listable
  <2>6. Progress(client, moved, Listable(client.project, client.minRuns), Leads)'
    BY <1>2, <2>1, <2>4, <2>5
  <2> QED
    BY <1>1, <2>1, <2>4, <2>6 DEF SpreadInv
<1>5. ASSUME NEW id \in RunIDs, \E r, groups : Written(id, r, groups) PROVE SpreadInv'
  BY <1>5, WriteKeeps
<1>6. ASSUME NEW id \in RunIDs, NEW p \in Projects, NEW s \in Seeds, NEW d \in Devices,
             Record(id, p, s, d)
      PROVE  SpreadInv'
  BY <1>5, <1>6, RecordWrites
<1>7. ASSUME NEW id \in RunIDs, NEW k \in MetricKeys, NEW v \in MetricValues, LogMetric(id, k, v)
      PROVE  SpreadInv'
  BY <1>5, <1>7, LogMetricWrites DEF SpreadInv
<1>8. ASSUME NEW id \in RunIDs, Finish(id) PROVE SpreadInv'
  BY <1>5, <1>8, FinishWrites DEF SpreadInv
<1>9. CASE UNCHANGED vars
  <2>1. UNCHANGED runs /\ UNCHANGED client /\ UNCHANGED moved
    BY <1>9 DEF vars
  <2>2. ClientOK'
    BY <2>1 DEF SpreadInv, ClientOK
  <2>3. PICK p : p = client.project
    OBVIOUS
  <2>4. PICK n : n = client.minRuns
    OBVIOUS
  <2>5. Listable(client.project, client.minRuns)' = Listable(p, n)'
    BY <2>1, <2>3, <2>4 DEF Listable
  <2>6. Progress(client, moved, Listable(client.project, client.minRuns), Leads)'
    BY <1>2, <2>1, <2>3, <2>4, <2>5 DEF SpreadInv
  <2> QED
    BY <1>1, <2>1, <2>2, <2>6 DEF SpreadInv
<1> QED
  BY <1>3, <1>4, <1>6, <1>7, <1>8, <1>9 DEF Next

\* The ledger, the traversal and its place in the ranking, in every reachable
\* state of the two endpoints.
THEOREM SpreadInvariant ==
    ASSUME SpreadAssumption, FloatAssumption, NoRunAssumption PROVE Spec => []SpreadInv
  BY SpreadInit, SpreadNext, PTL DEF Spec

\* The types, and what stat says whatever the arithmetic rounds to: of no more
\* runs than the group has finished, and with min and max among the values
\* they reported (TypeOK).
THEOREM SpreadTypeCorrect ==
    ASSUME SpreadAssumption, FloatAssumption, NoRunAssumption PROVE Spec => []TypeOK
<1>1. ASSUME SpreadInv PROVE TypeOK
  <2>1. RunsOK /\ ClientOK /\ moved \subseteq Fingerprints
    BY <1>1 DEF SpreadInv
  <2>2. runs \in [RunIDs -> Run \union {NoRun}]
    <3>1. ASSUME NEW id \in RunIDs PROVE runs[id] \in Run \union {NoRun}
      <4>1. CASE id \in Recorded
        <5>1. RunOK(runs[id])
          BY <2>1, <4>1 DEF RunsOK
        <5> QED
          BY <5>1, RunTyped
      <4>2. CASE id \notin Recorded
        BY <4>2 DEF Recorded
      <4> QED
        BY <4>1, <4>2
    <3> QED
      BY <2>1, <3>1 DEF RunsOK
  <2>3. ASSUME NEW g \in Groups(Recorded), NEW k \in DOMAIN g.metrics
        PROVE  LET m        == g.metrics[k]
                   reported == {runs[id].metrics[k] :
                                   id \in {r \in g.ids : k \in DOMAIN runs[r].metrics}}
               IN  /\ m.count \in 1..g.count
                   /\ m.min <= m.max
                   /\ {m.min, m.max} \subseteq reported
    <3>1. GroupOK(g)
      BY <2>1, GroupsFacts
    <3> QED
      BY <3>1 DEF GroupOK, StatOK, Reported
  <2> QED
    BY <2>1, <2>2, <2>3 DEF TypeOK, ClientOK
<1> QED
  BY <1>1, SpreadInvariant, PTL

\* Whatever is recorded, reported and finished between the pages, a traversal
\* keeps its cursor, and lists what did not move once, in order and in full
\* while nothing it has listed moves (StableTraversal).
THEOREM StablePaging ==
    ASSUME SpreadAssumption, FloatAssumption, NoRunAssumption
    PROVE  Spec => []StableTraversal
<1>1. ASSUME SpreadInv PROVE StableTraversal
  <2>1. PICK L : L = Listable(client.project, client.minRuns)
    OBVIOUS
  <2>2. Progress(client, moved, L, Leads)
    BY <1>1, <2>1 DEF SpreadInv
  <2>3. {g.fingerprint : g \in Range(Ranking(client.project, client.minRuns))} = L
    <3>1. client.project \in Projects \union {None}
      BY <1>1 DEF SpreadInv, ClientOK
    <3>2. PICK m : RankedList(Ranking(client.project, client.minRuns), m, L, Leads)
      BY <1>1, <2>1, <3>1, RankingListed DEF SpreadInv
    <3> QED
      BY <3>2 DEF RankedList, Range
  <2>4. \A f, g : <<f, g>> \in Leads => Ranks(Item(f), Item(g))
    BY DEF Leads
  <2> QED
    BY <2>2, <2>3, <2>4 DEF StableTraversal, Progress
<1> QED
  BY <1>1, SpreadInvariant, PTL

\* A group with nothing measurable ranks behind every group with a spread to
\* show, whatever numbers the arithmetic yields (UnmeasuredLast).
THEOREM MeasuredFirst ==
    ASSUME SpreadAssumption, FloatAssumption PROVE Spec => []UnmeasuredLast
<1>1. ASSUME RunsOK PROVE UnmeasuredLast
  <2> SUFFICES ASSUME NEW g \in Groups(Recorded), NEW h \in Groups(Recorded),
                      Measured(g), ~Measured(h)
               PROVE  Ranks(g, h)
    BY DEF UnmeasuredLast
  <2>1. GroupOK(g) /\ GroupOK(h)
    BY <1>1, GroupsFacts
  <2>2. Widest(g) \in Nat \union {-1} /\ Widest(g) >= 0 /\ Widest(h) = -1
    BY <2>1, WidestFound
  <2>3. Widest(g) > Widest(h)
    BY <2>2
  <2> QED
    BY <2>3 DEF Ranks
<1> QED
  BY <1>1, LedgerInvariant, PTL

\* The ranking lists every group with enough runs, once, the widest spread
\* first and in an order that leaves no two groups tied.
Ranked ==
    \A p \in Projects \union {None}, n \in MinRuns : RankingOK(p, n)

THEOREM RankingComplete ==
    ASSUME SpreadAssumption, FloatAssumption PROVE Spec => []Ranked
<1>1. ASSUME RunsOK PROVE Ranked
  BY <1>1, RankingFacts DEF Ranked
<1> QED
  BY <1>1, LedgerInvariant, PTL

=============================================================================
