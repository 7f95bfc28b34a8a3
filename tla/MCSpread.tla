------------------------------ MODULE MCSpread ------------------------------
(* A float of three significant bits for the float64 of internal/spread:   *)
(* integers whose other bits are cut off.  Values are summed in ascending  *)
(* order, one of the orders List can have the runs in, so that run ids are *)
(* interchangeable, as devices are: both are only collected in sets.       *)
EXTENDS Spread, TLC

Magnitude(n) == IF n < 0 THEN -n ELSE n
Sign(n) == IF n < 0 THEN -1 ELSE 1

\* n with three significant bits.
Short(n) ==
    LET ulp == Max({1} \union {u \in {2, 4, 8, 16, 32, 64} : Magnitude(n) >= 4 * u})
    IN  Sign(n) * ulp * (Magnitude(n) \div ulp)

ShortSum(numbers) == FoldLeft(LAMBDA x, y : Short(x + y), 0, numbers)

Quotient(a, b) == Short(Sign(a) * (Magnitude(a) \div b))

Root(n) == Max({r \in 0..n : r * r <= n})

Ascending(values) ==
    LET ids == SetToSortSeq(DOMAIN values, LAMBDA i, j : values[i] < values[j])
    IN  [i \in DOMAIN ids |-> values[ids[i]]]

Values == UNION {[ids -> MetricValues] : ids \in (SUBSET RunIDs) \ {{}}}

Means == [values \in Values |-> Quotient(ShortSum(Ascending(values)), Cardinality(DOMAIN values))]

Deviations ==
    [values \in Values |->
        LET numbers == Ascending(values)
            square(v) == Short(Short(v - Means[values]) * Short(v - Means[values]))
        IN  Root(Quotient(ShortSum([i \in DOMAIN numbers |-> square(numbers[i])]),
                          Len(numbers)))]

MCMean(values) == Means[values]
MCStdDev(values) == Deviations[values]

\* In eighths; x / 0 is infinite, or NaN.
Infinite == 1000

MCCV(stddev, mean) ==
    IF mean # 0 THEN Quotient(8 * stddev, Magnitude(mean))
    ELSE IF stddev = 0 THEN -1 ELSE Infinite

SixAndMinusSix == {6, -6}

\* A traversal of the second project would be like one of the first.
FirstOrAll == client.project # 2

Symmetry == Permutations(RunIDs) \union Permutations(Devices)

=============================================================================
