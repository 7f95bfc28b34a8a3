----------------------------- MODULE MCCompare -----------------------------
(* Runs whose parameters are spelled differently, set empty or not set.    *)
EXTENDS Compare, ParamNormal

N(int, frac)       == Numeral(FALSE, int, frac, NoExp)
E(int, frac, exp)  == Numeral(FALSE, int, frac, exp)
Negative(v)        == [v EXCEPT !.neg = TRUE]

\* 3e-4, 0.0003, 0.00030, .0003; 0, 0.0, -0, 0e5; 1, 1.0, 1e0, -1, 10e-1; 1000000,
\* 1e6, 10e5; 12.5, 125e-1, 1.25e1; too many digits; too large, too small; 007 and 7; "".
Spellings ==
    {E(<<3>>, <<>>, -4), N(<<0>>, <<0, 0, 0, 3>>), N(<<0>>, <<0, 0, 0, 3, 0>>), N(<<>>, <<0, 0, 0, 3>>),
     N(<<0>>, <<>>), N(<<0>>, <<0>>), Negative(N(<<0>>, <<>>)), E(<<0>>, <<>>, 5),
     N(<<1>>, <<>>), N(<<1>>, <<0>>), E(<<1>>, <<>>, 0), Negative(N(<<1>>, <<>>)), E(<<1, 0>>, <<>>, -1),
     N(<<1, 0, 0, 0, 0, 0, 0>>, <<>>), E(<<1>>, <<>>, 6), E(<<1, 0>>, <<>>, 5),
     N(<<1, 2>>, <<5>>), E(<<1, 2, 5>>, <<>>, -1), E(<<1>>, <<2, 5>>, 1),
     N(<<1, 2, 3, 4>>, <<>>), N(<<1, 2, 3, 0>>, <<>>),
     E(<<1>>, <<>>, 9), E(<<1, 0>>, <<>>, 8), E(<<1>>, <<>>, -9), E(<<1, 0>>, <<>>, -10),
     N(<<0, 0, 7>>, <<>>), N(<<7>>, <<>>), Empty}

MCOpaque      == {Empty}
MCMinExp      == -8
MCParamValues == Spellings \union {Normalize(v) : v \in Spellings}
MCCanon       == [v \in MCParamValues |-> Normalize(v)]

Base(params) ==
    [experiment |-> "mnist", dirty |-> FALSE, config |-> Empty, params |-> params,
     status |-> Running, startedAt |-> 1, endedAt |-> None,
     prov |-> [f \in ProvFields |-> Empty], metrics |-> None, capture |-> None]

Hashed(r, fingerprint) ==
    [experiment |-> r.experiment, dirty |-> r.dirty, config |-> r.config,
     params |-> r.params, fingerprint |-> fingerprint, status |-> r.status,
     startedAt |-> r.startedAt, endedAt |-> r.endedAt, prov |-> r.prov,
     metrics |-> r.metrics, capture |-> r.capture]

LR(v) == [k \in {"lr"} |-> v]

Declared == [client |-> "rlctl", names |-> {"host"}, sorted |-> TRUE]

Finished(params) == [Base(params) EXCEPT !.status = Succeeded, !.endedAt = 1]

MCRecordable ==
    {Hashed(r, Compute(r)) :
        r \in {Finished(LR(v)) : v \in Spellings}
              \union {Base(None), Base(LR(Empty)), Base(LR(E(<<3>>, <<>>, -4))),
                      [Base(LR(N(<<0>>, <<0, 0, 0, 3>>))) EXCEPT !.capture = Declared],
                      [Base(None) EXCEPT !.dirty = TRUE, !.config = "cfg",
                                         !.metrics = [k \in {"loss"} |-> 1]]}}

MCLegacyRuns ==
    LET r == Finished(LR(E(<<3>>, <<>>, -4)))
    IN  {Hashed(r, LegacyCompute(r))}

Untouched ==
    [experiment |-> None, dirty |-> None, config |-> None, params |-> None,
     status |-> None, endedAt |-> None, prov |-> [f \in {} |-> f], metrics |-> None]

MCPatches ==
    {[Untouched EXCEPT !.status = Succeeded],
     [Untouched EXCEPT !.metrics = [k \in {"loss"} |-> 2]],
     [Untouched EXCEPT !.prov = [f \in {"host"} |-> "cuda"]]}

-----------------------------------------------------------------------------

\* A number in a float's range counts whatever its spelling.
SameValue(v, w) ==
    \/ v = w
    \/ (\A u \in {v, w} : MatchesPattern(u) /\ InRange(u)) /\ SameNumber(v, w)

\* No number among the parameters has more digits than a float.
FewDigitsEach(r) ==
    \A k \in DOMAIN Entries(r.params) :
        MatchesPattern(Entries(r.params)[k]) => FewDigits(Entries(r.params)[k])

(***************************************************************************)
(* What Compute promises (run.go:306-312), end to end: two runs recorded   *)
(* under the current contract compare as the same experiment exactly when  *)
(* their fields agree and each parameter has the same value, a number      *)
(* counting as the same however it is spelled.  What is no number, or is   *)
(* too large or too small for a float64, counts as it is spelled.  Numbers *)
(* with more digits than a float64 holds are left out: see LikeForLike.    *)
(***************************************************************************)
VerdictByValue ==
    Answered =>
        LET a == request.left
            b == request.right
            p == Entries(a.params)
            q == Entries(b.params)
        IN  (\A r \in {a, b} : r.fingerprint = Compute(r) /\ FewDigitsEach(r)) =>
                (request.answer.same <=>
                    /\ <<a.experiment, a.dirty, a.config>> = <<b.experiment, b.dirty, b.config>>
                    /\ DOMAIN p = DOMAIN q
                    /\ \A k \in DOMAIN p : SameValue(p[k], q[k]))

\* run.go:374-376: normalizing is "only ever a no-op or a like-for-like rewrite,
\* never a way to lose information".
LikeForLike ==
    \A v \in Spellings : MatchesPattern(v) => SameNumber(v, Normalize(v))

=============================================================================
