---------------------------- MODULE MCDuckStore ----------------------------
(* A few runs to record and patches to apply.                              *)
EXTENDS DuckStore

MCParamValues == {"", "1"}
MCCanon == [v \in MCParamValues |-> v]

Base == [experiment |-> "mnist", dirty |-> FALSE, config |-> "", params |-> None,
         status |-> Running, startedAt |-> 1, endedAt |-> None,
         prov |-> [f \in ProvFields |-> "cpu"], metrics |-> None, capture |-> None]

Stamped(r) ==
    [experiment |-> r.experiment, dirty |-> r.dirty, config |-> r.config,
     params |-> r.params, fingerprint |-> Compute(r), status |-> r.status,
     startedAt |-> r.startedAt, endedAt |-> r.endedAt, prov |-> r.prov,
     metrics |-> r.metrics, capture |-> r.capture]

Tuned == [Base EXCEPT !.params = [k \in {"lr"} |-> "1"],
                      !.metrics = [k \in {"loss"} |-> 1],
                      !.capture = [client |-> "rlctl", names |-> {"host"}, sorted |-> FALSE]]

MCPosts == {<<id, Stamped(r)>> : id \in RunIDs, r \in {Base, Tuned}}

\* A client that spells "no parameters" as {}.
MCEmptyParams == {<<id, Stamped([Base EXCEPT !.params = NoRows])>> : id \in RunIDs}

Untouched ==
    [experiment |-> None, dirty |-> None, config |-> None, params |-> None,
     status |-> None, endedAt |-> None, prov |-> NoRows, metrics |-> None]

MCPatches ==
    {[Untouched EXCEPT !.status = Succeeded, !.metrics = [k \in {"loss"} |-> 2]],
     [Untouched EXCEPT !.metrics = [k \in {"acc"} |-> 1], !.prov = [f \in {"host"} |-> "cuda"]],
     [Untouched EXCEPT !.status = Created]}

=============================================================================
