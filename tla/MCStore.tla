------------------------------ MODULE MCStore ------------------------------
(* A small ledger: the inputs that make Store's interesting cases happen.  *)
EXTENDS Store

\* "3e-4" and "0.0003" are spellings of one number; "1" is its own.
MCParamValues == {"", "1", "3e-4", "0.0003"}
MCCanon == [v \in MCParamValues |-> IF v = "0.0003" THEN "3e-4" ELSE v]

Plain(id, status, started, ended) ==
    [runID |-> id, experiment |-> "mnist", dirty |-> FALSE, config |-> "",
     params |-> None, fingerprint |-> None, status |-> status,
     startedAt |-> started, endedAt |-> ended, prov |-> [f \in ProvFields |-> "cpu"],
     metrics |-> None, capture |-> None]

Tuned(id) ==
    [Plain(id, "", 2, None) EXCEPT
       !.params = [k \in {"lr"} |-> "0.0003"],
       !.fingerprint = Compute(Plain(id, "", 2, None)),
       !.metrics = [k \in {"loss"} |-> 1],
       !.capture = [client |-> "rlctl", names |-> {"device", "host"}, sorted |-> FALSE]]

AnID == CHOOSE id \in RunIDs : TRUE

MCBodies ==
    {Plain(AnID, "", 0, None), Plain("", "running", 3, None),
     Plain("", "succeeded", 1, None), Plain(AnID, "running", 2, 3),
     Plain("", "failed", 2, 1), Plain("", UnknownStatus, 1, None),
     Tuned(AnID), [Tuned("") EXCEPT !.status = Running],
     [Tuned("") EXCEPT !.dirty = TRUE],
     [Tuned("") EXCEPT !.dirty = TRUE, !.config = "cfg"],
     [Tuned("") EXCEPT !.experiment = Blank],
     [Tuned("") EXCEPT !.capture.names = {UnknownField}]}

Untouched ==
    [experiment |-> None, dirty |-> None, config |-> None, params |-> None,
     status |-> None, endedAt |-> None, prov |-> [f \in {} |-> f], metrics |-> None]

MCPatches ==
    {[Untouched EXCEPT !.status = s] : s \in Statuses \union {UnknownStatus}}
    \union {[Untouched EXCEPT !.status = Succeeded, !.endedAt = t] : t \in {1, 3}}
    \union {[Untouched EXCEPT !.metrics = [k \in {"acc"} |-> 2]],
            [Untouched EXCEPT !.metrics = [k \in {"loss"} |-> 2], !.status = Failed],
            [Untouched EXCEPT !.prov = [f \in {"device"} |-> "cuda"]],
            [Untouched EXCEPT !.endedAt = 1],
            [Untouched EXCEPT !.params = [k \in {"lr"} |-> "0.0003"], !.status = Cancelled],
            [Untouched EXCEPT !.params = [k \in {"lr"} |-> "1"]],
            [Untouched EXCEPT !.experiment = "cifar"],
            [Untouched EXCEPT !.config = "cfg"],
            [Untouched EXCEPT !.dirty = TRUE]}

\* A patch that names a parameter the run does not have, with an empty value.
MCMisnamed == {[Untouched EXCEPT !.status = Running],
               [Untouched EXCEPT !.params = [k \in {"wd"} |-> ""], !.status = Failed]}

=============================================================================
