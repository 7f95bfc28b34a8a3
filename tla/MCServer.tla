------------------------------ MODULE MCServer ------------------------------
(* Two callers: one runs an rlctl command, the other runs one or sends     *)
(* what monitoring and strangers send, and its token only reads.  A third  *)
(* repeats a post of the first, for a scrape of the second.                *)
EXTENDS Server

CONSTANTS c1, c2, c3, given

MCCallers == {c1, c2, c3}
MCGiven   == {Old, given}
MCRunIDs  == MCCallers \union MCGiven
MCClock   == [c \in MCCallers |-> IF c = c1 THEN 2 ELSE IF c = c2 THEN 3 ELSE 4]
MCToken   == [c \in MCCallers |-> IF c = c2 THEN "read" ELSE "write"]
MCCanon   == [v \in {""} |-> v]

\* What one does to the run the other may have recorded, and both to Old.
MCSends ==
    [c \in MCCallers |->
        IF c = c3
        THEN [op : {"post"}, id : {given}, status : {Created}]
        ELSE IF c = c1
        THEN [op : {"record"}, id : {c1}, status : {Created}]
             \union [op : {"post"}, id : {given}, status : {Created, Succeeded}]
             \union [op : {"start"}, id : {c2}, status : {Running}]
             \union [op : {"finish"}, id : {Old}, status : {Succeeded, Running}]
             \union [op : {"show"}, id : {Old}, status : {None}]
             \union [op : {"list"}, id : {None}, status : {None}]
        ELSE [op : {"record"}, id : {c2}, status : {Created}]
             \union [op : {"post"}, id : {c1, given, Old}, status : {Created}]
             \union [op : {"finish"}, id : {Old, c1}, status : {Failed}]
             \union [op : {"show"}, id : {c1}, status : {None}]
             \union [op : {"metrics", "readyz", "healthz", "no_route", "other_method",
                           "malformed"}, id : {None}, status : {None}]]

\* What strangers send concerns nobody, a second run from before only who lists or
\* posts, a token is checked before the store is asked, and a server that only knows
\* the read token refuses all writes alike.
Concerned ==
    /\ request[c2].op \in {"readyz", "healthz", "no_route", "other_method", "malformed"} =>
          request[c1].op = "none"
    /\ runs[given] = NewRun(Running) =>
          request[c1].op \in {"none", "list", "post"} /\ faults = 0 /\ auth = {}
    /\ request[c3].op # "none" \/ exit[c3] # "none" =>
          /\ c1 \in Retries /\ request[c2].op = "metrics" /\ auth = {} /\ faults = 0
          /\ proc.phase = "serving" /\ \A c \in {c1, c2, c3} : exit[c] # "failed"
    /\ auth = {"read"} => request[c1].op = "none"
    /\ auth # {} => faults = 0

=============================================================================
