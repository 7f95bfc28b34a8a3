------------------------------ MODULE MCHooks ------------------------------
(* Three programs: one on an unreliable network, two with threads, with a  *)
(* SIGTERM handler of their own and without one.                           *)
EXTENDS RunHooks

Bare == [original |-> "default", lossy |-> TRUE, threads |-> FALSE]

MCPrograms ==
    {Bare, [original |-> "user", lossy |-> FALSE, threads |-> TRUE],
     [original |-> "default", lossy |-> FALSE, threads |-> TRUE]}

MCBare == {Bare}

\* The names of the main thread's runs mean nothing: one of them is always the first.
MCFirst == CHOOSE m \in MainRuns : TRUE
FirstStartsFirst ==
    (\E m \in MainRuns : frame[m].pc # "idle") => frame[MCFirst].pc # "idle"

\* With a handler of the program's own, two of its runs at most: the third makes the
\* difference to who puts the disposition back, whichever it is.
TwoUnderUser ==
    program.original = "user" => \E r \in Runs : frame[r].pc = "idle"

\* The disposition a program inherits from nohup.
MCIgnoring == {[Bare EXCEPT !.original = "ignore"]}

=============================================================================
