------------------------------- MODULE Ledger -------------------------------
(***************************************************************************)
(* What a Store promises its callers (internal/store/store.go, the Store   *)
(* interface): one map of runs that changes in two ways, each at one       *)
(* instant.  A valid run appears under an id that had none, or a patch is  *)
(* applied whole to the run as it is at that instant.  Store and DuckStore *)
(* are checked against it.                                                 *)
(***************************************************************************)
EXTENDS StoreRules

CONSTANTS
    Recordable,     \* the runs a caller may have recorded
    Times           \* the instants applyPatch may read off the clock

VARIABLE runs

Record(id) ==
    /\ runs[id] = NoRun
    /\ \E r \in Recordable :
          /\ Validate(r)
          /\ runs' = [runs EXCEPT ![id] = Canonical(r)]

Update(id, p) ==
    /\ runs[id] # NoRun
    /\ \E now \in Times :
          LET result == ApplyPatch(runs[id], p, now)
          IN  /\ result.err = "nil"
              /\ runs' = [runs EXCEPT ![id] = Canonical(result.run)]

Init == runs = [id \in RunIDs |-> NoRun]

Next ==
    \/ \E id \in RunIDs : Record(id)
    \/ \E id \in RunIDs, p \in Patches : Update(id, p)

Spec == Init /\ [][Next]_runs

=============================================================================
