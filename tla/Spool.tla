------------------------------- MODULE Spool -------------------------------
(***************************************************************************)
(* The spool file of the Python client: training processes append the      *)
(* records they could not send (_run.py, Run._spool), and replay_spool     *)
(* (replay.py) re-sends them, rewrites the file and quarantines what the   *)
(* ledger refuses.  There is no lock: an append and a replay interleave at *)
(* every system call, and the replay may be killed at any of them.         *)
(*                                                                         *)
(* A record stands for one line.  A spooled payload has no run_id, so each *)
(* POST the ledger processes makes a new row (Store's AssignedID).         *)
(***************************************************************************)
EXTENDS Naturals, Sequences, Functions

CONSTANTS
    Records,        \* the runs whose record has to be spooled
    Accepted,       \* those the ledger accepts; it answers 400 to the others
    MaxFaults       \* bound: crashes, failing stores, unreachable ledgers and
                    \* failed rewrites

ASSUME SpoolAssumption == Accepted \subseteq Records /\ MaxFaults \in Nat

VARIABLES
    spool,          \* the lines of the file at the spool path
    writer,         \* record -> how far Run._spool has come with it; "stale" has
                    \* open a file that os.replace has since unlinked
    rows,           \* record -> rows the ledger has for it
    quarantine,     \* the lines of <spool>.rejected.jsonl
    replay,         \* the local variables of replay_spool
    faults,         \* faults so far
    overlapped,     \* history: records whose append met a rewrite under way
    refused         \* history: acceptable records that were answered 400

vars == <<spool, writer, rows, quarantine, replay, faults, overlapped, refused>>

-----------------------------------------------------------------------------
(* Run._spool: open for append, write one line, close.                     *)

OpenSpool(r) ==
    /\ writer[r] = "training"
    /\ writer' = [writer EXCEPT ![r] = "open"]
    /\ UNCHANGED <<spool, rows, quarantine, replay, faults, overlapped, refused>>

\* The line goes to the file that was opened, whatever has its name now.
WriteLine(r) ==
    /\ writer[r] \in {"open", "stale"}
    /\ writer' = [writer EXCEPT ![r] = "written"]
    /\ spool' = IF writer[r] = "open" THEN Append(spool, r) ELSE spool
    /\ overlapped' = IF replay.pc = "replace" THEN overlapped \union {r} ELSE overlapped
    /\ UNCHANGED <<rows, quarantine, replay, faults, refused>>

\* OSError on either call: a warning, and the record is nowhere.
SpoolFails(r) ==
    /\ writer[r] \in {"training", "open", "stale"}
    /\ writer' = [writer EXCEPT ![r] = "failed"]
    /\ UNCHANGED <<spool, rows, quarantine, replay, faults, overlapped, refused>>

-----------------------------------------------------------------------------
(* replay_spool.                                                           *)

Idle == [pc |-> "idle", lines |-> <<>>, next |-> 1, rejected |-> <<>>,
         remaining |-> <<>>, tail |-> <<>>]

\* Read the whole file; an empty or missing one ends the call.
ReadSpool ==
    /\ replay.pc = "idle"
    /\ spool # <<>>
    /\ replay' = [Idle EXCEPT !.pc = "post", !.lines = spool]
    /\ UNCHANGED <<spool, writer, rows, quarantine, faults, overlapped, refused>>

Line == replay.lines[replay.next]

\* Fault: the loop runs once more after the last line.
NextLineOffByOne ==
    [replay EXCEPT !.next = @ + 1,
                   !.pc = IF replay.next > Len(replay.lines) THEN "tail" ELSE "post"]

\* The state after the line just sent was dealt with: the next line, or the
\* rewrite once the loop is through.
NextLine ==
    [replay EXCEPT !.next = @ + 1,
                   !.pc = IF replay.next = Len(replay.lines) THEN "tail" ELSE "post"]

PostAccepted ==
    /\ replay.pc = "post"
    /\ Line \in Accepted
    /\ rows' = [rows EXCEPT ![Line] = @ + 1]
    /\ replay' = NextLine
    /\ UNCHANGED <<spool, writer, quarantine, faults, overlapped, refused>>

\* Fault: a refusal stops the replay like an outage does.
PostRejectedStopping ==
    /\ replay.pc = "post"
    /\ Line \notin Accepted
    /\ replay' = [replay EXCEPT !.pc = "tail",
                     !.remaining = SubSeq(replay.lines, replay.next, Len(replay.lines))]
    /\ UNCHANGED <<spool, writer, rows, quarantine, faults, overlapped, refused>>

\* 400 or 409.
PostRejected ==
    /\ replay.pc = "post"
    /\ Line \notin Accepted
    /\ replay' = [NextLine EXCEPT !.rejected = Append(@, Line)]
    /\ UNCHANGED <<spool, writer, rows, quarantine, faults, overlapped, refused>>

\* The ledger's store fails on an acceptable record: api.record has one answer
\* for every error that is not a conflict, 400, which the replay takes for a
\* refusal of the record.
PostRefused ==
    /\ replay.pc = "post"
    /\ Line \in Accepted
    /\ faults < MaxFaults
    /\ faults' = faults + 1
    /\ refused' = refused \union {Line}
    /\ replay' = [NextLine EXCEPT !.rejected = Append(@, Line)]
    /\ UNCHANGED <<spool, writer, rows, quarantine, overlapped>>

\* No answer, or a 5xx; the ledger may have recorded the line before the
\* answer was lost.  The loop stops and this line stays.
PostFails ==
    /\ replay.pc = "post"
    /\ faults < MaxFaults
    /\ faults' = faults + 1
    /\ \/ UNCHANGED rows
       \/ Line \in Accepted /\ rows' = [rows EXCEPT ![Line] = @ + 1]
    /\ replay' = [replay EXCEPT !.pc = "tail",
                     !.remaining = SubSeq(replay.lines, replay.next, Len(replay.lines))]
    /\ UNCHANGED <<spool, writer, quarantine, overlapped, refused>>

\* Fault: what was appended during the call is not read.
ReadNoTail ==
    /\ replay.pc = "tail"
    /\ replay' = [replay EXCEPT !.pc = "replace"]
    /\ UNCHANGED <<spool, writer, rows, quarantine, faults, overlapped, refused>>

\* Fault: the refused lines are quarantined before the spool is rewritten.
ReadTailQuarantining ==
    /\ replay.pc = "tail"
    /\ quarantine' = quarantine \o replay.rejected
    /\ replay' = [replay EXCEPT !.pc = "replace", !.rejected = <<>>,
                     !.tail = SubSeq(spool, Len(replay.lines) + 1, Len(spool))]
    /\ UNCHANGED <<spool, writer, rows, faults, overlapped, refused>>

\* _rewrite, first half: what is in the file beyond the offset read first.
ReadTail ==
    /\ replay.pc = "tail"
    /\ replay' = [replay EXCEPT !.pc = "replace",
                     !.tail = SubSeq(spool, Len(replay.lines) + 1, Len(spool))]
    /\ UNCHANGED <<spool, writer, rows, quarantine, faults, overlapped, refused>>

\* _rewrite, second half: the temp file takes the spool's place.  From here
\* on an append that opened the old file writes to no name.
ReplaceSpool ==
    /\ replay.pc = "replace"
    /\ spool' = replay.remaining \o replay.tail
    /\ writer' = [r \in Records |-> IF writer[r] = "open" THEN "stale" ELSE writer[r]]
    /\ overlapped' = overlapped \union {r \in Records : writer[r] = "open"}
    /\ replay' = [replay EXCEPT !.pc = "quarantine"]
    /\ UNCHANGED <<rows, quarantine, faults, refused>>

\* The temp file cannot be written: it is removed and the error raised.
ReplaceFails ==
    /\ replay.pc = "replace"
    /\ faults < MaxFaults
    /\ faults' = faults + 1
    /\ replay' = Idle
    /\ UNCHANGED <<spool, writer, rows, quarantine, overlapped, refused>>

\* Append the rejected lines to the quarantine, then return or raise.
QuarantineAndReturn ==
    /\ replay.pc = "quarantine"
    /\ quarantine' = quarantine \o replay.rejected
    /\ replay' = Idle
    /\ UNCHANGED <<spool, writer, rows, faults, overlapped, refused>>

\* The replay process is killed.
Crash ==
    /\ replay.pc # "idle"
    /\ faults < MaxFaults
    /\ faults' = faults + 1
    /\ replay' = Idle
    /\ UNCHANGED <<spool, writer, rows, quarantine, overlapped, refused>>

-----------------------------------------------------------------------------

Init ==
    /\ spool = <<>>
    /\ writer = [r \in Records |-> "training"]
    /\ rows = [r \in Records |-> 0]
    /\ quarantine = <<>>
    /\ replay = Idle
    /\ faults = 0
    /\ overlapped = {}
    /\ refused = {}

Replaying ==
    \/ ReadSpool
    \/ PostAccepted
    \/ PostRejected
    \/ ReadTail
    \/ ReplaceSpool
    \/ QuarantineAndReturn

Next ==
    \/ \E r \in Records : OpenSpool(r) \/ WriteLine(r) \/ SpoolFails(r)
    \/ Replaying
    \/ PostRefused
    \/ PostFails
    \/ ReplaceFails
    \/ Crash

(***************************************************************************)
(* Fairness: replay is run again as long as there is something to replay,  *)
(* and a running replay takes its next step.  Nothing is assumed of the    *)
(* training processes or of the faults.                                    *)
(***************************************************************************)
Spec == Init /\ [][Next]_vars /\ WF_vars(Replaying)

-----------------------------------------------------------------------------
(* Properties.                                                             *)

\* The file, the writers, the ledger and the replay's locals have their types.
TypeOK ==
    /\ spool \in Seq(Records)
    /\ writer \in [Records -> {"training", "open", "stale", "written", "failed"}]
    /\ rows \in [Records -> Nat]
    /\ quarantine \in Seq(Records)
    /\ replay \in [pc : {"idle", "post", "tail", "replace", "quarantine"},
                   lines : Seq(Records), next : Nat \ {0}, rejected : Seq(Records),
                   remaining : Seq(Records), tail : Seq(Records)]
    /\ replay.pc = "post" => replay.next \in 1..Len(replay.lines)
    /\ faults \in 0..MaxFaults
    /\ overlapped \subseteq Records
    /\ refused \subseteq Accepted

(***************************************************************************)
(* A spooled record the ledger would accept is in the file or in the       *)
(* ledger at every instant, whatever crashes, lost answers and concurrent  *)
(* appends there were, unless its append met the rewrite between the tail  *)
(* read and os.replace, or a failing store had it answered 400.            *)
(***************************************************************************)
SpooledNotLost ==
    \A r \in Accepted \ (overlapped \union refused) :
        writer[r] = "written" => r \in Range(spool) \/ rows[r] > 0

(***************************************************************************)
(* No line is ever in two places: the rewrite duplicates none, in the      *)
(* spool or in what is about to replace it, and a refused record is        *)
(* "moved" (replay.py:21): quarantined at most once and out of the spool   *)
(* by then, which is what rewriting before quarantining buys.  Nothing but *)
(* what was answered 400 or 409 is quarantined.                            *)
(***************************************************************************)
NoLineTwice ==
    /\ IsInjective(spool)
    /\ replay.pc \in {"replace", "quarantine"} =>
          IsInjective(replay.remaining \o replay.tail)
    /\ IsInjective(quarantine)
    /\ Range(quarantine) \intersect Range(spool) = {}
    /\ Range(quarantine) \intersect Accepted \subseteq refused

(***************************************************************************)
(* A record in the spool reaches the ledger, behind any number of refused  *)
(* ones and however often the replay was interrupted: nothing wedges it    *)
(* (ADR 0008, Consequences).                                               *)
(***************************************************************************)
SpoolDrains ==
    \A r \in Accepted :
        r \in Range(spool) ~> rows[r] > 0 \/ r \in overlapped \union refused

\* replay.py:3 "why a crash mid-replay cannot double-record".
NoDoubleRecord == \A r \in Records : rows[r] <= 1

\* replay.py:16-18: a 400 or a 409 "means the server has looked at this exact
\* payload and will never accept it", so only such a record is quarantined.
QuarantinedDeserved == Range(quarantine) \intersect Accepted = {}

\* replay.py:39-41: rewriting "cannot silently drop a line a live process
\* wrote in the meantime".
NoDroppedAppend ==
    \A r \in Accepted \ refused : writer[r] = "written" => r \in Range(spool) \/ rows[r] > 0

\* ADR 0008: a refused record "is moved out of the spool once, onto disk,
\* where it stays".  Between the two files only a running replay holds it.
RefusedKept ==
    \A r \in (Records \ Accepted) \ overlapped :
        writer[r] = "written" =>
            r \in Range(spool) \union Range(quarantine) \union Range(replay.rejected)

=============================================================================
