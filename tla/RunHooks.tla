------------------------------ MODULE RunHooks ------------------------------
(***************************************************************************)
(* One Python process that records runs (python/runledger/_run.py): the    *)
(* life of each Run from _enter to _finish, the shared SIGTERM handler,    *)
(* the atexit backstop and the lock around their bookkeeping.              *)
(*                                                                         *)
(* Code runs in frames.  Each run has the frame of its own with-block, on  *)
(* the main thread or on a worker; the signal handler and the interpreter's*)
(* exit have a frame each on the main thread.  The main thread's frames    *)
(* are a stack: a with-block opened in the block of another run sits on    *)
(* that one's, the handler sits on all of them, and only the top moves;    *)
(* workers go on.  _finish is the same code in every frame.                *)
(***************************************************************************)
EXTENDS Naturals, FiniteSets

CONSTANTS
    MainRuns,       \* runs started on the main thread, nested or one after the other
    WorkerRuns,     \* runs started on threads of their own
    Programs        \* the programs and networks to look at

Runs   == MainRuns \union WorkerRuns
Frames == Runs \union {"handler", "exit"}

\* SIGTERM's disposition before any run, whether requests and answers may be
\* lost, and whether the program starts runs on threads.
Program == [original : {"default", "ignore", "user"}, lossy : BOOLEAN, threads : BOOLEAN]

ASSUME HooksAssumption ==
    /\ MainRuns \intersect WorkerRuns = {}
    /\ {"handler", "exit"} \intersect Runs = {}
    /\ "free" \notin Frames
    /\ Programs \subseteq Program

VARIABLES
    program,        \* the one of Programs that runs
    proc,           \* alive, exiting (atexit callbacks), exited, killed
    outer,          \* main-thread run -> the run in whose block it was started, or "none"
    frame,          \* frame -> its program counter and locals
    lock,           \* _hooks_lock: the frame that holds it, or "free"
    active,         \* _active_runs
    saved,          \* _previous_handlers[SIGTERM], or "absent"
    disp,           \* the installed disposition of SIGTERM
    atexits,        \* runs whose _on_atexit is registered
    run,            \* run -> _finished, status and whether run_id is known
    row,            \* run -> the row its start-time POST made in the ledger
    posted,         \* run -> statuses of the rows its finishing POSTs made
    spooled,        \* run -> statuses of the records it spooled
    sigterm,        \* not sent, clean, locked (main held the lock when it came)
    caught,         \* history: the unfinished runs that were in their with-block
                    \* when the handler, or the exit callbacks, took over
    leaver          \* history: the frame that last left no run active, or "none"

vars == <<program, proc, outer, frame, lock, active, saved, disp, atexits, run, row, posted,
          spooled, sigterm, caught, leaver>>

hooks  == <<lock, active, saved, disp, atexits>>
ledger == <<row, posted, spooled>>

OnMain(f) == f \notin WorkerRuns

\* The with-blocks opened in this one's and not yet left.
Inner(r) == {m \in MainRuns : outer[m] = r /\ frame[m].pc \notin {"idle", "end"}}

\* The process lives and no other frame sits on top of this one.
Runnable(f) ==
    /\ proc \in {"alive", "exiting"}
    /\ OnMain(f) /\ f # "handler" => frame["handler"].pc = "off"
    /\ f \in MainRuns => Inner(f) = {}

Goto(f, pc) == frame' = [frame EXCEPT ![f].pc = pc]

\* Where _finish returns to.
Return(f) == IF f \in Runs THEN "end" ELSE "loop"

\* The run this frame works on.
Of(f) == frame[f].run

Outcomes(r) == ({row[r]} \ {"none", "running"}) \union posted[r] \union spooled[r]

-----------------------------------------------------------------------------
(* Run.start: _enter, the with-block, and the way out of it.               *)

\* On the main thread, while no run is in progress or in the block of the one on
\* top of the stack.  A run that git context refuses never gets here.
Start(r) ==
    /\ Runnable(r)
    /\ proc = "alive"
    /\ frame[r].pc = "idle"
    /\ \/ /\ r \in WorkerRuns
          /\ program.threads
          /\ UNCHANGED outer
       \/ /\ r \in MainRuns
          /\ \A m \in MainRuns : frame[m].pc \in {"idle", "end"}
          /\ UNCHANGED outer
       \/ /\ r \in MainRuns
          /\ \E o \in MainRuns :
                /\ frame[o].pc = "body"
                /\ Inner(o) = {}
                /\ outer' = [outer EXCEPT ![r] = o]
    /\ Goto(r, "register_lock")
    /\ UNCHANGED <<program, leaver, proc, hooks, run, ledger, sigterm, caught>>

\* with _hooks_lock, in _register_hooks and _unregister_hooks; the latter has
\* cancelled the atexit callback just before.
Acquire(f) ==
    /\ Runnable(f)
    /\ lock = "free"
    /\ lock' = f
    /\ \/ /\ frame[f].pc = "register_lock"
          /\ Goto(f, "register")
          /\ UNCHANGED atexits
       \/ /\ frame[f].pc = "unregister_lock"
          /\ Goto(f, "unregister")
          /\ atexits' = atexits \ {Of(f)}
    /\ UNCHANGED <<program, outer, leaver, proc, active, saved, disp, run, ledger,
                   sigterm, caught>>

\* _register_hooks under the lock.
Register(r) ==
    /\ Runnable(r)
    /\ frame[r].pc = "register"
    /\ active' = active \union {r}
    /\ IF OnMain(r) /\ saved = "absent"
       THEN saved' = disp /\ disp' = "ours"
       ELSE UNCHANGED <<saved, disp>>
    /\ Goto(r, "registered")
    /\ UNCHANGED <<program, outer, leaver, proc, lock, atexits, run, ledger, sigterm,
                   caught>>

\* The lock is let go and the atexit backstop goes up.
Registered(r) ==
    /\ Runnable(r)
    /\ frame[r].pc = "registered"
    /\ lock' = "free"
    /\ atexits' = atexits \union {r}
    /\ Goto(r, "start_post")
    /\ UNCHANGED <<program, outer, leaver, proc, active, saved, disp, run, ledger,
                   sigterm, caught>>

\* _record_start: the request may or may not reach the ledger, ...
StartPost(r) ==
    /\ Runnable(r)
    /\ frame[r].pc = "start_post"
    /\ \/ program.lossy /\ UNCHANGED row
       \/ row' = [row EXCEPT ![r] = "running"]
    /\ Goto(r, "start_reply")
    /\ UNCHANGED <<program, outer, leaver, proc, hooks, run, posted, spooled, sigterm,
                   caught>>

\* ... and so may its answer, which is where run_id comes from.
StartReply(r) ==
    /\ Runnable(r)
    /\ frame[r].pc = "start_reply"
    /\ \/ program.lossy /\ UNCHANGED run
       \/ row[r] # "none" /\ run' = [run EXCEPT ![r].hasID = TRUE]
    /\ Goto(r, "body")
    /\ UNCHANGED <<program, outer, leaver, proc, hooks, ledger, sigterm, caught>>

\* The with-block ends, normally or by an exception.
BodyEnds(r) ==
    /\ Runnable(r)
    /\ frame[r].pc = "body"
    /\ \E s \in {"succeeded", "failed"} :
          frame' = [frame EXCEPT ![r].pc = "check", ![r].status = s]
    /\ UNCHANGED <<program, outer, leaver, proc, hooks, run, ledger, sigterm, caught>>

-----------------------------------------------------------------------------
(* Run._finish, in whichever frame.                                        *)

\* Fault: the flag is not looked at.
FinishUnchecked(f) ==
    /\ Runnable(f)
    /\ frame[f].pc = "check"
    /\ Goto(f, "set")
    /\ UNCHANGED <<program, outer, leaver, proc, hooks, run, ledger, sigterm, caught>>

\* if self._finished: return
FinishCheck(f) ==
    /\ Runnable(f)
    /\ frame[f].pc = "check"
    /\ Goto(f, IF run[Of(f)].finished THEN Return(f) ELSE "set")
    /\ UNCHANGED <<program, outer, leaver, proc, hooks, run, ledger, sigterm, caught>>

\* _finished and status are set.
FinishSet(f) ==
    /\ Runnable(f)
    /\ frame[f].pc = "set"
    /\ run' = [run EXCEPT ![Of(f)].finished = TRUE, ![Of(f)].status = frame[f].status]
    /\ Goto(f, "send")
    /\ UNCHANGED <<program, outer, leaver, proc, hooks, ledger, sigterm, caught>>

\* What the ledger does with a request that reaches it, and whether it
\* answers 2xx: a PATCH closes the running row once (ended_at differs in every
\* PATCH, so a second one is a 409), a full POST makes a row of its own.
Delivered(r, s) ==
    IF run[r].hasID
    THEN [ok |-> row[r] = "running",
          row |-> IF row[r] = "running" THEN s ELSE row[r],
          posted |-> posted[r]]
    ELSE [ok |-> TRUE, row |-> row[r], posted |-> posted[r] \union {s}]

\* _update_finish or _record_whole_run.  Request and answer may be lost; a
\* failure of any kind goes on to the spool.
FinishSend(f) ==
    /\ Runnable(f)
    /\ frame[f].pc = "send"
    /\ LET r   == Of(f)
           s   == run[r].status
           out == Delivered(r, s)
       IN  \/ /\ program.lossy
              /\ UNCHANGED <<row, posted>>
              /\ frame' = [frame EXCEPT ![f].pc = "spool", ![f].status = s]
           \/ /\ row' = [row EXCEPT ![r] = out.row]
              /\ posted' = [posted EXCEPT ![r] = out.posted]
              /\ \E pc \in {"spool", "unregister_lock"} :
                    /\ IF out.ok THEN program.lossy \/ pc = "unregister_lock" ELSE pc = "spool"
                    /\ frame' = [frame EXCEPT ![f].pc = pc, ![f].status = s]
    /\ UNCHANGED <<program, outer, leaver, proc, hooks, run, spooled, sigterm, caught>>

\* Fault: a failed send is not spooled.
FinishSpoolNothing(f) ==
    /\ Runnable(f)
    /\ frame[f].pc = "spool"
    /\ Goto(f, "unregister_lock")
    /\ UNCHANGED <<program, outer, leaver, proc, hooks, run, ledger, sigterm, caught>>

\* The complete record, built before the send, goes to the spool file.
FinishSpool(f) ==
    /\ Runnable(f)
    /\ frame[f].pc = "spool"
    /\ spooled' = [spooled EXCEPT ![Of(f)] = @ \union {frame[f].status}]
    /\ Goto(f, "unregister_lock")
    /\ UNCHANGED <<program, outer, leaver, proc, hooks, run, row, posted, sigterm, caught>>

\* Fault: whether a run is left is looked up before this one is taken out.
UnregisterLate(f) ==
    /\ Runnable(f)
    /\ frame[f].pc = "unregister"
    /\ active' = active \ {Of(f)}
    /\ IF active = {} /\ OnMain(f) /\ saved # "absent"
       THEN disp' = saved /\ saved' = "absent"
       ELSE UNCHANGED <<saved, disp>>
    /\ leaver' = IF active' = {} THEN f ELSE leaver
    /\ Goto(f, "unregistered")
    /\ UNCHANGED <<program, outer, proc, lock, atexits, run, ledger, sigterm, caught>>

\* _unregister_hooks under the lock.  Off the main thread signal.signal
\* raises ValueError and the handler stays.
Unregister(f) ==
    /\ Runnable(f)
    /\ frame[f].pc = "unregister"
    /\ active' = active \ {Of(f)}
    /\ IF active' = {} /\ OnMain(f) /\ saved # "absent"
       THEN disp' = saved /\ saved' = "absent"
       ELSE UNCHANGED <<saved, disp>>
    /\ leaver' = IF active' = {} THEN f ELSE leaver
    /\ Goto(f, "unregistered")
    /\ UNCHANGED <<program, outer, proc, lock, atexits, run, ledger, sigterm, caught>>

Unregistered(f) ==
    /\ Runnable(f)
    /\ frame[f].pc = "unregistered"
    /\ lock' = "free"
    /\ Goto(f, Return(f))
    /\ UNCHANGED <<program, outer, leaver, proc, active, saved, disp, atexits, run,
                   ledger, sigterm, caught>>

\* The unfinished runs among these that are in their with-block.
InBlock(rs) == {r \in rs : frame[r].pc = "body" /\ ~run[r].finished}

-----------------------------------------------------------------------------
(* SIGTERM.                                                                *)

MainHoldsLock == lock # "free" /\ OnMain(lock)

\* The signal arrives, once: the disposition decides.
Sigterm ==
    /\ proc \in {"alive", "exiting"}
    /\ sigterm = "none"
    /\ sigterm' = IF MainHoldsLock THEN "locked" ELSE "clean"
    /\ CASE disp = "ours"    -> /\ frame' = [frame EXCEPT !["handler"] =
                                     [pc |-> "loop", run |-> "none", status |-> "failed",
                                      todo |-> active, previous |-> saved]]
                                /\ caught' = [caught EXCEPT !["handler"] = InBlock(active)]
                                /\ UNCHANGED proc
         [] disp = "default" -> proc' = "killed" /\ UNCHANGED <<frame, caught>>
         [] OTHER            -> UNCHANGED <<proc, frame, caught>>
    /\ UNCHANGED <<program, outer, leaver, hooks, run, ledger>>

\* The handler's, and the exit's, loop over the runs to finish.  The lists are
\* taken in any order.
NextToFinish(f) ==
    /\ Runnable(f)
    /\ frame[f].pc = "loop"
    /\ \E r \in frame[f].todo :
          frame' = [frame EXCEPT ![f].pc = "check", ![f].run = r, ![f].status = "failed",
                                 ![f].todo = @ \ {r}]
    /\ UNCHANGED <<program, outer, leaver, proc, hooks, run, ledger, sigterm, caught>>

\* Where SystemExit takes a frame of the main thread: out of the with-block
\* into _finish("failed"), out of a send into its finally, and out of anything
\* else to the end of the frame.
Unwound(pc) ==
    CASE pc = "body"              -> "check"
      [] pc \in {"send", "spool"} -> "unregister_lock"
      [] pc = "idle"              -> "idle"
      [] OTHER                    -> "end"

\* A previous handler is called and returns, or calls sys.exit(), which
\* unwinds the main thread (a with statement lets go of the lock).
ChainToUser ==
    /\ Runnable("handler")
    /\ frame["handler"].pc = "loop"
    /\ frame["handler"].todo = {}
    /\ frame["handler"].previous = "user"
    /\ \/ /\ Goto("handler", "off")
          /\ UNCHANGED lock
       \/ /\ proc = "alive"
          /\ frame' = [f \in Frames |->
                 IF f = "handler" THEN [frame[f] EXCEPT !.pc = "off"]
                 ELSE IF f \in MainRuns
                 THEN [frame[f] EXCEPT !.pc = Unwound(@), !.status = "failed"]
                 ELSE frame[f]]
          /\ lock' = IF MainHoldsLock THEN "free" ELSE lock
    /\ UNCHANGED <<program, outer, leaver, proc, active, saved, disp, atexits, run,
                   ledger, sigterm, caught>>

\* Fault: the handler returns and the signal is swallowed.
ChainToNobody ==
    /\ Runnable("handler")
    /\ frame["handler"].pc = "loop"
    /\ frame["handler"].todo = {}
    /\ frame["handler"].previous # "user"
    /\ Goto("handler", "off")
    /\ UNCHANGED <<program, outer, leaver, proc, hooks, run, ledger, sigterm, caught>>

\* Otherwise the default disposition is restored and the signal sent again.
ChainToDeath ==
    /\ Runnable("handler")
    /\ frame["handler"].pc = "loop"
    /\ frame["handler"].todo = {}
    /\ frame["handler"].previous # "user"
    /\ disp' = "default"
    /\ proc' = "killed"
    /\ UNCHANGED <<program, outer, leaver, frame, lock, active, saved, atexits, run,
                   ledger, sigterm, caught>>

-----------------------------------------------------------------------------
(* Interpreter exit.                                                       *)

\* The main thread is through; workers may be daemons that still run.
ExitBegins ==
    /\ proc = "alive"
    /\ frame["handler"].pc = "off"
    /\ \A m \in MainRuns : frame[m].pc \in {"idle", "end"}
    /\ proc' = "exiting"
    /\ frame' = [frame EXCEPT !["exit"].pc = "loop", !["exit"].todo = atexits]
    /\ caught' = [caught EXCEPT !["exit"] = InBlock(atexits)]
    /\ UNCHANGED <<program, outer, leaver, hooks, run, ledger, sigterm>>

ExitEnds ==
    /\ Runnable("exit")
    /\ frame["exit"].pc = "loop"
    /\ frame["exit"].todo = {}
    /\ proc' = "exited"
    /\ UNCHANGED <<program, outer, leaver, frame, hooks, run, ledger, sigterm, caught>>

-----------------------------------------------------------------------------

Init ==
    /\ program \in Programs
    /\ proc = "alive"
    /\ outer = [r \in MainRuns |-> "none"]
    /\ leaver = "none"
    /\ frame = [f \in Frames |->
         [pc |-> IF f \in Runs THEN "idle" ELSE "off",
          run |-> IF f \in Runs THEN f ELSE "none",
          status |-> "running", todo |-> {}, previous |-> "absent"]]
    /\ lock = "free"
    /\ active = {}
    /\ saved = "absent"
    /\ disp = program.original
    /\ atexits = {}
    /\ run = [r \in Runs |-> [finished |-> FALSE, status |-> "running", hasID |-> FALSE]]
    /\ row = [r \in Runs |-> "none"]
    /\ posted = [r \in Runs |-> {}]
    /\ spooled = [r \in Runs |-> {}]
    /\ sigterm = "none"
    /\ caught = [f \in {"handler", "exit"} |-> {}]

Finish(f) ==
    \/ FinishCheck(f)
    \/ FinishSet(f)
    \/ FinishSend(f)
    \/ FinishSpool(f)
    \/ Unregister(f)
    \/ Unregistered(f)

\* What a frame does without anything from outside.
Step(f) ==
    \/ f \in Runs /\ (Register(f) \/ Registered(f) \/ StartPost(f) \/ StartReply(f))
    \/ Acquire(f)
    \/ Finish(f)
    \/ f \in {"handler", "exit"} /\ NextToFinish(f)
    \/ f = "handler" /\ (ChainToUser \/ ChainToDeath)
    \/ f = "exit" /\ ExitEnds

Next ==
    \/ \E r \in Runs : Start(r) \/ BodyEnds(r)
    \/ \E f \in Frames : Step(f)
    \/ Sigterm
    \/ ExitBegins

(***************************************************************************)
(* Fairness: every thread that can move is scheduled, and every request    *)
(* ends, if only by its timeout.  Whether a run starts, its block ends, a  *)
(* signal comes or the program exits is left open.                         *)
(***************************************************************************)
Spec == Init /\ [][Next]_vars /\ \A f \in Frames : WF_vars(Step(f))

-----------------------------------------------------------------------------
(* Properties.                                                             *)

PCs == {"idle", "register_lock", "register", "registered", "start_post", "start_reply",
        "body", "check", "set", "send", "spool", "unregister_lock", "unregister",
        "unregistered", "end", "off", "loop"}

Dispositions == {"default", "ignore", "user", "ours", "absent"}

\* Frames, bookkeeping and ledger have their types, and the lock is held by
\* exactly the frame that is between taking it and letting it go.
TypeOK ==
    /\ proc \in {"alive", "exiting", "exited", "killed"}
    /\ frame \in [Frames -> [pc : PCs, run : Runs \union {"none"},
                             status : {"running", "succeeded", "failed"},
                             todo : SUBSET Runs, previous : Dispositions]]
    /\ lock \in Frames \union {"free"}
    /\ \A f \in Frames :
          lock = f <=> frame[f].pc \in {"register", "registered", "unregister", "unregistered"}
    /\ active \subseteq Runs
    /\ saved \in Dispositions /\ disp \in Dispositions \ {"absent"}
    /\ atexits \subseteq Runs
    /\ run \in [Runs -> [finished : BOOLEAN, status : {"running", "succeeded", "failed"},
                         hasID : BOOLEAN]]
    /\ row \in [Runs -> {"none", "running", "succeeded", "failed"}]
    /\ posted \in [Runs -> SUBSET {"succeeded", "failed"}]
    /\ spooled \in [Runs -> SUBSET {"succeeded", "failed"}]
    /\ sigterm \in {"none", "clean", "locked"}
    /\ caught \in [{"handler", "exit"} -> SUBSET Runs]
    /\ outer \in [MainRuns -> MainRuns \union {"none"}]
    /\ leaver \in Frames \union {"none"}

(***************************************************************************)
(* Whatever runs start and finish, nested or not, on whatever threads, the *)
(* disposition the program had before is installed, or is saved behind the *)
(* shared handler: the handler never saves itself, and no restore loses it.*)
(* When no run is active any more it is installed again (_previous_handlers*)
(* "cleared again once the last active run finishes", _run.py:187), unless *)
(* a worker was the last to leave, which cannot restore it.                *)
(***************************************************************************)
ChainIntact ==
    lock = "free" /\ proc # "killed" =>
        /\ \/ disp = "ours" /\ saved = program.original
           \/ disp = program.original /\ saved = "absent"
        /\ active = {} /\ leaver \notin WorkerRuns => disp = program.original

\* The run still has to be recorded by the one who caught it: a worker's run only as
\* long as its own block has not ended in the meantime.
Owed(r) == r \in MainRuns \/ frame[r].pc = "body"

(***************************************************************************)
(* A run that was in its with-block when the handler took a SIGTERM has an *)
(* outcome in the ledger or in the spool by the time the process is gone,  *)
(* whatever became of the requests; one that was in it when the exit       *)
(* callbacks began, by the time they are through (a SIGTERM may kill the   *)
(* process before).                                                        *)
(***************************************************************************)
CaughtRecorded ==
    /\ proc \in {"killed", "exited"} =>
          \A r \in caught["handler"] : Owed(r) => Outcomes(r) # {}
    /\ proc = "exited" => \A r \in caught["exit"] : Owed(r) => Outcomes(r) # {}

(***************************************************************************)
(* "Whichever got here first wins" (_finish): a main-thread run recorded   *)
(* as failed by the handler is not recorded as anything else by a          *)
(* with-block that resumes afterwards, or by atexit.                       *)
(***************************************************************************)
KillWins == \A r \in caught["handler"] \intersect MainRuns : Outcomes(r) \subseteq {"failed"}

\* In a program without a SIGTERM handler of its own no main-thread run, nested or not,
\* is on record with two different outcomes, although its with-block, the shared handler
\* and the exit callback may each finish it, and a send that failed may have taken
\* effect.  Nothing of the kind holds of a run on a worker: see FinishedOnce.
OutcomesAgree ==
    program.original # "user" => \A r \in MainRuns : Cardinality(Outcomes(r)) <= 1

TakesEffect ==
    IF program.original = "user" THEN frame["handler"].pc = "off" ELSE proc = "killed"

(***************************************************************************)
(* A SIGTERM is neither swallowed nor stuck: the process dies of it, or    *)
(* the program's own handler gets it, unless it came while the main thread *)
(* held _hooks_lock.                                                       *)
(***************************************************************************)
SigtermTakesEffect == sigterm = "clean" ~> TakesEffect

\* _run.py:74-76: "A process a scheduler sent SIGTERM to must still die from
\* SIGTERM -- not linger".
AlwaysDies == sigterm # "none" ~> proc = "killed"

\* ADR 0014: a run killed by SIGTERM while the handler is up "is now recorded
\* failed"; here, any registered run has an outcome when the process is killed.
KilledRunsRecorded ==
    proc = "killed" => \A r \in MainRuns \intersect active : Outcomes(r) # {}

\* _run.py:48-52: a run whose record was spooled leaves "an orphaned running row
\* behind that never reaches a terminal status", at most.
OrphanStaysRunning ==
    \A r \in Runs : spooled[r] # {} => row[r] \in {"none", "running"}

\* _run.py:296 "Guards _finish() so it runs at most once, however it's triggered": the check
\* of _finished and its assignment are two steps under no lock.  A worker's with-block and
\* the handler, or the exit callback, may both get past the check; so may a main-thread
\* block and a user's handler that returns to it.  Each makes it two outcomes.
FinishedOnce == \A r \in Runs : Cardinality(Outcomes(r)) <= 1

\* _run.py: the process dies "the same way it would have if runledger had never
\* installed anything here"; with SIG_IGN it would not have died.
IgnoredStaysIgnored == program.original = "ignore" => proc # "killed"

=============================================================================
