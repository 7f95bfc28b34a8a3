---------------------------- MODULE HooksProofs ----------------------------
(***************************************************************************)
(* Proofs about RunHooks, for any runs on the main thread and on workers   *)
(* and any programs.                                                       *)
(*                                                                         *)
(* The argument: while the handler's frame is on, no other frame of the    *)
(* main thread moves, and a worker's frame finishes no run but its own.  So*)
(* a run the handler catches in its block is finished by the handler alone,*)
(* and _finished is set by the time the block resumes.                     *)
(***************************************************************************)
EXTENDS RunHooks, FiniteSetTheorems, TLAPS

-----------------------------------------------------------------------------
(* The inductive invariant.                                                *)

\* Run.start, up to the end of the with-block.
StartPCs == {"idle", "register_lock", "register", "registered", "start_post", "start_reply",
             "body"}

\* Run._finish.
FinishPCs == {"check", "set", "send", "spool", "unregister_lock", "unregister",
              "unregistered"}

\* Frames are where their code can be, on the run they are about.
FramesOK ==
    /\ program \in Program
    /\ \A r \in Runs : /\ frame[r].run = r
                       /\ frame[r].pc \in StartPCs \union FinishPCs \union {"end"}
    /\ \A f \in {"handler", "exit"} :
          /\ frame[f].pc \in FinishPCs \union {"off", "loop"}
          /\ frame[f].pc \in FinishPCs => frame[f].run \in Runs
          /\ frame[f].pc \in {"check", "set"} => frame[f].status = "failed"
          /\ \A r \in caught[f] : frame[r].pc \in FinishPCs \union {"body", "end"}
    /\ \A f \in Frames :
          /\ frame[f].pc \in {"check", "set", "spool"} => frame[f].status # "running"
          /\ frame[f].pc \in {"send", "spool"} => run[Of(f)].finished

\* Nothing is on record of a run before _finished is set, with a status.
Unsent ==
    \A r \in Runs : /\ run[r].finished => run[r].status # "running"
                    /\ ~run[r].finished => Outcomes(r) = {}

\* The exit callbacks run after the main thread's runs; the signal comes once.
Phases ==
    /\ proc = "alive" => frame["exit"].pc = "off"
    /\ proc \in {"exiting", "exited"} => \A m \in MainRuns : frame[m].pc \in {"idle", "end"}
    /\ sigterm = "none" => frame["handler"].pc = "off" /\ caught["handler"] = {}
    /\ proc = "killed" /\ caught["handler"] # {} =>
          frame["handler"].pc = "loop" /\ frame["handler"].todo = {}
    /\ proc = "exited" => /\ frame["handler"].pc = "off"
                          /\ frame["exit"].pc = "loop" /\ frame["exit"].todo = {}
    /\ caught["exit"] \intersect MainRuns = {}

\* The disposition is installed or saved, also while the lock is held, and the
\* handler chains to it.
Chain ==
    /\ proc # "killed" => \/ disp = "ours" /\ saved = program.original
                          \/ disp = program.original /\ saved = "absent"
    /\ proc # "killed" /\ active = {} /\ leaver \notin WorkerRuns => disp = program.original
    /\ frame["handler"].pc # "off" => frame["handler"].previous = program.original

\* Frame f is sending run r, or about to spool it.
Sending(f, r) == frame[f].pc \in {"send", "spool"} /\ Of(f) = r

\* Frame f will get to run r, or has not yet set its _finished.
Awaits(f, r) ==
    \/ r \in frame[f].todo
    \/ frame[f].pc \in {"check", "set"} /\ Of(f) = r

\* What the handler and the exit callbacks caught is recorded, or will be.
Duty ==
    /\ \A r \in caught["handler"] : Owed(r) =>
          \/ Outcomes(r) # {}
          \/ Sending("handler", r)
          \/ frame["handler"].pc # "off" /\ Awaits("handler", r) /\ ~run[r].finished
    /\ \A r \in caught["exit"] : Owed(r) =>
          \/ Outcomes(r) # {}
          \/ Sending("handler", r) \/ Sending("exit", r)
          \/ Awaits("exit", r) /\ ~run[r].finished

\* A main-thread run caught by the handler has one status only, and its frame
\* does not get past the check.
Killed ==
    \A r \in caught["handler"] \intersect MainRuns :
        /\ frame[r].pc \in {"body", "check", "end"}
        /\ run[r].finished => run[r].status = "failed"
        /\ Outcomes(r) \subseteq {"failed"}
        /\ \A f \in {"handler", "exit"} :
              frame[f].pc = "spool" /\ Of(f) = r => frame[f].status = "failed"

\* Without a handler that returns, _finished is set by one frame at most.
OneStatus ==
    program.original # "user" =>
        \A m \in MainRuns :
            /\ Outcomes(m) \subseteq {run[m].status}
            /\ \A f \in Frames : Of(f) = m =>
                  /\ frame[f].pc = "spool" => frame[f].status = run[m].status
                  /\ frame[f].pc = "set" /\ (f = "handler" \/ frame["handler"].pc = "off") =>
                        ~run[m].finished

IInv ==
    /\ TypeOK
    /\ FramesOK
    /\ Unsent
    /\ Phases
    /\ Chain
    /\ Duty
    /\ Killed
    /\ OneStatus

-----------------------------------------------------------------------------
(* Frames.                                                                 *)

\* Which frames there are, and which of them are on the main thread.
LEMMA Names ==
    /\ Runs \subseteq Frames /\ MainRuns \subseteq Runs
    /\ "handler" \in Frames /\ "exit" \in Frames
    /\ "handler" \notin Runs /\ "exit" \notin Runs /\ "free" \notin Frames
    /\ \A f \in Frames : f \in Runs \/ f = "handler" \/ f = "exit"
    /\ \A f \in Frames \ MainRuns : f \in WorkerRuns \/ f = "handler" \/ f = "exit"
    /\ \A m \in MainRuns : OnMain(m)
    /\ OnMain("handler") /\ OnMain("exit")
  BY HooksAssumption DEF Runs, Frames, OnMain

\* What a frame's record becomes when the exit callbacks begin, and when
\* SystemExit unwinds it.
LEMMA FrameUpdated ==
    ASSUME NEW fr \in [pc : PCs, run : Runs \union {"none"},
                       status : {"running", "succeeded", "failed"},
                       todo : SUBSET Runs, previous : Dispositions],
           NEW pc \in PCs, NEW todo \in SUBSET Runs
    PROVE  /\ LET v == [fr EXCEPT !.pc = pc, !.todo = todo]
              IN  /\ v \in [pc : PCs, run : Runs \union {"none"},
                            status : {"running", "succeeded", "failed"},
                            todo : SUBSET Runs, previous : Dispositions]
                  /\ v.pc = pc /\ v.todo = todo
           /\ LET v == [fr EXCEPT !.pc = pc, !.status = "failed"]
              IN  /\ v \in [pc : PCs, run : Runs \union {"none"},
                            status : {"running", "succeeded", "failed"},
                            todo : SUBSET Runs, previous : Dispositions]
                  /\ v.pc = pc /\ v.status = "failed" /\ v.run = fr.run
  OBVIOUS

\* A frame that can run, on the main thread, runs under no handler.
LEMMA OnTop ==
    ASSUME NEW f, Runnable(f)
    PROVE  /\ proc \in {"alive", "exiting"}
           /\ f \in MainRuns \/ f = "exit" => frame["handler"].pc = "off"
  BY Names DEF Runnable

\* One frame moves; its locals stay.
LEMMA Moved ==
    ASSUME TypeOK, NEW f \in Frames, NEW pc \in PCs, Goto(f, pc)
    PROVE  /\ frame' \in [Frames -> [pc : PCs, run : Runs \union {"none"},
                                     status : {"running", "succeeded", "failed"},
                                     todo : SUBSET Runs, previous : Dispositions]]
           /\ frame'[f].pc = pc
           /\ \A g \in Frames \ {f} : frame'[g].pc = frame[g].pc
           /\ \A g \in Frames : /\ frame'[g].run = frame[g].run
                                /\ frame'[g].status = frame[g].status
                                /\ frame'[g].todo = frame[g].todo
                                /\ frame'[g].previous = frame[g].previous
  BY DEF TypeOK, Goto

\* One frame moves and its status changes.
LEMMA MovedTo ==
    ASSUME TypeOK, NEW f \in Frames, NEW pc \in PCs, NEW s \in {"running", "succeeded", "failed"},
           frame' = [frame EXCEPT ![f].pc = pc, ![f].status = s]
    PROVE  /\ frame' \in [Frames -> [pc : PCs, run : Runs \union {"none"},
                                     status : {"running", "succeeded", "failed"},
                                     todo : SUBSET Runs, previous : Dispositions]]
           /\ frame'[f].pc = pc /\ frame'[f].status = s
           /\ \A g \in Frames \ {f} : /\ frame'[g].pc = frame[g].pc
                                      /\ frame'[g].status = frame[g].status
           /\ \A g \in Frames : /\ frame'[g].run = frame[g].run
                                /\ frame'[g].todo = frame[g].todo
                                /\ frame'[g].previous = frame[g].previous
<1>1. frame \in [Frames -> [pc : PCs, run : Runs \union {"none"},
                            status : {"running", "succeeded", "failed"},
                            todo : SUBSET Runs, previous : Dispositions]]
  BY DEF TypeOK
<1>2. frame' = [frame EXCEPT ![f] = [frame[f] EXCEPT !.pc = pc, !.status = s]]
  BY <1>1
<1>3. /\ frame'[f] = [frame[f] EXCEPT !.pc = pc, !.status = s]
      /\ \A g \in Frames \ {f} : frame'[g] = frame[g]
      /\ DOMAIN frame' = Frames /\ frame' = [g \in Frames |-> frame'[g]]
  BY <1>1, <1>2
<1>4. /\ frame'[f] \in [pc : PCs, run : Runs \union {"none"},
                        status : {"running", "succeeded", "failed"},
                        todo : SUBSET Runs, previous : Dispositions]
      /\ frame'[f].pc = pc /\ frame'[f].status = s
      /\ frame'[f].run = frame[f].run /\ frame'[f].todo = frame[f].todo
      /\ frame'[f].previous = frame[f].previous
  BY <1>1, <1>3
<1> QED
  BY <1>1, <1>3, <1>4

RunRecord == [finished : BOOLEAN, status : {"running", "succeeded", "failed"}, hasID : BOOLEAN]

\* The attributes of one run change.
LEMMA RunChanged ==
    ASSUME TypeOK, NEW r \in Runs, NEW v \in RunRecord, run' = [run EXCEPT ![r] = v]
    PROVE  /\ run' \in [Runs -> RunRecord] /\ run'[r] = v
           /\ \A q \in Runs \ {r} : run'[q] = run[q]
  BY DEF TypeOK, RunRecord

\* Where a frame finishes a run it is a run's own frame, or the handler's or the
\* exit's with that run in hand.
LEMMA InHand ==
    ASSUME IInv, NEW f \in Frames, frame[f].pc \in FinishPCs
    PROVE  /\ Of(f) \in Runs
           /\ f \in Runs => Of(f) = f
  BY Names DEF IInv, FramesOK, Of

\* What is not about the lock and the dispositions.
Rest == FramesOK /\ Unsent /\ Phases /\ Duty /\ Killed /\ OneStatus

\* A main-thread run that the handler caught is finished when it moves again.
LEMMA FinishedByHandler ==
    ASSUME IInv, NEW r \in caught["handler"] \intersect MainRuns, frame["handler"].pc = "off"
    PROVE  run[r].finished /\ Outcomes(r) # {}
<1>1. r \in Runs /\ Owed(r)
  BY Names DEF Owed
<1>2. Outcomes(r) # {}
  BY <1>1 DEF IInv, Duty, Sending
<1> QED
  BY <1>1, <1>2 DEF IInv, Unsent

\* A frame goes on: to the next line, past the check when the run is finished,
\* or to the assignment when it is not.
LEMMA MoveStep ==
    ASSUME IInv, NEW f \in Frames, Runnable(f), NEW pc, Goto(f, pc),
           UNCHANGED <<program, proc, run, row, posted, spooled, sigterm, caught>>,
           \/ frame[f].pc \in {"idle", "register_lock", "register", "registered"} /\ f \in Runs
           \/ frame[f].pc \in {"check", "unregister_lock", "unregister", "unregistered"},
           frame[f].pc = "idle" => proc = "alive",
           \/ /\ pc \in {"register_lock", "register", "registered", "start_post"}
              /\ frame[f].pc \in {"idle", "register_lock", "register", "registered"}
           \/ pc \in {"unregister", "unregistered"}
              /\ frame[f].pc \in {"unregister_lock", "unregister"}
           \/ pc = Return(f) /\ frame[f].pc = "unregistered"
           \/ pc = Return(f) /\ frame[f].pc = "check" /\ run[Of(f)].finished
           \/ pc = "set" /\ frame[f].pc = "check" /\ ~run[Of(f)].finished
    PROVE  Rest'
<1>1. /\ frame'[f].pc = pc
      /\ \A g \in Frames \ {f} : frame'[g].pc = frame[g].pc
      /\ \A g \in Frames : /\ frame'[g].run = frame[g].run
                           /\ frame'[g].status = frame[g].status
                           /\ frame'[g].todo = frame[g].todo
                           /\ frame'[g].previous = frame[g].previous
  <2>1. pc \in PCs
    BY DEF PCs, Return
  <2> QED
    BY <2>1, Moved DEF IInv
<1>2. /\ \A g \in Frames : Of(g)' = Of(g)
      /\ \A r : Outcomes(r)' = Outcomes(r)
  BY <1>1 DEF Of, Outcomes
<1>3. pc \in {"register_lock", "register", "registered", "start_post", "set", "unregister",
              "unregistered", "end", "loop"}
      /\ (pc = "end" => f \in Runs) /\ (pc = "loop" => f \notin Runs)
      /\ (pc \in {"register_lock", "register", "registered", "start_post"} =>
             f \in Runs /\ frame[f].pc \in {"idle", "register_lock", "register", "registered"})
      /\ (pc = "set" => frame[f].pc = "check" /\ ~run[Of(f)].finished)
  BY Names DEF Return
<1>4. proc \in {"alive", "exiting"}
      /\ (f \in MainRuns \/ f = "exit" => frame["handler"].pc = "off")
  BY OnTop
<1>5. frame[f].pc \notin {"send", "spool", "body", "off", "loop"}
  OBVIOUS
<1>6. FramesOK'
  <2>1. caught["handler"] \subseteq Runs /\ caught["exit"] \subseteq Runs
    BY DEF IInv, TypeOK
  <2>2. ASSUME NEW g \in {"handler", "exit"}, NEW r \in caught[g]
        PROVE  frame'[r].pc \in FinishPCs \union {"body", "end"}
    <3>1. r \in Runs /\ frame[r].pc \in FinishPCs \union {"body", "end"}
      BY <2>1 DEF IInv, FramesOK
    <3> QED
      BY <1>1, <1>3, <3>1, Names DEF FinishPCs
  <2> QED
    BY <1>1, <1>2, <1>3, <2>2, Names DEF IInv, FramesOK, StartPCs, FinishPCs
<1>7. Unsent'
  BY <1>2 DEF IInv, Unsent
<1>8. Phases'
  BY <1>1, <1>3, <1>4, <1>5, Names DEF IInv, Phases
<1>9. Killed'
  <2> SUFFICES ASSUME NEW r \in caught["handler"] \intersect MainRuns
               PROVE  /\ frame'[r].pc \in {"body", "check", "end"}
                      /\ \A g \in {"handler", "exit"} :
                            frame'[g].pc = "spool" /\ Of(g) = r => frame'[g].status = "failed"
    BY <1>2, Names DEF IInv, Killed
  <2>1. frame'[r].pc \in {"body", "check", "end"}
    <3>1. CASE f = r
      <4>1. frame[r].pc = "check" /\ run[r].finished /\ Of(r) = r
        BY <1>4, <3>1, FinishedByHandler, Names DEF IInv, Killed, FramesOK, Of
      <4> QED
        BY <1>1, <3>1, <4>1, Names DEF Return
    <3>2. CASE f # r
      BY <1>1, <3>2, Names DEF IInv, Killed
    <3> QED
      BY <3>1, <3>2
  <2> QED
    BY <1>1, <1>3, <2>1, Names DEF IInv, Killed
<1>10. OneStatus'
  BY <1>1, <1>2, <1>3, <1>5, Names DEF IInv, OneStatus
<1>11. Duty'
  <2>1. \A r \in Runs : Owed(r)' <=> Owed(r)
    BY <1>1, <1>3, <1>5, Names DEF Owed
  <2>2. \A g \in Frames, r \in Runs : Sending(g, r)' <=> Sending(g, r)
    BY <1>1, <1>2, <1>3, <1>5 DEF Sending
  <2>3. \A g \in Frames, r \in Runs : Awaits(g, r) /\ ~run[r].finished => Awaits(g, r)'
    BY <1>1, <1>2, <1>3 DEF Awaits
  <2>4. frame["handler"].pc # "off" => frame'["handler"].pc # "off"
    BY <1>1, <1>3, Names
  <2>5. caught["handler"] \subseteq Runs /\ caught["exit"] \subseteq Runs
    BY DEF IInv, TypeOK
  <2> QED
    BY <1>2, <2>1, <2>2, <2>3, <2>4, <2>5, Names DEF IInv, Duty
<1> QED
  BY <1>6, <1>7, <1>8, <1>9, <1>10, <1>11 DEF Rest

-----------------------------------------------------------------------------
(* The lock, the bookkeeping and the dispositions.                         *)

\* Between taking the lock and letting it go.
LockedPCs == {"register", "registered", "unregister", "unregistered"}

\* The types after one frame has moved, with or without the lock.
LEMMA LockStep ==
    ASSUME IInv, NEW f \in Frames, NEW pc \in PCs, Goto(f, pc),
           UNCHANGED <<proc, run, row, posted, spooled, sigterm, caught>>,
           active' \subseteq Runs, atexits' \subseteq Runs,
           saved' \in Dispositions, disp' \in Dispositions \ {"absent"},
           outer' \in [MainRuns -> MainRuns \union {"none"}], leaver' \in Frames \union {"none"},
           \/ lock' = lock /\ (frame[f].pc \in LockedPCs <=> pc \in LockedPCs)
           \/ lock = "free" /\ lock' = f /\ pc \in LockedPCs
           \/ frame[f].pc \in LockedPCs /\ lock' = "free" /\ pc \notin LockedPCs
    PROVE  TypeOK'
<1>1. /\ frame' \in [Frames -> [pc : PCs, run : Runs \union {"none"},
                                status : {"running", "succeeded", "failed"},
                                todo : SUBSET Runs, previous : Dispositions]]
      /\ frame'[f].pc = pc
      /\ \A g \in Frames \ {f} : frame'[g].pc = frame[g].pc
  BY Moved DEF IInv
<1>2. \A g \in Frames : lock = g <=> frame[g].pc \in LockedPCs
  BY DEF IInv, TypeOK, LockedPCs
<1>3. \A g \in Frames : lock' = g <=> frame'[g].pc \in LockedPCs
  BY <1>1, <1>2, Names
<1>4. lock' \in Frames \union {"free"}
  BY DEF IInv, TypeOK
<1> QED
  BY <1>1, <1>3, <1>4 DEF IInv, TypeOK, LockedPCs

\* The chain after a step that leaves the dispositions alone.
LEMMA SameChain ==
    ASSUME IInv, NEW f \in Frames, NEW pc \in PCs, Goto(f, pc),
           UNCHANGED <<program, proc, active, saved, disp, leaver>>,
           frame[f].pc # "off"
    PROVE  Chain'
<1>1. \A g \in Frames : /\ frame'[g].pc # "off" => frame[g].pc # "off"
                        /\ frame'[g].previous = frame[g].previous
  BY Moved DEF IInv
<1> QED
  BY <1>1, Names DEF IInv, Chain

LEMMA StartStep ==
    ASSUME IInv, NEW r \in Runs, Start(r)
    PROVE  IInv'
<1>1. /\ r \in Frames /\ "register_lock" \in PCs /\ frame[r].pc = "idle" /\ proc = "alive"
      /\ Runnable(r) /\ Goto(r, "register_lock")
      /\ outer' = outer \/ \E o \in MainRuns : outer' = [outer EXCEPT ![r] = o]
      /\ UNCHANGED <<program, leaver, proc, lock, active, saved, disp, atexits, run, row, posted,
                     spooled, sigterm, caught>>
  BY Names DEF Start, PCs, hooks, ledger
<1>2. Rest'
  BY <1>1, MoveStep
<1>3. outer' \in [MainRuns -> MainRuns \union {"none"}]
  BY <1>1 DEF IInv, TypeOK
<1>4. TypeOK'
  BY <1>1, <1>3, LockStep DEF IInv, TypeOK, LockedPCs
<1>5. Chain'
  BY <1>1, SameChain
<1> QED
  BY <1>2, <1>4, <1>5 DEF IInv, Rest

LEMMA AcquireStep ==
    ASSUME IInv, NEW f \in Frames, Acquire(f)
    PROVE  IInv'
<1>1. PICK pc \in {"register", "unregister"} :
         /\ Goto(f, pc)
         /\ pc = "register" => frame[f].pc = "register_lock"
         /\ pc = "unregister" => frame[f].pc = "unregister_lock"
  BY DEF Acquire
<1>2. /\ Runnable(f) /\ lock = "free" /\ lock' = f /\ atexits' \subseteq atexits
      /\ UNCHANGED <<program, outer, leaver, proc, active, saved, disp, run, row, posted,
                     spooled, sigterm,
                     caught>>
  BY DEF Acquire, ledger
<1>3. pc \in PCs /\ pc \in LockedPCs
  BY DEF PCs, LockedPCs
<1>4. f \in Runs \/ pc = "unregister"
  BY <1>1, Names DEF IInv, FramesOK, FinishPCs
<1>5. Rest'
  BY <1>1, <1>2, <1>4, MoveStep
<1>6. TypeOK'
  BY <1>1, <1>2, <1>3, LockStep DEF IInv, TypeOK
<1>7. Chain'
  BY <1>1, <1>2, <1>3, SameChain
<1> QED
  BY <1>5, <1>6, <1>7 DEF IInv, Rest

\* The first run on the main thread puts the program's disposition behind the
\* shared handler.
LEMMA RegisterStep ==
    ASSUME IInv, NEW r \in Runs, Register(r)
    PROVE  IInv'
<1>1. /\ r \in Frames /\ "registered" \in PCs /\ frame[r].pc = "register"
      /\ Runnable(r) /\ Goto(r, "registered")
      /\ active' = active \union {r}
      /\ \/ saved = "absent" /\ saved' = disp /\ disp' = "ours"
         \/ UNCHANGED <<saved, disp>>
      /\ UNCHANGED <<program, outer, leaver, proc, lock, atexits, run, row, posted, spooled,
                     sigterm, caught>>
  BY Names DEF Register, PCs, ledger
<1>2. proc \in {"alive", "exiting"} /\ program \in Program
  BY <1>1, OnTop DEF IInv, FramesOK
<1>3. program.original \in {"default", "ignore", "user"}
  BY <1>2 DEF Program
<1>4. saved' \in Dispositions /\ disp' \in Dispositions \ {"absent"}
  BY <1>1 DEF IInv, TypeOK, Dispositions
<1>5. Rest'
  BY <1>1, MoveStep
<1>6. TypeOK'
  BY <1>1, <1>4, LockStep DEF IInv, TypeOK, LockedPCs
<1>7. Chain'
  <2>1. \A g \in Frames : /\ frame'[g].pc # "off" => frame[g].pc # "off"
                          /\ frame'[g].previous = frame[g].previous
    BY <1>1, Moved DEF IInv
  <2> QED
    BY <1>1, <1>2, <1>3, <2>1, Names DEF IInv, Chain
<1> QED
  BY <1>5, <1>6, <1>7 DEF IInv, Rest

LEMMA RegisteredStep ==
    ASSUME IInv, NEW r \in Runs, Registered(r)
    PROVE  IInv'
<1>1. /\ r \in Frames /\ "start_post" \in PCs /\ frame[r].pc = "registered"
      /\ Runnable(r) /\ Goto(r, "start_post") /\ lock' = "free" /\ atexits' = atexits \union {r}
      /\ UNCHANGED <<program, outer, leaver, proc, active, saved, disp, run, row, posted,
                     spooled, sigterm,
                     caught>>
  BY Names DEF Registered, PCs, ledger
<1>2. Rest'
  BY <1>1, MoveStep
<1>3. TypeOK'
  BY <1>1, LockStep DEF IInv, TypeOK, LockedPCs
<1>4. Chain'
  BY <1>1, SameChain
<1> QED
  BY <1>2, <1>3, <1>4 DEF IInv, Rest

LEMMA FinishCheckStep ==
    ASSUME IInv, NEW f \in Frames, FinishCheck(f)
    PROVE  IInv'
<1> DEFINE pc == IF run[Of(f)].finished THEN Return(f) ELSE "set"
<1>1. /\ frame[f].pc = "check" /\ Runnable(f) /\ Goto(f, pc)
      /\ UNCHANGED <<program, outer, leaver, proc, lock, active, saved, disp, atexits, run,
                     row, posted,
                     spooled, sigterm, caught>>
  BY DEF FinishCheck, hooks, ledger
<1>2. pc \in PCs /\ pc \notin LockedPCs /\ pc \in {"set", "end", "loop"}
  BY DEF PCs, LockedPCs, Return
<1>3. \/ pc = "set" /\ ~run[Of(f)].finished
      \/ pc = Return(f) /\ run[Of(f)].finished
  OBVIOUS
<1> HIDE DEF pc
<1>4. Rest'
  BY <1>1, <1>2, <1>3, MoveStep
<1>5. TypeOK'
  BY <1>1, <1>2, LockStep DEF IInv, TypeOK, LockedPCs
<1>6. Chain'
  BY <1>1, <1>2, SameChain
<1> QED
  BY <1>4, <1>5, <1>6 DEF IInv, Rest

\* The last run puts the disposition back, on the main thread; elsewhere
\* nothing changes.
LEMMA UnregisterStep ==
    ASSUME IInv, NEW f \in Frames, Unregister(f)
    PROVE  IInv'
<1>1. /\ "unregistered" \in PCs /\ frame[f].pc = "unregister"
      /\ Runnable(f) /\ Goto(f, "unregistered")
      /\ active' \subseteq active
      /\ \/ saved # "absent" /\ saved' = "absent" /\ disp' = saved
         \/ UNCHANGED <<saved, disp>> /\ (active' = {} /\ OnMain(f) => saved = "absent")
      /\ leaver' = IF active' = {} THEN f ELSE leaver
      /\ UNCHANGED <<program, outer, proc, lock, atexits, run, row, posted, spooled, sigterm, caught>>
  BY DEF Unregister, PCs, ledger
<1>2. proc \in {"alive", "exiting"} /\ program \in Program
  BY <1>1, OnTop DEF IInv, FramesOK
<1>3. saved' \in Dispositions /\ disp' \in Dispositions \ {"absent"}
  BY <1>1 DEF IInv, TypeOK, Dispositions
<1>4. Rest'
  BY <1>1, MoveStep
<1>5. TypeOK'
  BY <1>1, <1>3, LockStep DEF IInv, TypeOK, LockedPCs
<1>6. Chain'
  <2>1. \A g \in Frames : /\ frame'[g].pc # "off" => frame[g].pc # "off"
                          /\ frame'[g].previous = frame[g].previous
    BY <1>1, Moved DEF IInv
  <2>2. proc' # "killed" => \/ disp' = "ours" /\ saved' = program'.original
                            \/ disp' = program'.original /\ saved' = "absent"
    BY <1>1, <1>2 DEF IInv, Chain
  <2>3. ASSUME active' = {}, leaver' \notin WorkerRuns
        PROVE  disp' = program'.original
    <3>1. OnMain(f)
      BY <1>1, <2>3 DEF OnMain
    <3>2. program.original # "absent"
      BY <1>2 DEF Program
    <3> QED
      BY <1>1, <1>2, <2>3, <3>1, <3>2 DEF IInv, Chain
  <2> QED
    BY <1>1, <2>1, <2>2, <2>3, Names DEF IInv, Chain
<1> QED
  BY <1>4, <1>5, <1>6 DEF IInv, Rest

LEMMA UnregisteredStep ==
    ASSUME IInv, NEW f \in Frames, Unregistered(f)
    PROVE  IInv'
<1>1. /\ frame[f].pc = "unregistered" /\ Runnable(f) /\ Goto(f, Return(f)) /\ lock' = "free"
      /\ UNCHANGED <<program, outer, leaver, proc, active, saved, disp, atexits, run, row,
                     posted, spooled,
                     sigterm, caught>>
  BY DEF Unregistered, ledger
<1>2. Return(f) \in PCs /\ Return(f) \notin LockedPCs /\ Return(f) \in {"end", "loop"}
  BY DEF PCs, LockedPCs, Return
<1>3. Rest'
  BY <1>1, <1>2, MoveStep
<1>4. TypeOK'
  BY <1>1, <1>2, LockStep DEF IInv, TypeOK, LockedPCs
<1>5. Chain'
  BY <1>1, <1>2, SameChain
<1> QED
  BY <1>3, <1>4, <1>5 DEF IInv, Rest

-----------------------------------------------------------------------------
(* The start of a run, and the end of its block.                           *)

\* A run that is still starting was caught by nobody.
LEMMA NotCaught ==
    ASSUME IInv, NEW r \in Runs, frame[r].pc \in StartPCs \ {"body"}
    PROVE  r \notin caught["handler"] /\ r \notin caught["exit"]
  BY DEF IInv, FramesOK, StartPCs, FinishPCs

\* The POST and its answer: a row that runs is no outcome.
LEMMA StartingStep ==
    ASSUME IInv, NEW r \in Runs, StartPost(r) \/ StartReply(r)
    PROVE  IInv'
<1>1. PICK pc \in {"start_reply", "body"} :
         /\ Runnable(r) /\ Goto(r, pc) /\ frame[r].pc \in {"start_post", "start_reply"}
         /\ UNCHANGED <<program, outer, leaver, proc, lock, active, saved, disp, atexits,
                        posted, spooled,
                        sigterm, caught>>
         /\ row' = row \/ row' = [row EXCEPT ![r] = "running"]
         /\ run' = run \/ run' = [run EXCEPT ![r].hasID = TRUE]
  BY DEF StartPost, StartReply, hooks, ledger
<1>2. r \in Frames /\ pc \in PCs
  BY Names DEF PCs
<1>3. /\ frame' \in [Frames -> [pc : PCs, run : Runs \union {"none"},
                                status : {"running", "succeeded", "failed"},
                                todo : SUBSET Runs, previous : Dispositions]]
      /\ frame'[r].pc = pc
      /\ \A g \in Frames \ {r} : frame'[g].pc = frame[g].pc
      /\ \A g \in Frames : /\ frame'[g].run = frame[g].run
                           /\ frame'[g].status = frame[g].status
                           /\ frame'[g].todo = frame[g].todo
                           /\ frame'[g].previous = frame[g].previous
  BY <1>1, <1>2, Moved DEF IInv
<1>4. /\ row' \in [Runs -> {"none", "running", "succeeded", "failed"}]
      /\ \A q \in Runs : row'[q] = row[q] \/ (q = r /\ row'[q] = "running")
      /\ run' \in [Runs -> [finished : BOOLEAN, status : {"running", "succeeded", "failed"},
                            hasID : BOOLEAN]]
      /\ \A q \in Runs : run'[q].finished = run[q].finished /\ run'[q].status = run[q].status
  <2>1. /\ row \in [Runs -> {"none", "running", "succeeded", "failed"}]
        /\ run \in [Runs -> [finished : BOOLEAN, status : {"running", "succeeded", "failed"},
                             hasID : BOOLEAN]]
    BY DEF IInv, TypeOK
  <2>2. /\ row' \in [Runs -> {"none", "running", "succeeded", "failed"}]
        /\ \A q \in Runs : row'[q] = row[q] \/ (q = r /\ row'[q] = "running")
    BY <1>1, <2>1
  <2>3. /\ run' \in [Runs -> [finished : BOOLEAN, status : {"running", "succeeded", "failed"},
                              hasID : BOOLEAN]]
        /\ \A q \in Runs : run'[q].finished = run[q].finished /\ run'[q].status = run[q].status
    <3>1. CASE run' = run
      BY <2>1, <3>1
    <3>2. CASE run' = [run EXCEPT ![r].hasID = TRUE]
      <4>1. /\ run' = [run EXCEPT ![r] = [run[r] EXCEPT !.hasID = TRUE]]
            /\ run[r] \in RunRecord
        BY <2>1, <3>2, Zenon DEF RunRecord
      <4>2. /\ [run[r] EXCEPT !.hasID = TRUE] \in RunRecord
            /\ [run[r] EXCEPT !.hasID = TRUE].finished = run[r].finished
            /\ [run[r] EXCEPT !.hasID = TRUE].status = run[r].status
        BY <4>1, Zenon DEF RunRecord
      <4>3. /\ run' \in [Runs -> RunRecord] /\ run'[r] = [run[r] EXCEPT !.hasID = TRUE]
            /\ \A q \in Runs \ {r} : run'[q] = run[q]
        BY <4>1, <4>2, RunChanged DEF IInv
      <4> QED
        BY <4>2, <4>3, Zenon DEF RunRecord
    <3> QED
      BY <1>1, <3>1, <3>2
  <2> QED
    BY <2>2, <2>3
<1>5. /\ \A g \in Frames : Of(g)' = Of(g)
      /\ \A q \in Runs : Outcomes(q)' \subseteq Outcomes(q)
      /\ \A q \in Runs \ {r} : Outcomes(q)' = Outcomes(q)
  BY <1>1, <1>3, <1>4 DEF Of, Outcomes
<1>6. r \notin caught["handler"] /\ r \notin caught["exit"]
      /\ caught["handler"] \subseteq Runs /\ caught["exit"] \subseteq Runs
  BY <1>1, NotCaught DEF StartPCs, IInv, TypeOK
<1>7. TypeOK'
  BY <1>1, <1>2, <1>3, <1>4 DEF IInv, TypeOK
<1>8. FramesOK'
  <2>1. ASSUME NEW g \in Frames, frame'[g].pc \in {"send", "spool"} PROVE run'[Of(g)].finished
    <3>1. frame[g].pc \in {"send", "spool"} /\ frame[g].pc \in FinishPCs
      BY <1>3, <2>1 DEF FinishPCs
    <3>2. Of(g) \in Runs
      BY <3>1, InHand
    <3> QED
      BY <1>4, <3>1, <3>2 DEF IInv, FramesOK
  <2> QED
    BY <1>1, <1>3, <1>5, <1>6, <2>1, Names DEF IInv, FramesOK, StartPCs, FinishPCs
<1>9. Unsent'
  BY <1>4, <1>5 DEF IInv, Unsent
<1>10. Phases'
  BY <1>1, <1>3, <1>6, Names, OnTop DEF IInv, Phases
<1>11. Chain'
  BY <1>1, <1>2, SameChain
<1>12. Duty'
  <2>1. ASSUME NEW q \in Runs \ {r}, NEW g \in Frames
        PROVE  /\ Owed(q)' <=> Owed(q)
               /\ Outcomes(q)' = Outcomes(q) /\ run'[q].finished = run[q].finished
               /\ g \notin Runs => (Sending(g, q)' <=> Sending(g, q)) /\ (Awaits(g, q)' <=> Awaits(g, q))
    BY <1>3, <1>4, <1>5, Names DEF Owed, Sending, Awaits
  <2>2. frame'["handler"].pc = frame["handler"].pc
    BY <1>3, Names
  <2> QED
    BY <1>1, <1>6, <2>1, <2>2, Names DEF IInv, Duty
<1>13. Killed'
  <2> SUFFICES ASSUME NEW q \in caught["handler"] \intersect MainRuns
               PROVE  /\ frame'[q].pc \in {"body", "check", "end"}
                      /\ run'[q].finished => run'[q].status = "failed"
                      /\ Outcomes(q)' \subseteq {"failed"}
                      /\ \A f \in {"handler", "exit"} :
                            frame'[f].pc = "spool" /\ Of(f)' = q => frame'[f].status = "failed"
    BY <1>1 DEF Killed
  <2>1. /\ q \in Runs \ {r} /\ q \in Frames
        /\ frame[q].pc \in {"body", "check", "end"}
        /\ run[q].finished => run[q].status = "failed"
        /\ Outcomes(q) \subseteq {"failed"}
        /\ \A f \in {"handler", "exit"} :
              frame[f].pc = "spool" /\ Of(f) = q => frame[f].status = "failed"
    BY <1>6, Names DEF IInv, Killed
  <2>2. frame'[q].pc = frame[q].pc
    BY <1>3, <2>1
  <2>3. run'[q].finished = run[q].finished /\ run'[q].status = run[q].status
    BY <1>4, <2>1
  <2>4. Outcomes(q)' = Outcomes(q)
    BY <1>5, <2>1
  <2>5. \A f \in {"handler", "exit"} :
           /\ frame'[f].pc = frame[f].pc /\ frame'[f].status = frame[f].status
           /\ Of(f)' = Of(f)
    BY <1>3, <1>5, Names
  <2> QED
    BY <2>1, <2>2, <2>3, <2>4, <2>5
<1>14. OneStatus'
  <2> SUFFICES ASSUME program.original # "user", NEW m \in MainRuns
               PROVE  /\ Outcomes(m)' \subseteq {run'[m].status}
                      /\ \A f \in Frames : Of(f)' = m =>
                            /\ frame'[f].pc = "spool" => frame'[f].status = run'[m].status
                            /\ /\ frame'[f].pc = "set"
                               /\ f = "handler" \/ frame'["handler"].pc = "off"
                               => ~run'[m].finished
    BY <1>1 DEF OneStatus
  <2>1. /\ m \in Runs /\ Outcomes(m) \subseteq {run[m].status}
        /\ \A f \in Frames : Of(f) = m =>
              /\ frame[f].pc = "spool" => frame[f].status = run[m].status
              /\ frame[f].pc = "set" /\ (f = "handler" \/ frame["handler"].pc = "off") =>
                    ~run[m].finished
    BY Names DEF IInv, OneStatus
  <2>2. frame'["handler"].pc = frame["handler"].pc
    BY <1>3, Names
  <2>3. run'[m].finished = run[m].finished /\ run'[m].status = run[m].status
    BY <1>4, <2>1
  <2>4. Outcomes(m)' \subseteq {run'[m].status}
    BY <1>5, <2>1, <2>3
  <2>5. ASSUME NEW g \in Frames, Of(g)' = m, frame'[g].pc \in {"spool", "set"}
        PROVE  Of(g) = m /\ frame'[g].pc = frame[g].pc /\ frame'[g].status = frame[g].status
    BY <1>1, <1>3, <1>5, <2>5
  <2> QED
    BY <2>1, <2>2, <2>3, <2>4, <2>5
<1> QED
  BY <1>7, <1>8, <1>9, <1>10, <1>11, <1>12, <1>13, <1>14 DEF IInv

LEMMA BodyEndsStep ==
    ASSUME IInv, NEW r \in Runs, BodyEnds(r)
    PROVE  IInv'
<1>1. PICK s \in {"succeeded", "failed"} :
         /\ Runnable(r) /\ frame[r].pc = "body"
         /\ frame' = [frame EXCEPT ![r].pc = "check", ![r].status = s]
         /\ UNCHANGED <<program, outer, leaver, proc, lock, active, saved, disp, atexits,
                        run, row, posted,
                        spooled, sigterm, caught>>
  BY DEF BodyEnds, hooks, ledger
<1>2. r \in Frames /\ "check" \in PCs
  BY Names DEF PCs
<1>3. /\ frame' \in [Frames -> [pc : PCs, run : Runs \union {"none"},
                                status : {"running", "succeeded", "failed"},
                                todo : SUBSET Runs, previous : Dispositions]]
      /\ frame'[r].pc = "check" /\ frame'[r].status = s
      /\ \A g \in Frames \ {r} : frame'[g].pc = frame[g].pc /\ frame'[g].status = frame[g].status
      /\ \A g \in Frames : /\ frame'[g].run = frame[g].run
                           /\ frame'[g].todo = frame[g].todo
                           /\ frame'[g].previous = frame[g].previous
  BY <1>1, <1>2, MovedTo DEF IInv
<1>4. /\ \A g \in Frames : Of(g)' = Of(g)
      /\ \A q : Outcomes(q)' = Outcomes(q)
      /\ caught["handler"] \subseteq Runs /\ caught["exit"] \subseteq Runs
  BY <1>1, <1>3 DEF Of, Outcomes, IInv, TypeOK
<1>5. TypeOK'
  BY <1>1, <1>2, <1>3 DEF IInv, TypeOK
<1>6. FramesOK'
  BY <1>1, <1>3, <1>4, Names DEF IInv, FramesOK, StartPCs, FinishPCs
<1>7. Unsent'
  BY <1>1, <1>4 DEF IInv, Unsent
<1>8. Phases'
  BY <1>1, <1>3, Names, OnTop DEF IInv, Phases
<1>9. Chain'
  BY <1>1, <1>3, Names DEF IInv, Chain
<1>10. Duty'
  <2>1. ASSUME NEW q \in Runs, NEW g \in {"handler", "exit"}
        PROVE  /\ Owed(q)' => Owed(q)
               /\ (Sending(g, q)' <=> Sending(g, q)) /\ (Awaits(g, q)' <=> Awaits(g, q))
    BY <1>1, <1>3, <1>4, Names DEF Owed, Sending, Awaits
  <2>2. frame'["handler"].pc = frame["handler"].pc
    BY <1>3, Names
  <2> QED
    BY <1>1, <1>4, <2>1, <2>2, Names DEF IInv, Duty
<1>11. Killed'
  BY <1>1, <1>3, <1>4, Names DEF IInv, Killed
<1>12. OneStatus'
  BY <1>1, <1>3, <1>4, Names DEF IInv, OneStatus
<1> QED
  BY <1>5, <1>6, <1>7, <1>8, <1>9, <1>10, <1>11, <1>12 DEF IInv

-----------------------------------------------------------------------------
(* Run._finish.                                                            *)

\* While one frame of the main thread is about to set _finished, no other that
\* can run is: the handler's stops all of them, and the exit's runs after all.
LEMMA OneSetter ==
    ASSUME IInv, NEW m \in MainRuns, NEW f \in Frames, NEW g \in Frames, f # g,
           Runnable(f), frame[f].pc = "set", Of(f) = m, frame[g].pc = "set", Of(g) = m
    PROVE  g # "handler" /\ frame["handler"].pc # "off"
<1>1. f \in {m, "handler", "exit"} /\ g \in {m, "handler", "exit"}
  BY Names, InHand DEF FinishPCs
<1>2. CASE f = m
  BY <1>1, <1>2, OnTop DEF IInv, Phases
<1>3. CASE f = "exit"
  BY <1>1, <1>3, OnTop DEF IInv, Phases
<1>4. CASE f = "handler"
  BY <1>4
<1> QED
  BY <1>1, <1>2, <1>3, <1>4

\* _finished is set, once, with the status of the frame that got here first.
LEMMA FinishSetStep ==
    ASSUME IInv, NEW f \in Frames, FinishSet(f)
    PROVE  IInv'
<1>1. PICK r \in Runs : r = Of(f) /\ (f \in Runs => r = f)
  <2>1. frame[f].pc \in FinishPCs
    BY DEF FinishSet, FinishPCs
  <2> QED
    BY <2>1, InHand
<1>2. PICK s \in {"succeeded", "failed"} : s = frame[f].status
  <2>1. frame[f].status \in {"running", "succeeded", "failed"}
    BY DEF IInv, TypeOK
  <2> QED
    BY <2>1 DEF FinishSet, IInv, FramesOK
<1> DEFINE v == [run[r] EXCEPT !.finished = TRUE, !.status = s]
<1>3. /\ Runnable(f) /\ frame[f].pc = "set" /\ Goto(f, "send")
      /\ run' = [run EXCEPT ![r].finished = TRUE, ![r].status = s]
      /\ UNCHANGED <<program, outer, leaver, proc, lock, active, saved, disp, atexits, row,
                     posted, spooled,
                     sigterm, caught>>
  BY <1>1, <1>2 DEF FinishSet, hooks, ledger
<1>4. /\ r \in Runs /\ (f \in Runs => r = f) /\ "send" \in PCs
      /\ f \in {"handler", "exit"} => s = "failed"
  BY <1>3, <1>1, <1>2 DEF IInv, FramesOK, PCs
<1>5. /\ run' \in [Runs -> RunRecord]
      /\ run'[r].finished = TRUE /\ run'[r].status = s
      /\ \A q \in Runs \ {r} : run'[q] = run[q]
  <2>1. run \in [Runs -> RunRecord]
    BY Zenon DEF IInv, TypeOK, RunRecord
  <2>2. run[r] \in RunRecord /\ run' = [run EXCEPT ![r] = v]
    BY <1>3, <1>4, <2>1, Zenon
  <2>3. v \in RunRecord /\ v.finished = TRUE /\ v.status = s
    BY <1>4, <2>2, Zenon DEF RunRecord
  <2> HIDE DEF v
  <2> QED
    BY <1>4, <2>2, <2>3, RunChanged DEF IInv
<1>6. /\ frame' \in [Frames -> [pc : PCs, run : Runs \union {"none"},
                                status : {"running", "succeeded", "failed"},
                                todo : SUBSET Runs, previous : Dispositions]]
      /\ frame'[f].pc = "send"
      /\ \A g \in Frames \ {f} : frame'[g].pc = frame[g].pc
      /\ \A g \in Frames : /\ frame'[g].run = frame[g].run
                           /\ frame'[g].status = frame[g].status
                           /\ frame'[g].todo = frame[g].todo
                           /\ frame'[g].previous = frame[g].previous
  BY <1>3, <1>4, Moved DEF IInv
<1>7. /\ \A g \in Frames : Of(g)' = Of(g)
      /\ \A q : Outcomes(q)' = Outcomes(q)
      /\ \A q \in Runs : run[q].finished => run'[q].finished
      /\ caught["handler"] \subseteq Runs /\ caught["exit"] \subseteq Runs
  <2>1. \A g \in Frames : Of(g)' = Of(g)
    BY <1>6 DEF Of
  <2>2. \A q : Outcomes(q)' = Outcomes(q)
    BY <1>3 DEF Outcomes
  <2>3. \A q \in Runs : run[q].finished => run'[q].finished
    BY <1>5
  <2>4. caught["handler"] \subseteq Runs /\ caught["exit"] \subseteq Runs
    BY DEF IInv, TypeOK
  <2> QED
    BY <2>1, <2>2, <2>3, <2>4
<1>8. TypeOK'
  <2>1. run' \in [Runs -> [finished : BOOLEAN, status : {"running", "succeeded", "failed"},
                           hasID : BOOLEAN]]
    BY <1>5 DEF RunRecord
  <2> QED
    BY <1>3, <1>6, <2>1 DEF IInv, TypeOK
<1>9. FramesOK'
  <2>1. ASSUME NEW g \in Frames, frame'[g].pc \in {"send", "spool"} PROVE run'[Of(g)].finished
    <3>1. CASE g = f
      BY <1>5, <1>1, <3>1
    <3>2. CASE g # f
      <4>1. frame[g].pc \in {"send", "spool"} /\ frame[g].pc \in FinishPCs
        BY <1>6, <2>1, <3>2 DEF FinishPCs
      <4>2. Of(g) \in Runs
        BY <4>1, InHand
      <4> QED
        BY <1>7, <4>1, <4>2 DEF IInv, FramesOK
    <3> QED
      BY <3>1, <3>2
  <2>2. ASSUME NEW g \in {"handler", "exit"}, NEW q \in caught[g]
        PROVE  frame'[q].pc \in FinishPCs \union {"body", "end"}
    <3>1. q \in Runs /\ frame[q].pc \in FinishPCs \union {"body", "end"}
      BY <1>7 DEF IInv, FramesOK
    <3> QED
      BY <1>6, <3>1, Names DEF FinishPCs
  <2>3. \A q \in Runs : /\ frame'[q].run = q
                       /\ frame'[q].pc \in StartPCs \union FinishPCs \union {"end"}
    BY <1>6, Names DEF IInv, FramesOK, FinishPCs
  <2>4. \A g \in {"handler", "exit"} :
           /\ frame'[g].pc \in FinishPCs \union {"off", "loop"}
           /\ frame'[g].pc \in FinishPCs => frame'[g].run \in Runs
           /\ frame'[g].pc \in {"check", "set"} => frame'[g].status = "failed"
    BY <1>3, <1>6, Names DEF IInv, FramesOK, FinishPCs
  <2>5. \A g \in Frames : frame'[g].pc \in {"check", "set", "spool"} => frame'[g].status # "running"
    BY <1>6 DEF IInv, FramesOK
  <2> QED
    BY <1>3, <1>7, <2>1, <2>2, <2>3, <2>4, <2>5 DEF IInv, FramesOK
<1>10. Unsent'
  BY <1>4, <1>5, <1>7 DEF IInv, Unsent
<1>11. Phases'
  BY <1>3, <1>6, Names, OnTop DEF IInv, Phases
<1>12. Chain'
  BY <1>3, <1>4, SameChain
<1>13. Duty'
  <2>1. \A q \in Runs : Owed(q)' <=> Owed(q)
    BY <1>3, <1>6, Names DEF Owed
  <2>2. Sending(f, r)' /\ \A g \in Frames, q \in Runs : Sending(g, q) => Sending(g, q)'
    BY <1>3, <1>6, <1>7, <1>1 DEF Sending
  <2>3. \A g \in Frames, q \in Runs \ {r} : Awaits(g, q) => Awaits(g, q)'
    BY <1>3, <1>6, <1>7, <1>1 DEF Awaits
  <2>4. \A q \in Runs \ {r} : run'[q].finished = run[q].finished
    BY <1>5
  <2>5. f \in Runs /\ Owed(r) => f \in MainRuns
    BY <1>3, <1>4 DEF Owed
  <2>6. ASSUME NEW q \in caught["handler"], Owed(q)'
        PROVE  \/ Outcomes(q)' # {}
               \/ Sending("handler", q)'
               \/ frame'["handler"].pc # "off" /\ Awaits("handler", q)' /\ ~run'[q].finished
    <3>1. \/ Outcomes(q) # {}
          \/ Sending("handler", q)
          \/ frame["handler"].pc # "off" /\ Awaits("handler", q) /\ ~run[q].finished
      BY <1>7, <2>1, <2>6 DEF IInv, Duty
    <3>2. CASE q # r
      <4>1. frame["handler"].pc # "off" => frame'["handler"].pc # "off"
        BY <1>6, Names
      <4> QED
        BY <1>7, <2>2, <2>3, <2>4, <3>1, <3>2, <4>1, Names
    <3>3. CASE q = r /\ f = "handler"
      BY <2>2, <3>3
    <3>4. CASE q = r /\ f # "handler"
      <4>1. frame["handler"].pc = "off"
        BY <1>3, <1>4, <1>7, <2>1, <2>5, <2>6, <3>4, Names, OnTop
      <4> QED
        BY <1>7, <2>2, <3>1, <4>1, Names
    <3> QED
      BY <3>2, <3>3, <3>4
  <2>7. ASSUME NEW q \in caught["exit"], Owed(q)'
        PROVE  \/ Outcomes(q)' # {}
               \/ Sending("handler", q)' \/ Sending("exit", q)'
               \/ Awaits("exit", q)' /\ ~run'[q].finished
    <3>1. \/ Outcomes(q) # {}
          \/ Sending("handler", q) \/ Sending("exit", q)
          \/ Awaits("exit", q) /\ ~run[q].finished
      BY <1>7, <2>1, <2>7 DEF IInv, Duty
    <3>2. CASE q # r
      BY <1>7, <2>2, <2>3, <2>4, <3>1, <3>2, Names
    <3>3. CASE q = r
      <4>1. f = "handler" \/ f = "exit"
        BY <1>4, <1>7, <2>1, <2>5, <2>7, <3>3, Names DEF IInv, Phases
      <4> QED
        BY <2>2, <3>3, <4>1
    <3> QED
      BY <3>2, <3>3
  <2> QED
    BY <1>3, <2>6, <2>7 DEF Duty
<1>14. Killed'
  <2> SUFFICES ASSUME NEW q \in caught["handler"] \intersect MainRuns
               PROVE  /\ frame'[q].pc \in {"body", "check", "end"}
                      /\ run'[q].finished => run'[q].status = "failed"
                      /\ Outcomes(q)' \subseteq {"failed"}
                      /\ \A g \in {"handler", "exit"} :
                            frame'[g].pc = "spool" /\ Of(g)' = q => frame'[g].status = "failed"
    BY <1>3 DEF Killed
  <2>1. /\ q \in Runs /\ q \in Frames
        /\ frame[q].pc \in {"body", "check", "end"}
        /\ run[q].finished => run[q].status = "failed"
        /\ Outcomes(q) \subseteq {"failed"}
        /\ \A g \in {"handler", "exit"} :
              frame[g].pc = "spool" /\ Of(g) = q => frame[g].status = "failed"
    BY Names DEF IInv, Killed
  <2>2. f # q
    BY <1>3, <2>1
  <2>3. run'[q].finished => run'[q].status = "failed"
    <3>1. CASE q = r
      BY <1>4, <1>5, <2>2, <3>1, Names
    <3>2. CASE q # r
      BY <1>5, <2>1, <3>2
    <3> QED
      BY <3>1, <3>2
  <2> QED
    BY <1>3, <1>6, <1>7, <2>1, <2>2, <2>3, Names
<1>15. OneStatus'
  <2> SUFFICES ASSUME program.original # "user", NEW m \in MainRuns
               PROVE  /\ Outcomes(m)' \subseteq {run'[m].status}
                      /\ \A g \in Frames : Of(g)' = m =>
                            /\ frame'[g].pc = "spool" => frame'[g].status = run'[m].status
                            /\ /\ frame'[g].pc = "set"
                               /\ g = "handler" \/ frame'["handler"].pc = "off"
                               => ~run'[m].finished
    BY <1>3 DEF OneStatus
  <2>1. /\ m \in Runs /\ Outcomes(m) \subseteq {run[m].status}
        /\ \A g \in Frames : Of(g) = m =>
              /\ frame[g].pc = "spool" => frame[g].status = run[m].status
              /\ frame[g].pc = "set" /\ (g = "handler" \/ frame["handler"].pc = "off") =>
                    ~run[m].finished
    BY Names DEF IInv, OneStatus
  <2>2. frame'["handler"].pc = "off" => frame["handler"].pc = "off"
    BY <1>3, <1>6, Names
  <2>3. CASE m # r
    <3>1. run'[m] = run[m]
      BY <1>5, <2>1, <2>3
    <3> QED
      BY <1>6, <1>7, <2>1, <2>2, <3>1
  <2>4. CASE m = r
    <3>1. ~run[m].finished
      <4>1. f = "handler" \/ frame["handler"].pc = "off"
        BY <1>3, <1>4, <2>4, Names, OnTop
      <4> QED
        BY <1>3, <1>1, <2>1, <2>4, <4>1
    <3>2. Outcomes(m) = {}
      BY <2>1, <3>1 DEF IInv, Unsent
    <3>3. \A g \in Frames : Of(g) = m => frame[g].pc # "spool"
      BY <3>1 DEF IInv, FramesOK
    <3>4. ASSUME NEW g \in Frames, Of(g) = m, frame'[g].pc = "set",
                 g = "handler" \/ frame'["handler"].pc = "off"
          PROVE  FALSE
      <4>1. g # f /\ frame[g].pc = "set"
        BY <1>6, <3>4
      <4>2. g # "handler" /\ frame["handler"].pc # "off"
        BY <1>3, <1>1, <2>4, <3>4, <4>1, OneSetter
      <4> QED
        BY <2>2, <3>4, <4>2
    <3> QED
      BY <1>6, <1>7, <3>2, <3>3, <3>4
  <2> QED
    BY <2>3, <2>4
<1> QED
  BY <1>8, <1>9, <1>10, <1>11, <1>12, <1>13, <1>14, <1>15 DEF IInv

\* A run's outcome goes to the ledger or to the spool, or is on its way there.
LEMMA SentStep ==
    ASSUME IInv, NEW f \in Frames, Runnable(f), NEW r \in Runs, r = Of(f), f \in Runs => r = f,
           NEW s \in {"succeeded", "failed"}, NEW pc \in {"spool", "unregister_lock"},
           frame[f].pc \in {"send", "spool"},
           frame' = [frame EXCEPT ![f].pc = pc, ![f].status = s],
           UNCHANGED <<program, outer, leaver, proc, lock, active, saved, disp, atexits, run,
                       sigterm, caught>>,
           row' \in [Runs -> {"none", "running", "succeeded", "failed"}],
           posted' \in [Runs -> SUBSET {"succeeded", "failed"}],
           spooled' \in [Runs -> SUBSET {"succeeded", "failed"}],
           \A q \in Runs \ {r} : Outcomes(q)' = Outcomes(q),
           Outcomes(r) \subseteq Outcomes(r)', Outcomes(r)' \subseteq Outcomes(r) \union {s},
           pc = "unregister_lock" => Outcomes(r)' # {},
           r \in caught["handler"] \intersect MainRuns => s = "failed",
           r \in MainRuns /\ program.original # "user" => s = run[r].status
    PROVE  IInv'
<1>1. pc \in PCs
  BY DEF PCs
<1>2. /\ frame' \in [Frames -> [pc : PCs, run : Runs \union {"none"},
                                status : {"running", "succeeded", "failed"},
                                todo : SUBSET Runs, previous : Dispositions]]
      /\ frame'[f].pc = pc /\ frame'[f].status = s
      /\ \A g \in Frames \ {f} : frame'[g].pc = frame[g].pc /\ frame'[g].status = frame[g].status
      /\ \A g \in Frames : /\ frame'[g].run = frame[g].run
                           /\ frame'[g].todo = frame[g].todo
                           /\ frame'[g].previous = frame[g].previous
  BY <1>1, MovedTo DEF IInv
<1>3. /\ \A g \in Frames : Of(g)' = Of(g)
      /\ \A q \in Runs : Outcomes(q) # {} => Outcomes(q)' # {}
      /\ caught["handler"] \subseteq Runs /\ caught["exit"] \subseteq Runs
      /\ run[r].finished
  <2>1. \A g \in Frames : Of(g)' = Of(g)
    BY <1>2 DEF Of
  <2>2. \A q \in Runs : Outcomes(q) # {} => Outcomes(q)' # {}
    OBVIOUS
  <2>3. /\ caught["handler"] \subseteq Runs /\ caught["exit"] \subseteq Runs
        /\ run[r].finished
    BY DEF IInv, TypeOK, FramesOK
  <2> QED
    BY <2>1, <2>2, <2>3
<1>4. TypeOK'
  BY <1>2 DEF IInv, TypeOK
<1>5. FramesOK'
  <2>1. \A g \in Frames : frame'[g].pc \in {"send", "spool"} => frame[g].pc \in {"send", "spool"}
    BY <1>2
  <2>2. ASSUME NEW g \in {"handler", "exit"}, NEW q \in caught[g]
        PROVE  frame'[q].pc \in FinishPCs \union {"body", "end"}
    <3>1. q \in Runs /\ frame[q].pc \in FinishPCs \union {"body", "end"}
      BY <1>3 DEF IInv, FramesOK
    <3> QED
      BY <1>2, <3>1, Names DEF FinishPCs
  <2>3. \A q \in Runs : /\ frame'[q].run = q
                       /\ frame'[q].pc \in StartPCs \union FinishPCs \union {"end"}
    BY <1>2, Names DEF IInv, FramesOK, FinishPCs
  <2>4. \A g \in {"handler", "exit"} :
           /\ frame'[g].pc \in FinishPCs \union {"off", "loop"}
           /\ frame'[g].pc \in FinishPCs => frame'[g].run \in Runs
           /\ frame'[g].pc \in {"check", "set"} => frame'[g].status = "failed"
    BY <1>2, Names DEF IInv, FramesOK, FinishPCs
  <2>5. \A g \in Frames : frame'[g].pc \in {"check", "set", "spool"} => frame'[g].status # "running"
    BY <1>2 DEF IInv, FramesOK
  <2>6. program \in Program /\ \A g \in Frames : frame'[g].pc \in {"send", "spool"} => run[Of(g)].finished
    BY <2>1 DEF IInv, FramesOK
  <2> QED
    BY <1>3, <2>2, <2>3, <2>4, <2>5, <2>6 DEF FramesOK
<1>6. Unsent'
  BY <1>3 DEF IInv, Unsent
<1>7. Phases'
  BY <1>2, Names, OnTop DEF IInv, Phases
<1>8. Chain'
  BY <1>2, Names DEF IInv, Chain
<1>9. Duty'
  <2>1. ASSUME NEW q \in Runs
        PROVE  /\ Owed(q)' <=> Owed(q)
               /\ \A g \in Frames : Awaits(g, q) => Awaits(g, q)'
               /\ \A g \in Frames : Sending(g, q) => Sending(g, q)' \/ Outcomes(q)' # {}
    <3>1. Owed(q)' <=> Owed(q)
      BY <1>2, Names DEF Owed
    <3>2. \A g \in Frames : Awaits(g, q) => Awaits(g, q)'
      BY <1>2, <1>3 DEF Awaits
    <3>3. \A g \in Frames : Sending(g, q) => Sending(g, q)' \/ Outcomes(q)' # {}
      BY <1>2, <1>3 DEF Sending
    <3> QED
      BY <3>1, <3>2, <3>3
  <2>2. frame["handler"].pc # "off" => frame'["handler"].pc # "off"
    BY <1>2, Names
  <2> QED
    BY <1>3, <2>1, <2>2, Names DEF IInv, Duty
<1>10. Killed'
  <2> SUFFICES ASSUME NEW q \in caught["handler"] \intersect MainRuns
               PROVE  /\ frame'[q].pc \in {"body", "check", "end"}
                      /\ run'[q].finished => run'[q].status = "failed"
                      /\ Outcomes(q)' \subseteq {"failed"}
                      /\ \A g \in {"handler", "exit"} :
                            frame'[g].pc = "spool" /\ Of(g)' = q => frame'[g].status = "failed"
    BY DEF Killed
  <2>1. /\ q \in Runs /\ q \in Frames
        /\ frame[q].pc \in {"body", "check", "end"}
        /\ run[q].finished => run[q].status = "failed"
        /\ Outcomes(q) \subseteq {"failed"}
        /\ \A g \in {"handler", "exit"} :
              frame[g].pc = "spool" /\ Of(g) = q => frame[g].status = "failed"
    BY Names DEF IInv, Killed
  <2>2. f # q
    BY <2>1
  <2>3. Outcomes(q)' \subseteq {"failed"}
    BY <2>1
  <2>4. ASSUME NEW g \in {"handler", "exit"}, frame'[g].pc = "spool", Of(g) = q
        PROVE  frame'[g].status = "failed"
    BY <1>2, <2>1, <2>4, Names
  <2> QED
    BY <1>2, <1>3, <2>1, <2>2, <2>3, <2>4, Names
<1>11. OneStatus'
  <2> SUFFICES ASSUME program.original # "user", NEW m \in MainRuns
               PROVE  /\ Outcomes(m)' \subseteq {run'[m].status}
                      /\ \A g \in Frames : Of(g)' = m =>
                            /\ frame'[g].pc = "spool" => frame'[g].status = run'[m].status
                            /\ /\ frame'[g].pc = "set"
                               /\ g = "handler" \/ frame'["handler"].pc = "off"
                               => ~run'[m].finished
    BY DEF OneStatus
  <2>1. /\ m \in Runs /\ Outcomes(m) \subseteq {run[m].status}
        /\ \A g \in Frames : Of(g) = m =>
              /\ frame[g].pc = "spool" => frame[g].status = run[m].status
              /\ frame[g].pc = "set" /\ (g = "handler" \/ frame["handler"].pc = "off") =>
                    ~run[m].finished
    BY Names DEF IInv, OneStatus
  <2>2. frame'["handler"].pc = "off" => frame["handler"].pc = "off"
    BY <1>2, Names
  <2>3. run' = run /\ Outcomes(m)' \subseteq {run[m].status}
    BY <2>1
  <2>4. ASSUME NEW g \in Frames, Of(g) = m, frame'[g].pc = "spool"
        PROVE  frame'[g].status = run[m].status
    BY <1>2, <2>1, <2>4
  <2>5. ASSUME NEW g \in Frames, Of(g) = m, frame'[g].pc = "set",
               g = "handler" \/ frame'["handler"].pc = "off"
        PROVE  ~run[m].finished
    BY <1>2, <2>1, <2>2, <2>5
  <2> QED
    BY <1>3, <2>3, <2>4, <2>5
<1> QED
  BY <1>4, <1>5, <1>6, <1>7, <1>8, <1>9, <1>10, <1>11 DEF IInv

LEMMA FinishSpoolStep ==
    ASSUME IInv, NEW f \in Frames, FinishSpool(f)
    PROVE  IInv'
<1>1. PICK r \in Runs : r = Of(f) /\ (f \in Runs => r = f)
  <2>1. frame[f].pc \in FinishPCs
    BY DEF FinishSpool, FinishPCs
  <2> QED
    BY <2>1, InHand
<1>2. PICK s \in {"succeeded", "failed"} : s = frame[f].status
  <2>1. frame[f].status \in {"running", "succeeded", "failed"}
    BY DEF IInv, TypeOK
  <2> QED
    BY <2>1 DEF FinishSpool, IInv, FramesOK
<1>3. /\ Runnable(f) /\ frame[f].pc = "spool" /\ Goto(f, "unregister_lock")
      /\ spooled' = [spooled EXCEPT ![r] = @ \union {s}]
      /\ UNCHANGED <<program, outer, leaver, proc, lock, active, saved, disp, atexits, run,
                     row, posted,
                     sigterm, caught>>
  BY <1>1, <1>2 DEF FinishSpool, hooks
<1>4. frame' = [frame EXCEPT ![f].pc = "unregister_lock", ![f].status = s]
  BY <1>2, <1>3 DEF IInv, TypeOK, Goto
<1>5. /\ spooled' \in [Runs -> SUBSET {"succeeded", "failed"}]
      /\ spooled'[r] = spooled[r] \union {s}
      /\ \A q \in Runs \ {r} : spooled'[q] = spooled[q]
      /\ row' \in [Runs -> {"none", "running", "succeeded", "failed"}]
      /\ posted' \in [Runs -> SUBSET {"succeeded", "failed"}]
  BY <1>3 DEF IInv, TypeOK
<1>6. /\ \A q \in Runs \ {r} : Outcomes(q)' = Outcomes(q)
      /\ Outcomes(r)' = Outcomes(r) \union {s}
  BY <1>3, <1>5 DEF Outcomes
<1>7. r \in caught["handler"] \intersect MainRuns => s = "failed"
  BY <1>1, <1>2, <1>3, Names DEF IInv, Killed
<1>8. r \in MainRuns /\ program.original # "user" => s = run[r].status
  BY <1>1, <1>2, <1>3 DEF IInv, OneStatus
<1> QED
  BY <1>1, <1>3, <1>4, <1>5, <1>6, <1>7, <1>8, SentStep

LEMMA FinishSendStep ==
    ASSUME IInv, NEW f \in Frames, FinishSend(f)
    PROVE  IInv'
<1>1. PICK r \in Runs : r = Of(f) /\ (f \in Runs => r = f)
  <2>1. frame[f].pc \in FinishPCs
    BY DEF FinishSend, FinishPCs
  <2> QED
    BY <2>1, InHand
<1>2. PICK s \in {"succeeded", "failed"} : s = run[r].status /\ run[r].finished
  <2>1. run[r].status \in {"running", "succeeded", "failed"}
    BY DEF IInv, TypeOK
  <2>2. run[r].finished
    BY <1>1 DEF FinishSend, IInv, FramesOK
  <2> QED
    BY <2>1, <2>2 DEF IInv, Unsent
<1>3. /\ Runnable(f) /\ frame[f].pc = "send"
      /\ UNCHANGED <<program, outer, leaver, proc, lock, active, saved, disp, atexits, run,
                     spooled, sigterm,
                     caught>>
  BY DEF FinishSend, hooks
<1> DEFINE out == Delivered(r, s)
<1>4. PICK pc \in {"spool", "unregister_lock"} :
         /\ frame' = [frame EXCEPT ![f].pc = pc, ![f].status = s]
         /\ \/ pc = "spool" /\ UNCHANGED <<row, posted>>
            \/ /\ row' = [row EXCEPT ![r] = out.row]
               /\ posted' = [posted EXCEPT ![r] = out.posted]
               /\ pc = "unregister_lock" => out.ok
  BY <1>1, <1>2 DEF FinishSend
<1>5. /\ out.row \in {row[r], s} /\ out.posted \in {posted[r], posted[r] \union {s}}
      /\ out.row # row[r] => row[r] = "running"
      /\ out.ok => out.row = s \/ s \in out.posted
  BY DEF Delivered
<1> HIDE DEF out
<1>6. /\ row' \in [Runs -> {"none", "running", "succeeded", "failed"}]
      /\ posted' \in [Runs -> SUBSET {"succeeded", "failed"}]
      /\ spooled' \in [Runs -> SUBSET {"succeeded", "failed"}]
      /\ \A q \in Runs \ {r} : row'[q] = row[q] /\ posted'[q] = posted[q]
      /\ row'[r] \in {row[r], s} /\ (row'[r] # row[r] => row[r] = "running")
      /\ posted'[r] \in {posted[r], posted[r] \union {s}}
      /\ pc = "unregister_lock" => row'[r] = s \/ s \in posted'[r]
  <2>1. /\ row \in [Runs -> {"none", "running", "succeeded", "failed"}]
        /\ posted \in [Runs -> SUBSET {"succeeded", "failed"}]
        /\ spooled' \in [Runs -> SUBSET {"succeeded", "failed"}]
    BY <1>3 DEF IInv, TypeOK
  <2>2. CASE pc = "spool" /\ UNCHANGED <<row, posted>>
    BY <2>1, <2>2
  <2>3. CASE /\ row' = [row EXCEPT ![r] = out.row]
             /\ posted' = [posted EXCEPT ![r] = out.posted]
             /\ pc = "unregister_lock" => out.ok
    <3>1. /\ row'[r] = out.row /\ \A q \in Runs \ {r} : row'[q] = row[q]
          /\ posted'[r] = out.posted /\ \A q \in Runs \ {r} : posted'[q] = posted[q]
      BY <2>1, <2>3
    <3>2. /\ out.row \in {"none", "running", "succeeded", "failed"}
          /\ out.posted \in SUBSET {"succeeded", "failed"}
      BY <1>5, <2>1
    <3>3. /\ row' \in [Runs -> {"none", "running", "succeeded", "failed"}]
          /\ posted' \in [Runs -> SUBSET {"succeeded", "failed"}]
      BY <2>1, <2>3, <3>2
    <3> QED
      BY <1>5, <2>1, <2>3, <3>1, <3>3
  <2> QED
    BY <1>4, <2>2, <2>3
<1>7. /\ \A q \in Runs \ {r} : Outcomes(q)' = Outcomes(q)
      /\ Outcomes(r) \subseteq Outcomes(r)' /\ Outcomes(r)' \subseteq Outcomes(r) \union {s}
      /\ pc = "unregister_lock" => Outcomes(r)' # {}
  BY <1>3, <1>6 DEF Outcomes
<1>8. r \in caught["handler"] \intersect MainRuns => s = "failed"
  BY <1>2 DEF IInv, Killed
<1> QED
  BY <1>1, <1>2, <1>3, <1>4, <1>6, <1>7, <1>8, SentStep

-----------------------------------------------------------------------------
(* The handler and the exit callbacks.                                     *)

\* A step that sends nothing, and brings no frame to the assignment.
LEMMA StatusKept ==
    ASSUME IInv, UNCHANGED <<program, run>>, \A q : Outcomes(q)' = Outcomes(q),
           \A g \in Frames : frame'[g].pc \in {"set", "spool"} => frame'[g] = frame[g],
           frame'["handler"].pc = "off" => frame["handler"].pc = "off"
    PROVE  OneStatus'
<1> SUFFICES ASSUME program.original # "user", NEW m \in MainRuns
             PROVE  /\ Outcomes(m)' \subseteq {run'[m].status}
                    /\ \A g \in Frames : Of(g)' = m =>
                          /\ frame'[g].pc = "spool" => frame'[g].status = run'[m].status
                          /\ /\ frame'[g].pc = "set"
                             /\ g = "handler" \/ frame'["handler"].pc = "off"
                             => ~run'[m].finished
  BY DEF OneStatus
<1>1. /\ Outcomes(m) \subseteq {run[m].status}
      /\ \A g \in Frames : Of(g) = m =>
            /\ frame[g].pc = "spool" => frame[g].status = run[m].status
            /\ frame[g].pc = "set" /\ (g = "handler" \/ frame["handler"].pc = "off") =>
                  ~run[m].finished
  BY DEF IInv, OneStatus
<1>2. ASSUME NEW g \in Frames, Of(g)' = m
      PROVE  /\ frame'[g].pc = "spool" => frame'[g].status = run'[m].status
             /\ /\ frame'[g].pc = "set"
                /\ g = "handler" \/ frame'["handler"].pc = "off"
                => ~run'[m].finished
  <2>1. frame'[g].pc \in {"set", "spool"} => frame'[g] = frame[g] /\ Of(g) = m
    BY <1>2 DEF Of
  <2> QED
    BY <1>1, <2>1
<1> QED
  BY <1>1, <1>2

\* The next run on the list is taken in hand.
LEMMA NextToFinishStep ==
    ASSUME IInv, NEW f \in {"handler", "exit"}, NextToFinish(f)
    PROVE  IInv'
<1>1. PICK r \in frame[f].todo :
         /\ Runnable(f) /\ frame[f].pc = "loop"
         /\ frame' = [frame EXCEPT ![f].pc = "check", ![f].run = r, ![f].status = "failed",
                                   ![f].todo = @ \ {r}]
         /\ UNCHANGED <<program, outer, leaver, proc, lock, active, saved, disp, atexits,
                        run, row, posted,
                        spooled, sigterm, caught>>
  BY DEF NextToFinish, hooks, ledger
<1>2. /\ f \in Frames /\ f \notin Runs /\ "check" \in PCs
      /\ frame \in [Frames -> [pc : PCs, run : Runs \union {"none"},
                               status : {"running", "succeeded", "failed"},
                               todo : SUBSET Runs, previous : Dispositions]]
  BY Names DEF PCs, IInv, TypeOK
<1>3. r \in Runs
  BY <1>1, <1>2
<1>4. /\ frame' \in [Frames -> [pc : PCs, run : Runs \union {"none"},
                                status : {"running", "succeeded", "failed"},
                                todo : SUBSET Runs, previous : Dispositions]]
      /\ frame'[f].pc = "check" /\ frame'[f].run = r /\ frame'[f].status = "failed"
      /\ frame'[f].todo = frame[f].todo \ {r} /\ frame'[f].previous = frame[f].previous
      /\ \A g \in Frames \ {f} : frame'[g] = frame[g]
  <2> DEFINE v == [pc |-> "check", run |-> r, status |-> "failed",
                   todo |-> frame[f].todo \ {r}, previous |-> frame[f].previous]
  <2>1. frame' = [frame EXCEPT ![f] = v]
    BY <1>1, <1>2
  <2>2. v \in [pc : PCs, run : Runs \union {"none"},
               status : {"running", "succeeded", "failed"},
               todo : SUBSET Runs, previous : Dispositions]
    BY <1>2, <1>3
  <2>3. frame'[f] = v /\ \A g \in Frames \ {f} : frame'[g] = frame[g]
    BY <1>2, <2>1
  <2>4. frame' \in [Frames -> [pc : PCs, run : Runs \union {"none"},
                               status : {"running", "succeeded", "failed"},
                               todo : SUBSET Runs, previous : Dispositions]]
    BY <1>2, <2>1, <2>2
  <2> QED
    BY <2>3, <2>4
<1>5. /\ \A g \in Frames \ {f} : Of(g)' = Of(g)
      /\ \A q : Outcomes(q)' = Outcomes(q)
      /\ caught["handler"] \subseteq Runs /\ caught["exit"] \subseteq Runs
      /\ \A q \in Runs : frame'[q] = frame[q]
  BY <1>1, <1>2, <1>4, Names DEF Of, Outcomes, IInv, TypeOK
<1>6. TypeOK'
  BY <1>1, <1>2, <1>4 DEF IInv, TypeOK
<1>7. FramesOK'
  <2>1. /\ program \in Program
        /\ \A q \in Runs : /\ frame[q].run = q
                           /\ frame[q].pc \in StartPCs \union FinishPCs \union {"end"}
        /\ \A g \in {"handler", "exit"} :
              /\ frame[g].pc \in FinishPCs \union {"off", "loop"}
              /\ frame[g].pc \in FinishPCs => frame[g].run \in Runs
              /\ frame[g].pc \in {"check", "set"} => frame[g].status = "failed"
              /\ \A q \in caught[g] : frame[q].pc \in FinishPCs \union {"body", "end"}
        /\ \A g \in Frames :
              /\ frame[g].pc \in {"check", "set", "spool"} => frame[g].status # "running"
              /\ frame[g].pc \in {"send", "spool"} => run[Of(g)].finished
    BY DEF IInv, FramesOK
  <2>2. \A q \in Runs : /\ frame'[q].run = q
                        /\ frame'[q].pc \in StartPCs \union FinishPCs \union {"end"}
    BY <1>5, <2>1
  <2>3. ASSUME NEW g \in {"handler", "exit"}
        PROVE  /\ frame'[g].pc \in FinishPCs \union {"off", "loop"}
               /\ frame'[g].pc \in FinishPCs => frame'[g].run \in Runs
               /\ frame'[g].pc \in {"check", "set"} => frame'[g].status = "failed"
    <3>1. CASE g = f
      BY <1>3, <1>4, <3>1 DEF FinishPCs
    <3>2. CASE g # f
      BY <1>4, <2>1, <3>2, Names
    <3> QED
      BY <3>1, <3>2
  <2>4. \A g \in {"handler", "exit"} :
           \A q \in caught'[g] : frame'[q].pc \in FinishPCs \union {"body", "end"}
    <3>1. \A g \in {"handler", "exit"} : caught'[g] = caught[g] /\ caught[g] \subseteq Runs
      BY <1>1, <1>5
    <3> QED
      BY <1>5, <2>1, <3>1
  <2>5. ASSUME NEW g \in Frames
        PROVE  /\ frame'[g].pc \in {"check", "set", "spool"} => frame'[g].status # "running"
               /\ frame'[g].pc \in {"send", "spool"} => run'[Of(g)'].finished
    <3>1. CASE g = f
      BY <1>4, <3>1
    <3>2. CASE g # f
      BY <1>1, <1>4, <1>5, <2>1, <3>2
    <3> QED
      BY <3>1, <3>2
  <2>6. program' \in Program
    BY <1>1, <2>1
  <2> QED
    BY <2>2, <2>3, <2>4, <2>5, <2>6 DEF FramesOK
<1>8. Unsent'
  BY <1>1, <1>5 DEF IInv, Unsent
<1>9. Phases'
  BY <1>1, <1>2, <1>4, <1>5, Names, OnTop DEF IInv, Phases
<1>10. Chain'
  BY <1>1, <1>4, Names DEF IInv, Chain
<1>11. Duty'
  <2>1. ASSUME NEW q \in Runs, NEW g \in {"handler", "exit"}
        PROVE  /\ Owed(q)' <=> Owed(q)
               /\ Awaits(g, q) => Awaits(g, q)'
               /\ Sending(g, q) => Sending(g, q)'
    <3>1. Owed(q)' <=> Owed(q)
      BY <1>5 DEF Owed
    <3>2. Awaits(g, q) => Awaits(g, q)'
      BY <1>1, <1>4, <1>5, Names DEF Awaits, Of
    <3>3. Sending(g, q) => Sending(g, q)'
      BY <1>1, <1>4, <1>5, Names DEF Sending
    <3> QED
      BY <3>1, <3>2, <3>3
  <2>2. frame["handler"].pc # "off" => frame'["handler"].pc # "off"
    BY <1>4, Names
  <2> QED
    BY <1>1, <1>5, <2>1, <2>2 DEF IInv, Duty
<1>12. Killed'
  BY <1>1, <1>4, <1>5, Names DEF IInv, Killed
<1>13. OneStatus'
  <2>1. /\ \A g \in Frames : frame'[g].pc \in {"set", "spool"} => frame'[g] = frame[g]
        /\ frame'["handler"].pc = "off" => frame["handler"].pc = "off"
    BY <1>4, Names
  <2> QED
    BY <1>1, <1>5, <2>1, StatusKept
<1> QED
  BY <1>6, <1>7, <1>8, <1>9, <1>10, <1>11, <1>12, <1>13 DEF IInv

\* The list is through: what the handler caught is on record.
LEMMA HandlerThrough ==
    ASSUME IInv, frame["handler"].pc \in {"off", "loop"}, frame["handler"].todo = {}
    PROVE  \A r \in caught["handler"] : Owed(r) => Outcomes(r) # {}
  BY DEF IInv, Duty, Sending, Awaits

LEMMA ChainToDeathStep ==
    ASSUME IInv, ChainToDeath
    PROVE  IInv'
<1>1. /\ frame["handler"].pc = "loop" /\ frame["handler"].todo = {}
      /\ disp' = "default" /\ proc' = "killed"
      /\ UNCHANGED <<program, outer, leaver, frame, lock, active, saved, atexits, run, row,
                     posted, spooled,
                     sigterm, caught>>
  BY DEF ChainToDeath, ledger
<1>2. \A q : Outcomes(q)' = Outcomes(q) /\ (Owed(q)' <=> Owed(q))
  BY <1>1 DEF Outcomes, Owed
<1>3. TypeOK'
  BY <1>1 DEF IInv, TypeOK, Dispositions
<1>4. FramesOK'
  BY <1>1 DEF IInv, FramesOK, Of
<1>5. Unsent' /\ Phases' /\ Chain'
  BY <1>1, <1>2 DEF IInv, Unsent, Phases, Chain
<1>6. Duty'
  BY <1>1, <1>2 DEF IInv, Duty, Sending, Awaits, Of
<1>7. Killed' /\ OneStatus'
  BY <1>1, <1>2 DEF IInv, Killed, OneStatus, Of
<1> QED
  BY <1>3, <1>4, <1>5, <1>6, <1>7 DEF IInv

LEMMA ExitEndsStep ==
    ASSUME IInv, ExitEnds
    PROVE  IInv'
<1>1. /\ Runnable("exit") /\ frame["exit"].pc = "loop" /\ frame["exit"].todo = {}
      /\ proc' = "exited"
      /\ UNCHANGED <<program, outer, leaver, frame, lock, active, saved, disp, atexits, run,
                     row, posted,
                     spooled, sigterm, caught>>
  BY DEF ExitEnds, hooks, ledger
<1>2. /\ \A q : Outcomes(q)' = Outcomes(q) /\ (Owed(q)' <=> Owed(q))
      /\ frame["handler"].pc = "off" /\ proc = "exiting"
  BY <1>1, OnTop DEF Outcomes, Owed, IInv, Phases
<1>3. TypeOK'
  BY <1>1 DEF IInv, TypeOK
<1>4. FramesOK'
  BY <1>1 DEF IInv, FramesOK, Of
<1>5. Unsent' /\ Phases' /\ Chain'
  BY <1>1, <1>2 DEF IInv, Unsent, Phases, Chain
<1>6. Duty'
  BY <1>1, <1>2 DEF IInv, Duty, Sending, Awaits, Of
<1>7. Killed' /\ OneStatus'
  BY <1>1, <1>2 DEF IInv, Killed, OneStatus, Of
<1> QED
  BY <1>3, <1>4, <1>5, <1>6, <1>7 DEF IInv

\* The exit callbacks begin when the main thread's runs are over.
LEMMA ExitBeginsStep ==
    ASSUME IInv, ExitBegins
    PROVE  IInv'
<1>1. /\ proc = "alive" /\ frame["handler"].pc = "off"
      /\ \A m \in MainRuns : frame[m].pc \in {"idle", "end"}
      /\ proc' = "exiting"
      /\ frame' = [frame EXCEPT !["exit"].pc = "loop", !["exit"].todo = atexits]
      /\ caught' = [caught EXCEPT !["exit"] = InBlock(atexits)]
      /\ UNCHANGED <<program, outer, leaver, lock, active, saved, disp, atexits, run, row,
                     posted, spooled,
                     sigterm>>
  BY DEF ExitBegins, hooks, ledger
<1>2. /\ frame["exit"].pc = "off" /\ "loop" \in PCs /\ atexits \subseteq Runs
      /\ caught \in [{"handler", "exit"} -> SUBSET Runs]
      /\ frame \in [Frames -> [pc : PCs, run : Runs \union {"none"},
                               status : {"running", "succeeded", "failed"},
                               todo : SUBSET Runs, previous : Dispositions]]
  BY <1>1 DEF IInv, TypeOK, Phases, PCs
<1>3. /\ frame' \in [Frames -> [pc : PCs, run : Runs \union {"none"},
                                status : {"running", "succeeded", "failed"},
                                todo : SUBSET Runs, previous : Dispositions]]
      /\ frame'["exit"].pc = "loop" /\ frame'["exit"].todo = atexits
      /\ \A g \in Frames \ {"exit"} : frame'[g] = frame[g]
  <2>1. frame["exit"] \in [pc : PCs, run : Runs \union {"none"},
                           status : {"running", "succeeded", "failed"},
                           todo : SUBSET Runs, previous : Dispositions]
    BY <1>2, Names
  <2> PICK v : v = [frame["exit"] EXCEPT !.pc = "loop", !.todo = atexits]
    OBVIOUS
  <2>2. /\ v \in [pc : PCs, run : Runs \union {"none"},
                  status : {"running", "succeeded", "failed"},
                  todo : SUBSET Runs, previous : Dispositions]
        /\ v.pc = "loop" /\ v.todo = atexits
    BY <1>2, <2>1, FrameUpdated
  <2>v. frame' = [frame EXCEPT !["exit"] = v]
    BY <1>1, <1>2, Zenon
  <2>3. frame'["exit"] = v /\ \A g \in Frames \ {"exit"} : frame'[g] = frame[g]
    BY <1>2, <2>v, Names
  <2>4. frame' \in [Frames -> [pc : PCs, run : Runs \union {"none"},
                               status : {"running", "succeeded", "failed"},
                               todo : SUBSET Runs, previous : Dispositions]]
    BY <1>2, <2>v, <2>2
  <2> QED
    BY <2>2, <2>3, <2>4
<1>4. /\ caught'["handler"] = caught["handler"]
      /\ caught'["exit"] \subseteq Runs \ MainRuns
      /\ \A r \in caught'["exit"] : r \in atexits /\ frame[r].pc = "body" /\ ~run[r].finished
      /\ caught' \in [{"handler", "exit"} -> SUBSET Runs]
  BY <1>1, <1>2 DEF InBlock
<1>5. /\ \A g \in Frames \ {"exit"} : Of(g)' = Of(g)
      /\ \A q : Outcomes(q)' = Outcomes(q)
      /\ \A q \in Runs : frame'[q] = frame[q]
      /\ frame'["handler"] = frame["handler"]
  BY <1>1, <1>3, Names DEF Of, Outcomes
<1>6. TypeOK'
  BY <1>1, <1>2, <1>3, <1>4, Names DEF IInv, TypeOK
<1>7. FramesOK'
  BY <1>1, <1>3, <1>4, <1>5, Names DEF IInv, FramesOK, FinishPCs
<1>8. Unsent'
  BY <1>1, <1>5 DEF IInv, Unsent
<1>9. Phases'
  BY <1>1, <1>3, <1>4, <1>5, Names DEF IInv, Phases
<1>10. Chain'
  BY <1>1, <1>5 DEF IInv, Chain
<1>11. Duty'
  <2>1. \A r \in caught'["exit"] : Awaits("exit", r)' /\ ~run'[r].finished
    BY <1>1, <1>3, <1>4 DEF Awaits
  <2>2. \A r \in caught["handler"] : Owed(r)' => Outcomes(r)' # {}
    BY <1>1, <1>2, <1>5 DEF IInv, Duty, Owed, Sending
  <2> QED
    BY <1>4, <2>1, <2>2 DEF Duty
<1>12. Killed'
  BY <1>1, <1>2, <1>3, <1>4, <1>5, Names DEF IInv, Killed
<1>13. OneStatus'
  <2>1. \A g \in Frames : frame'[g].pc \in {"set", "spool"} => frame'[g] = frame[g]
    BY <1>3
  <2> QED
    BY <1>1, <1>5, <2>1, StatusKept
<1> QED
  BY <1>6, <1>7, <1>8, <1>9, <1>10, <1>11, <1>12, <1>13 DEF IInv

\* The signal: the shared handler takes the main thread, or the process dies,
\* or nothing happens.
LEMMA SigtermStep ==
    ASSUME IInv, Sigterm
    PROVE  IInv'
<1>1. /\ proc \in {"alive", "exiting"} /\ sigterm = "none" /\ sigterm' \in {"clean", "locked"}
      /\ UNCHANGED <<program, outer, leaver, lock, active, saved, disp, atexits, run, row,
                     posted, spooled>>
  BY DEF Sigterm, hooks, ledger
<1>2. /\ frame["handler"].pc = "off" /\ caught["handler"] = {}
      /\ \A q : Outcomes(q)' = Outcomes(q)
      /\ caught \in [{"handler", "exit"} -> SUBSET Runs]
  BY <1>1 DEF IInv, Phases, Outcomes, TypeOK
<1>3. CASE disp = "ours"
  <2> DEFINE v == [pc |-> "loop", run |-> "none", status |-> "failed", todo |-> active,
                   previous |-> saved]
  <2>1. /\ frame' = [frame EXCEPT !["handler"] = v]
        /\ caught' = [caught EXCEPT !["handler"] = InBlock(active)]
        /\ proc' = proc
    BY <1>3 DEF Sigterm
  <2>2. /\ frame \in [Frames -> [pc : PCs, run : Runs \union {"none"},
                                 status : {"running", "succeeded", "failed"},
                                 todo : SUBSET Runs, previous : Dispositions]]
        /\ v \in [pc : PCs, run : Runs \union {"none"},
                  status : {"running", "succeeded", "failed"},
                  todo : SUBSET Runs, previous : Dispositions]
    BY DEF IInv, TypeOK, PCs
  <2>3. frame'["handler"] = v /\ \A g \in Frames \ {"handler"} : frame'[g] = frame[g]
    BY <2>1, <2>2, Names
  <2>4. frame' \in [Frames -> [pc : PCs, run : Runs \union {"none"},
                               status : {"running", "succeeded", "failed"},
                               todo : SUBSET Runs, previous : Dispositions]]
    BY <2>1, <2>2
  <2>5. /\ frame'["handler"].pc = "loop" /\ frame'["handler"].todo = active
        /\ frame'["handler"].previous = saved
    BY <2>3
  <2> HIDE DEF v
  <2>6. /\ caught'["exit"] = caught["exit"]
        /\ \A r \in caught'["handler"] :
              r \in active /\ r \in Runs /\ frame[r].pc = "body" /\ ~run[r].finished
        /\ caught' \in [{"handler", "exit"} -> SUBSET Runs]
    BY <1>2, <2>1 DEF InBlock, IInv, TypeOK
  <2>7. /\ \A g \in Frames \ {"handler"} : Of(g)' = Of(g)
        /\ \A q \in Runs : frame'[q] = frame[q]
        /\ frame'["exit"] = frame["exit"]
        /\ saved = program.original
    <3>1. program.original # "ours"
      BY DEF IInv, FramesOK, Program
    <3> QED
      BY <1>1, <1>3, <2>3, <3>1, Names DEF Of, IInv, Chain
  <2>8. TypeOK'
    BY <1>1, <1>2, <2>1, <2>3, <2>4, <2>5, <2>6, Names DEF IInv, TypeOK
  <2>9. FramesOK'
    <3>1. \A g \in Frames : /\ frame'[g].pc \in {"check", "set", "spool"} => frame'[g].status # "running"
                            /\ frame'[g].pc \in {"send", "spool"} => run[Of(g)].finished /\ Of(g)' = Of(g)
      BY <2>3, <2>5, <2>7 DEF IInv, FramesOK
    <3> QED
      BY <1>1, <2>5, <2>6, <2>7, <3>1, Names DEF IInv, FramesOK, FinishPCs
  <2>10. Unsent' /\ Chain'
    BY <1>1, <1>2, <2>1, <2>5, <2>7 DEF IInv, Unsent, Chain
  <2>11. Phases'
    BY <1>1, <2>1, <2>5, <2>6, <2>7, Names DEF IInv, Phases
  <2>12. Duty'
    <3>1. \A r \in caught'["handler"] :
             frame'["handler"].pc # "off" /\ Awaits("handler", r)' /\ ~run'[r].finished
      BY <1>1, <2>5, <2>6 DEF Awaits
    <3>2. ASSUME NEW r \in caught["exit"], Owed(r)'
          PROVE  \/ Outcomes(r)' # {} \/ Sending("exit", r)'
                 \/ Awaits("exit", r)' /\ ~run'[r].finished
      <4>1. r \in Runs /\ Owed(r)
        BY <1>2, <2>7, <3>2 DEF Owed
      <4>2. \/ Outcomes(r) # {} \/ Sending("exit", r)
            \/ Awaits("exit", r) /\ ~run[r].finished
        BY <1>2, <4>1 DEF IInv, Duty, Sending
      <4>3. (Sending("exit", r)' <=> Sending("exit", r)) /\ (Awaits("exit", r)' <=> Awaits("exit", r))
        BY <2>7, Names DEF Sending, Awaits, Of
      <4> QED
        BY <1>1, <1>2, <4>2, <4>3
    <3> QED
      BY <2>6, <3>1, <3>2 DEF Duty
  <2>13. Killed'
    <3> SUFFICES ASSUME NEW q \in caught'["handler"] \intersect MainRuns
                 PROVE  /\ frame'[q].pc \in {"body", "check", "end"}
                        /\ run'[q].finished => run'[q].status = "failed"
                        /\ Outcomes(q)' \subseteq {"failed"}
                        /\ \A g \in {"handler", "exit"} :
                              frame'[g].pc = "spool" /\ Of(g)' = q => frame'[g].status = "failed"
      BY DEF Killed
    <3>1. frame'[q].pc = "body" /\ ~run[q].finished /\ q \in Runs
      BY <2>6, <2>7
    <3>2. Outcomes(q) = {}
      BY <3>1 DEF IInv, Unsent
    <3>3. frame["exit"].pc = "spool" => Of("exit") # q
      BY <3>1, Names DEF IInv, FramesOK
    <3> QED
      BY <1>1, <1>2, <2>5, <2>7, <3>1, <3>2, <3>3, Names
  <2>14. OneStatus'
    <3>1. \A g \in Frames : frame'[g].pc \in {"set", "spool"} => frame'[g] = frame[g]
      BY <2>3, <2>5
    <3> QED
      BY <1>1, <1>2, <2>5, <3>1, StatusKept
  <2> QED
    BY <2>8, <2>9, <2>10, <2>11, <2>12, <2>13, <2>14 DEF IInv
<1>4. CASE disp # "ours"
  <2>1. /\ UNCHANGED <<frame, caught, outer, leaver>> /\ proc' \in {proc, "killed"}
    BY <1>4 DEF Sigterm
  <2>2. \A q : Outcomes(q)' = Outcomes(q) /\ (Owed(q)' <=> Owed(q))
    BY <1>1, <2>1 DEF Outcomes, Owed
  <2>3. TypeOK'
    BY <1>1, <2>1 DEF IInv, TypeOK
  <2>4. FramesOK'
    BY <1>1, <2>1 DEF IInv, FramesOK, Of
  <2>5. Unsent' /\ Phases' /\ Chain'
    BY <1>1, <1>2, <2>1, <2>2 DEF IInv, Unsent, Phases, Chain
  <2>6. Duty'
    BY <1>1, <2>1, <2>2 DEF IInv, Duty, Sending, Awaits, Of
  <2>7. Killed' /\ OneStatus'
    BY <1>1, <2>1, <2>2 DEF IInv, Killed, OneStatus, Of
  <2> QED
    BY <2>3, <2>4, <2>5, <2>6, <2>7 DEF IInv
<1> QED
  BY <1>3, <1>4

\* The program's own handler returns, or unwinds the main thread.
LEMMA ChainToUserStep ==
    ASSUME IInv, ChainToUser
    PROVE  IInv'
<1>1. /\ Runnable("handler") /\ frame["handler"].pc = "loop" /\ frame["handler"].todo = {}
      /\ frame["handler"].previous = "user"
      /\ UNCHANGED <<program, outer, leaver, proc, active, saved, disp, atexits, run, row,
                     posted, spooled,
                     sigterm, caught>>
  BY DEF ChainToUser, ledger
<1>2. /\ program.original = "user"
      /\ \A q : Outcomes(q)' = Outcomes(q)
      /\ \A r \in caught["handler"] : Owed(r) => Outcomes(r) # {}
      /\ caught["handler"] \subseteq Runs /\ caught["exit"] \subseteq Runs
      /\ proc \in {"alive", "exiting"}
  BY <1>1, HandlerThrough, OnTop DEF IInv, Chain, Outcomes, TypeOK
<1>3. OneStatus'
  BY <1>1, <1>2 DEF OneStatus
<1>4. Unsent'
  BY <1>1, <1>2 DEF IInv, Unsent
<1>5. CASE Goto("handler", "off") /\ UNCHANGED lock
  <2>1. /\ frame' \in [Frames -> [pc : PCs, run : Runs \union {"none"},
                                  status : {"running", "succeeded", "failed"},
                                  todo : SUBSET Runs, previous : Dispositions]]
        /\ frame'["handler"].pc = "off"
        /\ \A g \in Frames \ {"handler"} : frame'[g].pc = frame[g].pc
        /\ \A g \in Frames : /\ frame'[g].run = frame[g].run
                             /\ frame'[g].status = frame[g].status
                             /\ frame'[g].todo = frame[g].todo
                             /\ frame'[g].previous = frame[g].previous
    <3>1. "off" \in PCs
      BY DEF PCs
    <3> QED
      BY <1>5, <3>1, Names, Moved DEF IInv
  <2>2. /\ \A g \in Frames : Of(g)' = Of(g)
        /\ \A q \in Runs : frame'[q].pc = frame[q].pc
    BY <2>1, Names DEF Of
  <2>3. TypeOK'
    BY <1>1, <1>5, <2>1, Names DEF IInv, TypeOK
  <2>4. FramesOK'
    BY <1>1, <1>2, <2>1, <2>2, Names DEF IInv, FramesOK, FinishPCs
  <2>5. Phases'
    BY <1>1, <1>2, <2>1, <2>2, Names DEF IInv, Phases
  <2>6. Chain'
    BY <1>1, <2>1 DEF IInv, Chain
  <2>7. Duty'
    <3>1. \A q \in Runs : Owed(q)' <=> Owed(q)
      BY <2>2 DEF Owed
    <3>2. \A q \in Runs : ~Sending("handler", q)
      BY <1>1 DEF Sending
    <3>3. \A q \in Runs : /\ Sending("exit", q)' <=> Sending("exit", q)
                          /\ Awaits("exit", q)' <=> Awaits("exit", q)
      BY <2>1, <2>2, Names DEF Sending, Awaits
    <3> QED
      BY <1>1, <1>2, <3>1, <3>2, <3>3 DEF IInv, Duty
  <2>8. Killed'
    BY <1>1, <1>2, <2>1, <2>2, Names DEF IInv, Killed
  <2> QED
    BY <1>3, <1>4, <2>3, <2>4, <2>5, <2>6, <2>7, <2>8 DEF IInv
<1>6. CASE /\ proc = "alive"
           /\ frame' = [f \in Frames |->
                  IF f = "handler" THEN [frame[f] EXCEPT !.pc = "off"]
                  ELSE IF f \in MainRuns
                  THEN [frame[f] EXCEPT !.pc = Unwound(@), !.status = "failed"]
                  ELSE frame[f]]
           /\ lock' = IF MainHoldsLock THEN "free" ELSE lock
  <2>1. /\ \A m \in MainRuns : Unwound(frame[m].pc) \in {"check", "unregister_lock", "idle", "end"}
        /\ \A m \in MainRuns : frame[m].pc \in {"body", "check", "end"} =>
                 Unwound(frame[m].pc) \in {"check", "end"}
        /\ \A m \in MainRuns : Unwound(frame[m].pc) = "idle" => frame[m].pc = "idle"
        /\ {"off", "check", "unregister_lock", "idle", "end"} \subseteq PCs
    BY DEF Unwound, PCs
  <2>2. /\ frame \in [Frames -> [pc : PCs, run : Runs \union {"none"},
                                 status : {"running", "succeeded", "failed"},
                                 todo : SUBSET Runs, previous : Dispositions]]
        /\ frame["exit"].pc = "off"
    BY <1>6 DEF IInv, TypeOK, Phases
  <2>3. /\ frame'["handler"] = [frame["handler"] EXCEPT !.pc = "off"]
        /\ \A m \in MainRuns :
              frame'[m] = [frame[m] EXCEPT !.pc = Unwound(frame[m].pc), !.status = "failed"]
        /\ \A g \in Frames \ (MainRuns \union {"handler"}) : frame'[g] = frame[g]
    BY <1>6, Names
  <2>4. /\ frame'["handler"].pc = "off"
        /\ \A m \in MainRuns : frame'[m].pc = Unwound(frame[m].pc) /\ frame'[m].status = "failed"
        /\ \A g \in Frames : frame'[g].run = frame[g].run
        /\ \A g \in Frames \ (MainRuns \union {"handler"}) : frame'[g] = frame[g]
        /\ \A g \in Frames :
              frame'[g] \in [pc : PCs, run : Runs \union {"none"},
                             status : {"running", "succeeded", "failed"},
                             todo : SUBSET Runs, previous : Dispositions]
    <3>1. \A g \in Frames : frame[g] \in [pc : PCs, run : Runs \union {"none"},
                                         status : {"running", "succeeded", "failed"},
                                         todo : SUBSET Runs, previous : Dispositions]
      BY <2>2
    <3>2. /\ frame'["handler"].pc = "off" /\ frame'["handler"].run = frame["handler"].run
          /\ frame'["handler"] \in [pc : PCs, run : Runs \union {"none"},
                                    status : {"running", "succeeded", "failed"},
                                    todo : SUBSET Runs, previous : Dispositions]
      BY <2>1, <2>3, <3>1, Names
    <3>3. ASSUME NEW m \in MainRuns
          PROVE  /\ frame'[m].pc = Unwound(frame[m].pc) /\ frame'[m].status = "failed"
                 /\ frame'[m].run = frame[m].run
                 /\ frame'[m] \in [pc : PCs, run : Runs \union {"none"},
                                   status : {"running", "succeeded", "failed"},
                                   todo : SUBSET Runs, previous : Dispositions]
      <4>1. Unwound(frame[m].pc) \in PCs /\ m \in Frames
        BY <2>1, Names
      <4>2. PICK pc \in PCs : pc = Unwound(frame[m].pc)
        BY <4>1
      <4>3. frame'[m] = [frame[m] EXCEPT !.pc = pc, !.status = "failed"]
        BY <2>3, <4>2, Zenon
      <4>4. PICK fr : fr = frame[m]
        OBVIOUS
      <4>5. /\ fr \in [pc : PCs, run : Runs \union {"none"},
                       status : {"running", "succeeded", "failed"},
                       todo : SUBSET Runs, previous : Dispositions]
            /\ {} \in SUBSET Runs
        BY <3>1, <4>1, <4>4
      <4>6. PICK v : v = [fr EXCEPT !.pc = pc, !.status = "failed"]
        OBVIOUS
      <4>7. /\ v \in [pc : PCs, run : Runs \union {"none"},
                      status : {"running", "succeeded", "failed"},
                      todo : SUBSET Runs, previous : Dispositions]
            /\ v.pc = pc /\ v.status = "failed" /\ v.run = fr.run
        BY <4>5, <4>6, FrameUpdated
      <4>8. frame'[m] = v
        BY <4>3, <4>4, <4>6, Zenon
      <4> QED
        BY <4>2, <4>4, <4>7, <4>8
    <3> QED
      BY <2>3, <3>1, <3>2, <3>3
  <2>5. frame' \in [Frames -> [pc : PCs, run : Runs \union {"none"},
                               status : {"running", "succeeded", "failed"},
                               todo : SUBSET Runs, previous : Dispositions]]
    BY <1>6, <2>4
  <2>6. \A g \in Frames : Of(g)' = Of(g)
    BY <2>4 DEF Of
  <2>7. TypeOK'
    <3>1. /\ \A g \in Frames : lock = g <=> frame[g].pc \in LockedPCs
          /\ lock \in Frames \union {"free"}
      BY DEF IInv, TypeOK, LockedPCs
    <3>2. lock # "handler" /\ lock # "exit"
      BY <1>1, <2>2, <3>1, Names DEF LockedPCs
    <3>3. lock' = IF lock \in MainRuns THEN "free" ELSE lock
      BY <1>6, <3>1, <3>2, Names DEF MainHoldsLock, OnMain
    <3>4. \A g \in Frames : lock' = g <=> frame'[g].pc \in LockedPCs
      BY <2>1, <2>4, <3>1, <3>2, <3>3, Names DEF LockedPCs
    <3>5. lock' \in Frames \union {"free"}
      BY <3>1, <3>3
    <3> QED
      BY <1>1, <2>5, <3>4, <3>5 DEF IInv, TypeOK, LockedPCs
  <2>8. FramesOK'
    <3>1. \A r \in Runs : /\ frame'[r].run = r
                          /\ frame'[r].pc \in StartPCs \union FinishPCs \union {"end"}
      BY <2>1, <2>4, Names DEF IInv, FramesOK, StartPCs, FinishPCs
    <3>2. \A f \in {"handler", "exit"} :
             /\ frame'[f].pc \in FinishPCs \union {"off", "loop"}
             /\ frame'[f].pc \in FinishPCs => frame'[f].run \in Runs
             /\ frame'[f].pc \in {"check", "set"} => frame'[f].status = "failed"
      BY <2>2, <2>4, Names DEF FinishPCs
    <3>3. ASSUME NEW f \in {"handler", "exit"}, NEW r \in caught[f]
          PROVE  frame'[r].pc \in FinishPCs \union {"body", "end"}
      <4>1. r \in Runs /\ frame[r].pc \in FinishPCs \union {"body", "end"}
        BY <1>2 DEF IInv, FramesOK
      <4> QED
        BY <2>1, <2>4, <4>1, Names DEF FinishPCs
    <3>4. \A f \in Frames :
             /\ frame'[f].pc \in {"check", "set", "spool"} => frame'[f].status # "running"
             /\ frame'[f].pc \in {"send", "spool"} => run[Of(f)].finished
      BY <2>1, <2>4 DEF IInv, FramesOK
    <3>5. program \in Program
      BY DEF IInv, FramesOK
    <3> QED
      BY <1>1, <2>6, <3>1, <3>2, <3>3, <3>4, <3>5 DEF FramesOK
  <2>9. Phases'
    BY <1>1, <1>6, <2>2, <2>4, Names DEF IInv, Phases
  <2>10. Chain'
    BY <1>1, <2>4 DEF IInv, Chain
  <2>11. Duty'
    <3>1. \A q \in Runs : Owed(q)' => Owed(q)
      BY <2>4, Names DEF Owed
    <3>2. \A q \in Runs : ~Sending("handler", q)
      BY <1>1 DEF Sending
    <3>3. \A q \in Runs : /\ Sending("exit", q)' <=> Sending("exit", q)
                          /\ Awaits("exit", q)' <=> Awaits("exit", q)
      BY <2>4, <2>6, Names DEF Sending, Awaits
    <3> QED
      BY <1>1, <1>2, <3>1, <3>2, <3>3 DEF IInv, Duty
  <2>12. Killed'
    <3> SUFFICES ASSUME NEW q \in caught["handler"] \intersect MainRuns
                 PROVE  /\ frame'[q].pc \in {"body", "check", "end"}
                        /\ run'[q].finished => run'[q].status = "failed"
                        /\ Outcomes(q)' \subseteq {"failed"}
                        /\ \A g \in {"handler", "exit"} :
                              frame'[g].pc = "spool" /\ Of(g)' = q => frame'[g].status = "failed"
      BY <1>1 DEF Killed
    <3>1. /\ frame[q].pc \in {"body", "check", "end"}
          /\ run[q].finished => run[q].status = "failed"
          /\ Outcomes(q) \subseteq {"failed"}
      BY DEF IInv, Killed
    <3>2. frame'["exit"].pc = "off"
      BY <2>2, <2>4, Names
    <3> QED
      BY <1>1, <1>2, <2>1, <2>4, <3>1, <3>2
  <2> QED
    BY <1>3, <1>4, <2>7, <2>8, <2>9, <2>10, <2>11, <2>12 DEF IInv
<1> QED
  BY <1>5, <1>6 DEF ChainToUser

-----------------------------------------------------------------------------
(* The theorems.                                                           *)

\* The process starts with no run, no handler and nothing on record.
LEMMA InitIInv == Init => IInv
<1> SUFFICES ASSUME Init PROVE IInv
  OBVIOUS
<1>1. /\ \A f \in Frames : frame[f].pc \in {"idle", "off"} /\ frame[f].status = "running"
      /\ \A r \in Runs : frame[r].pc = "idle" /\ frame[r].run = r
      /\ frame["handler"].pc = "off" /\ frame["exit"].pc = "off"
      /\ caught["handler"] = {} /\ caught["exit"] = {}
      /\ program \in Program
  BY Names, HooksAssumption DEF Init
<1>2. program.original \in {"default", "ignore", "user"}
  BY <1>1 DEF Program
<1>3. frame \in [Frames -> [pc : PCs, run : Runs \union {"none"},
                            status : {"running", "succeeded", "failed"},
                            todo : SUBSET Runs, previous : Dispositions]]
  BY DEF Init, PCs, Dispositions
<1>4. TypeOK
  BY <1>1, <1>2, <1>3, Names DEF Init, TypeOK, Dispositions
<1>5. FramesOK
  BY <1>1, Names DEF FramesOK, StartPCs, FinishPCs
<1>6. \A r \in Runs : Outcomes(r) = {} /\ ~run[r].finished
  BY DEF Init, Outcomes
<1>7. Unsent /\ Phases /\ Chain /\ Duty /\ Killed
  BY <1>1, <1>6 DEF Init, Unsent, Phases, Chain, Duty, Killed
<1>8. OneStatus
  BY <1>1, <1>6, Names DEF OneStatus
<1> QED
  BY <1>4, <1>5, <1>7, <1>8 DEF IInv

\* Every step keeps the invariant.
LEMMA NextIInv == IInv /\ [Next]_vars => IInv'
<1> SUFFICES ASSUME IInv, [Next]_vars PROVE IInv'
  OBVIOUS
<1>1. ASSUME NEW r \in Runs, Start(r) \/ BodyEnds(r) PROVE IInv'
  BY <1>1, StartStep, BodyEndsStep
<1>2. ASSUME NEW f \in Frames, Step(f) PROVE IInv'
  <2>1. CASE f \in Runs /\ (Register(f) \/ Registered(f) \/ StartPost(f) \/ StartReply(f))
    BY <2>1, RegisterStep, RegisteredStep, StartingStep
  <2>2. CASE Acquire(f)
    BY <2>2, AcquireStep
  <2>3. CASE Finish(f)
    BY <2>3, FinishCheckStep, FinishSetStep, FinishSendStep, FinishSpoolStep, UnregisterStep,
       UnregisteredStep DEF Finish
  <2>4. CASE f \in {"handler", "exit"} /\ NextToFinish(f)
    BY <2>4, NextToFinishStep
  <2>5. CASE f = "handler" /\ (ChainToUser \/ ChainToDeath)
    BY <2>5, ChainToUserStep, ChainToDeathStep
  <2>6. CASE f = "exit" /\ ExitEnds
    BY <2>6, ExitEndsStep
  <2> QED
    BY <1>2, <2>1, <2>2, <2>3, <2>4, <2>5, <2>6 DEF Step
<1>3. CASE Sigterm
  BY <1>3, SigtermStep
<1>4. CASE ExitBegins
  BY <1>4, ExitBeginsStep
<1>5. CASE UNCHANGED vars
  <2>1. /\ TypeOK' <=> TypeOK
        /\ FramesOK' <=> FramesOK
        /\ Unsent' <=> Unsent
        /\ Phases' <=> Phases
        /\ Chain' <=> Chain
    BY <1>5 DEF vars, TypeOK, FramesOK, Unsent, Phases, Chain, Outcomes, Of
  <2>2. Duty' <=> Duty
    BY <1>5 DEF vars, Duty, Owed, Sending, Awaits, Outcomes, Of
  <2>3. /\ Killed' <=> Killed
        /\ OneStatus' <=> OneStatus
    BY <1>5 DEF vars, Killed, OneStatus, Outcomes, Of
  <2> QED
    BY <2>1, <2>2, <2>3 DEF IInv
<1> QED
  BY <1>1, <1>2, <1>3, <1>4, <1>5 DEF Next

\* However the threads, the signal, the exit and a lossy network interleave, the invariant
\* holds throughout.
THEOREM HooksInvariant == Spec => []IInv
  BY InitIInv, NextIInv, PTL DEF Spec

\* Frames, bookkeeping and ledger have their types, and _hooks_lock is held by exactly the
\* frame inside the with statement that takes it.
THEOREM HooksTypeCorrect == Spec => []TypeOK
<1>1. IInv => TypeOK
  BY DEF IInv
<1> QED
  BY <1>1, HooksInvariant, PTL

\* _register_hooks and _unregister_hooks never lose the program's own SIGTERM disposition,
\* whether with-blocks nest, follow each other or run on workers: it is installed, or saved
\* behind the shared handler, and installed again once no run is active, unless a worker was
\* the last to leave.
THEOREM DispositionKept == Spec => []ChainIntact
<1>1. IInv => ChainIntact
  BY DEF IInv, Chain, ChainIntact
<1> QED
  BY <1>1, HooksInvariant, PTL

\* A run caught in its with-block by the SIGTERM handler, or by the exit callbacks, has an
\* outcome in the ledger or in the spool once the process is gone.
THEOREM CaughtAreRecorded == Spec => []CaughtRecorded
<1>1. IInv => CaughtRecorded
  <2> SUFFICES ASSUME IInv PROVE CaughtRecorded
    OBVIOUS
  <2>1. proc = "killed" => \A r \in caught["handler"] : Owed(r) => Outcomes(r) # {}
    BY HandlerThrough DEF IInv, Phases
  <2>2. ASSUME proc = "exited", NEW f \in {"handler", "exit"}, NEW r \in caught[f], Owed(r)
        PROVE  Outcomes(r) # {}
    BY <2>2 DEF IInv, Phases, Duty, Sending, Awaits
  <2> QED
    BY <2>1, <2>2 DEF CaughtRecorded
<1> QED
  BY <1>1, HooksInvariant, PTL

\* A main-thread run the SIGTERM handler caught is recorded as failed or not at all: neither
\* its with-block, resumed or unwound, nor atexit makes it anything else.
THEOREM KillStands == Spec => []KillWins
<1>1. IInv => KillWins
  BY DEF IInv, Killed, KillWins
<1> QED
  BY <1>1, HooksInvariant, PTL

\* Without a SIGTERM handler of the program's own, with-block, handler and atexit together put
\* at most one outcome of a main-thread run on record, whatever the network loses.
THEOREM OneOutcome == Spec => []OutcomesAgree
<1>1. IInv => OutcomesAgree
  <2> SUFFICES ASSUME IInv, program.original # "user", NEW m \in MainRuns
               PROVE  Cardinality(Outcomes(m)) <= 1
    BY DEF OutcomesAgree
  <2>1. Outcomes(m) \in SUBSET {run[m].status}
    BY DEF IInv, OneStatus
  <2>2. IsFiniteSet({run[m].status}) /\ Cardinality({run[m].status}) = 1
    BY FS_Singleton
  <2> QED
    BY <2>1, <2>2, FS_Subset
<1> QED
  BY <1>1, HooksInvariant, PTL

=============================================================================
