--------------------------- MODULE MakeJobs_proofs ---------------------------
(*****************************************************************************)
(* Proofs about MakeJobs for every set of targets, every number of job       *)
(* slots, all command lines and every choice of flags and signals. IInv is   *)
(* an inductive invariant, and the safety properties about chains, slots,    *)
(* signal masks and standard input follow from it. One lemma per conjunct of *)
(* IInv says that every step keeps it; in it the actions that can disturb    *)
(* the conjunct have a step of their own and the others share one.           *)
(*                                                                           *)
(* LifeInv, which contains IInv and says what becomes of every target, is    *)
(* inductive too, and laid out the same way; with it the properties about    *)
(* processes, the job slots, the disk and the exit status, and the           *)
(* refinement of JobService, follow.                                         *)
(*****************************************************************************)
EXTENDS MakeJobs, FiniteSetTheorems, SequenceTheorems, TLAPS

\* Frames of reap_children.
LEMMA FrameFacts ==
  /\ NoFrame \in Frames
  /\ \A x \in Frames : x.return \in Returns /\ x.err \in BOOLEAN /\ x.block \in BOOLEAN
  /\ \A x \in Frames : [x EXCEPT !.block = FALSE] \in Frames
  /\ \A blk, er \in BOOLEAN, r \in Returns : [block |-> blk, err |-> er, return |-> r] \in Frames
<1>1. NoFrame \in Frames
  BY DEF NoFrame, Frames, Returns
<1>2. \A x \in Frames : x.return \in Returns /\ x.err \in BOOLEAN /\ x.block \in BOOLEAN
  BY DEF Frames
<1>3. \A x \in Frames : [x EXCEPT !.block = FALSE] \in Frames
  BY DEF Frames
<1>4. \A blk, er \in BOOLEAN, r \in Returns : [block |-> blk, err |-> er, return |-> r] \in Frames
  BY DEF Frames
<1>5. QED
  BY <1>1, <1>2, <1>3, <1>4

\* The next line is one of the target's lines.
LEMMA TakeNextLineType ==
  ASSUME line \in [Files -> Nat], NEW f \in Files, TakeNextLine(f)
  PROVE  line' \in [Files -> Nat]
<1>1. Len(Cmds[f]) \in Nat
  BY CmdsAssumption
<1>2. PICK k \in PendingLines(f) : line' = [line EXCEPT ![f] = k]
  BY DEF TakeNextLine
<1>3. k \in Nat
  BY <1>1 DEF PendingLines
<1>4. QED
  BY <1>2, <1>3

\* The log entry of a line that has been run.
LEMMA LogEntryType ==
  ASSUME FileTypes, NEW f \in Files, proc[f] \in Results
  PROVE  <<line[f], proc[f]>> \in LogEntries
BY DEF FileTypes, LogEntries

\* A call of reap_children, and the way out of start_waiting_jobs, keep the types.
LEMMA CallReapTypes ==
  ASSUME NEW blk \in BOOLEAN, NEW er \in BOOLEAN, NEW r \in Returns, CallReap(blk, er, r)
  PROVE  pc' \in Places /\ frame' \in Frames
BY FrameFacts DEF CallReap, Places

LEMMA LeaveStartWaitingTypes ==
  ASSUME LeaveStartWaiting PROVE pc' \in Places /\ frame' \in Frames
<1>1. "slot" \in Returns /\ "idle" \in Returns
  BY DEF Returns
<1>2. CASE new_file # NoFile
  BY <1>1, <1>2, CallReapTypes DEF LeaveStartWaiting
<1>3. CASE new_file = NoFile
  BY <1>1, <1>3, CallReapTypes DEF LeaveStartWaiting
<1>4. QED
  BY <1>2, <1>3

\* A finished target keeps the types of struct file.
LEMMA NoticeType ==
  ASSUME FileTypes, NEW f \in Files, NEW st \in {-1, 0, 2}, notice_finished_file(f, st)
  PROVE  /\ command_state' \in [Files -> States]
         /\ update_status' \in [Files -> {-1, 0, 2}]
         /\ last_mtime' \in [Files -> {"cached", "zero"}]
<1>1. command_state' \in [Files -> States]
  BY DEF FileTypes, notice_finished_file, States
<1>2. update_status' \in [Files -> {-1, 0, 2}]
  BY DEF FileTypes, notice_finished_file
<1>3. last_mtime' \in [Files -> {"cached", "zero"}]
  BY DEF FileTypes, notice_finished_file
<1>4. QED
  BY <1>1, <1>2, <1>3

\* There are finitely many children on the chain.
LEMMA FiniteChildren == IInv => IsFiniteSet(children)
BY FilesAssumption, FS_Subset DEF IInv, TypeOK, ChainTypes

\* The initial state satisfies the inductive invariant.
LEMMA InitIInv == Init => IInv
<1> SUFFICES ASSUME Init PROVE IInv
  OBVIOUS
<1>1. TypeOK
  <2>1. FileTypes
    BY DEF Init, FileTypes, States, Results
  <2>2. ChainTypes
    BY DEF Init, ChainTypes
  <2>3. ControlTypes
    BY FrameFacts DEF Init, ControlTypes, Local, Places, Returns, Results, FatalSignals
  <2>4. FlagTypes
    BY DEF Init, FlagTypes
  <2>5. QED
    BY <2>1, <2>2, <2>3, <2>4 DEF TypeOK
<1>2. StartingInv /\ ReapingInv /\ BlockedInv /\ OrphanInv /\ ChainsInv /\ StdinInv /\ DyingInv
  BY DEF Init, StartingInv, ReapingInv, BlockedInv, OrphanInv, ChainsInv, StdinInv, DyingInv, HoldsStdin,
         BeforeOwnStart, InReap, ReapPlaces
<1>3. SlotsInv
  BY FS_EmptySet DEF Init, SlotsInv
<1>4. QED
  BY <1>1, <1>2, <1>3 DEF IInv

\* Every step keeps the types of what is known of a target.
LEMMA FileTypesStep == IInv /\ [Next]_vars => FileTypes'
<1> SUFFICES ASSUME IInv, [Next]_vars PROVE FileTypes'
  OBVIOUS
<1> USE FlagsAssumption DEF vars, fileVars, childVars, chainVars, sigVars, dieVars, sysVars,
    locals, IInv, TypeOK, FileTypes, ChainTypes, ControlTypes, Local, States, Results,
    StartingInv, ReapingInv
<1>1. CASE Defer
  BY <1>1 DEF Defer, LeaveStartWaiting, CallReap
<1>2. CASE StartJob
  <2>1. c \in Files /\ Len(Cmds[c]) \in Nat
    BY <1>2, CmdsAssumption DEF StartJob
  <2>2. CASE RunLine(c, good_stdin_used)
    BY <1>2, <2>1, <2>2, TakeNextLineType DEF StartJob, RunLine
  <2>3. CASE NothingToRun(c, good_stdin_used)
    BY <1>2, <2>1, <2>3, NoticeType DEF StartJob, NothingToRun
  <2>4. CASE ForkFails(c, good_stdin_used) /\ UNCHANGED <<deleted, disk>>
    BY <1>2, <2>1, <2>4, TakeNextLineType, NoticeType DEF StartJob, ForkFails
  <2>5. QED
    BY <1>2, <2>2, <2>3, <2>4 DEF StartJob
<1>3. CASE (\E f \in Files : WaitReturns(f))
  <2>1. PICK f \in Files : WaitReturns(f)
    BY <1>3
  <2>2. <<line[f], proc[f]>> \in LogEntries
    BY <2>1, LogEntryType DEF WaitReturns
  <2>3. log' \in [Files -> Seq(LogEntries)]
    BY <2>1, <2>2 DEF WaitReturns
  <2>4. QED
    BY <2>1, <2>3 DEF WaitReturns
<1>4. CASE CommandFailed
  BY <1>4 DEF CommandFailed, resultSeen, StdinStillUsed, delete_child_targets
<1>5. CASE AllCommandsDone
  BY <1>5 DEF AllCommandsDone, resultSeen, StdinStillUsed, CommandSucceeded
<1>6. CASE GiveUpRest
  BY <1>6 DEF GiveUpRest, resultSeen, StdinStillUsed, CommandSucceeded, delete_child_targets
<1>7. CASE RunNextCommand
  <2>1. c \in Files /\ Len(Cmds[c]) \in Nat
    BY <1>7, CmdsAssumption DEF RunNextCommand, CommandSucceeded
  <2>2. CASE RunLine(c, StdinStillUsed)
    BY <1>7, <2>1, <2>2, TakeNextLineType DEF RunNextCommand, RunLine, resultSeen
  <2>3. CASE NothingToRun(c, StdinStillUsed)
    BY <1>7, <2>1, <2>3, NoticeType DEF RunNextCommand, NothingToRun, resultSeen
  <2>4. CASE ForkFails(c, StdinStillUsed) /\ delete_child_targets({c}, last_mtime')
    BY <1>7, <2>1, <2>4, TakeNextLineType, NoticeType
       DEF RunNextCommand, ForkFails, delete_child_targets, resultSeen
  <2>5. QED
    BY <1>7, <2>2, <2>3, <2>4 DEF RunNextCommand
<1>8. CASE FinishChild
  <2>1. c \in Files /\ update_status[c] \in {-1, 0, 2}
    BY <1>8 DEF FinishChild
  <2>2. CASE notice_finished_file(c, update_status[c])
    <3>1. /\ command_state' \in [Files -> States]
          /\ update_status' \in [Files -> {-1, 0, 2}]
          /\ last_mtime' \in [Files -> {"cached", "zero"}]
      BY <2>1, <2>2 DEF notice_finished_file
    <3>2. UNCHANGED <<childVars, sysVars>>
      BY <1>8 DEF FinishChild
    <3>3. QED
      BY <3>1, <3>2
  <2>3. CASE UNCHANGED fileVars
    BY <1>8, <2>3 DEF FinishChild
  <2>4. QED
    BY <1>8, <2>2, <2>3 DEF FinishChild
<1>9. CASE (\E f \in Files : ChildWrites(f))
  BY <1>9 DEF ChildWrites, unchangedByChild
<1>10. CASE (\E f \in Files, r \in ChildResults : ChildExits(f, r))
  <2>1. PICK f \in Files, r \in ChildResults : ChildExits(f, r)
    BY <1>10
  <2>2. r \in Results
    BY FlagsAssumption
  <2>3. proc' \in [Files -> Results \cup {"none", "running"}]
    BY <2>1, <2>2 DEF ChildExits
  <2>4. UNCHANGED <<fileVars, line, disk, log>>
    BY <2>1 DEF ChildExits, unchangedByChild
  <2>5. QED
    BY <2>3, <2>4
<1>11. CASE (\E s \in Signals : fatal_error_signal(s))
  BY <1>11 DEF fatal_error_signal, delete_child_targets
<1>12. CASE (\E f \in Files : new_job(f)) \/ WaitForGoals \/ Finish
  BY <1>12 DEF new_job, unchangedButPc, unchangedButLocals, WaitForGoals, Finish, Die
<1>13. CASE DieWaits
  BY <1>13 DEF DieWaits, CallReap, unchangedButPc, unchangedButLocals
<1>14. CASE SignalWaits
  BY <1>14 DEF SignalWaits, CallReap, unchangedButPc, unchangedButLocals
<1>15. CASE StartWaitingJobs \/ PopWaitingJob \/ WaitForSlot
  BY <1>15 DEF StartWaitingJobs, LeaveStartWaiting, CallReap, unchangedButPc,
    unchangedButLocals, PopWaitingJob, WaitForSlot
<1>16. CASE NullCommand \/ PutOnChain \/ WaitIfSerial
  BY <1>16 DEF NullCommand, unchangedButPc, unchangedButLocals, PutOnChain, LeaveStart,
    WaitIfSerial, CallReap
<1>17. CASE ReapNext \/ LeaveReap \/ StoreDeadChildren \/ WaitFindsNone \/ WaitFails \/
      WaitInterrupted
  BY <1>17 DEF ReapNext, MoreToReap, LeaveReap, ReturnFromReap, unchangedButPc,
    unchangedButLocals, StoreDeadChildren, WaitFindsNone, WaitFails, Die, WaitInterrupted
<1>18. CASE UnblockAfterRestart \/ TakeOffChain \/ FreeSlot \/ FailureKills \/ LoopAgain
  BY <1>18 DEF UnblockAfterRestart, TakeOffChain, FreeSlot, FailureKills, unchangedButLocals,
    Die, LoopAgain
<1>19. CASE child_handler
  BY <1>19 DEF child_handler, unchangedByChild
<1>20. CASE UNCHANGED vars
  BY <1>20
<1>21. QED
  BY <1>1, <1>2, <1>3, <1>4, <1>5, <1>6, <1>7, <1>8, <1>9, <1>10, <1>11, <1>12, <1>13, <1>14,
    <1>15, <1>16, <1>17, <1>18, <1>19, <1>20 DEF Next, Make, Starting, Reaping, System, Exited

\* Every step keeps the types of the chains and the counters.
LEMMA ChainTypesStep == IInv /\ [Next]_vars => ChainTypes'
<1> SUFFICES ASSUME IInv, [Next]_vars PROVE ChainTypes'
  OBVIOUS
<1> USE DEF vars, fileVars, childVars, chainVars, sigVars, dieVars, sysVars, locals, IInv,
    TypeOK, ChainTypes, ControlTypes, Local, StartingInv, ReapingInv
<1>1. CASE PopWaitingJob
  BY <1>1 DEF PopWaitingJob
<1>2. CASE Defer
  BY <1>2 DEF Defer, LeaveStartWaiting, CallReap
<1>3. CASE StartJob
  BY <1>3 DEF StartJob, RunLine, NothingToRun, ForkFails, TakeNextLine, TakeStdin, LeaveStart,
    notice_finished_file, PendingLines
<1>4. CASE PutOnChain
  BY <1>4 DEF PutOnChain, LeaveStart
<1>5. CASE ReapNext
  BY <1>5 DEF ReapNext, MoreToReap
<1>6. CASE LeaveReap
  BY <1>6 DEF LeaveReap, ReturnFromReap, unchangedButPc, unchangedButLocals
<1>7. CASE StoreDeadChildren
  BY <1>7 DEF StoreDeadChildren
<1>8. CASE (\E f \in Files : WaitReturns(f))
  BY <1>8 DEF WaitReturns
<1>9. CASE RunNextCommand
  BY <1>9 DEF RunNextCommand, resultSeen, StdinStillUsed, CommandSucceeded, RunLine,
    NothingToRun, ForkFails, TakeNextLine, TakeStdin, notice_finished_file,
    delete_child_targets, PendingLines
<1>10. CASE TakeOffChain
  BY <1>10 DEF TakeOffChain
<1>11. CASE FreeSlot
  BY <1>11 DEF FreeSlot
<1>12. CASE (\E s \in Signals : fatal_error_signal(s))
  BY <1>12 DEF fatal_error_signal, delete_child_targets
<1>13. CASE (\E f \in Files : new_job(f)) \/ WaitForGoals \/ Finish
  BY <1>13 DEF new_job, unchangedButPc, unchangedButLocals, WaitForGoals, Finish, Die
<1>14. CASE DieWaits
  BY <1>14 DEF DieWaits, CallReap, unchangedButPc, unchangedButLocals
<1>15. CASE SignalWaits
  BY <1>15 DEF SignalWaits, CallReap, unchangedButPc, unchangedButLocals
<1>16. CASE StartWaitingJobs \/ WaitForSlot
  BY <1>16 DEF StartWaitingJobs, LeaveStartWaiting, CallReap, unchangedButPc,
    unchangedButLocals, WaitForSlot
<1>17. CASE NullCommand \/ WaitIfSerial
  BY <1>17 DEF NullCommand, unchangedButPc, unchangedButLocals, WaitIfSerial, CallReap
<1>18. CASE WaitFindsNone \/ WaitFails \/ WaitInterrupted \/ CommandFailed \/ AllCommandsDone
  BY <1>18 DEF WaitFindsNone, ReturnFromReap, unchangedButPc, unchangedButLocals, WaitFails,
    Die, WaitInterrupted, CommandFailed, resultSeen, StdinStillUsed, delete_child_targets,
    AllCommandsDone, CommandSucceeded
<1>19. CASE GiveUpRest \/ UnblockAfterRestart \/ FinishChild \/ FailureKills \/ LoopAgain
  BY <1>19 DEF GiveUpRest, resultSeen, StdinStillUsed, CommandSucceeded, delete_child_targets,
    UnblockAfterRestart, FinishChild, notice_finished_file, FailureKills, unchangedButLocals,
    Die, LoopAgain
<1>20. CASE (\E f \in Files : ChildWrites(f)) \/ (\E f \in Files, r \in ChildResults :
      ChildExits(f, r)) \/ child_handler
  BY <1>20 DEF ChildWrites, unchangedByChild, ChildExits, child_handler
<1>21. CASE UNCHANGED vars
  BY <1>21
<1>22. QED
  BY <1>1, <1>2, <1>3, <1>4, <1>5, <1>6, <1>7, <1>8, <1>9, <1>10, <1>11, <1>12, <1>13, <1>14,
    <1>15, <1>16, <1>17, <1>18, <1>19, <1>20, <1>21 DEF Next, Make, Starting, Reaping, System,
    Exited

\* Every step keeps the types of the thread's control state.
LEMMA ControlTypesStep == IInv /\ [Next]_vars => ControlTypes'
<1> SUFFICES ASSUME IInv, [Next]_vars PROVE ControlTypes'
  OBVIOUS
<1> USE FlagsAssumption, FrameFacts DEF vars, fileVars, childVars, chainVars, sigVars, dieVars,
    sysVars, locals, IInv, TypeOK, FileTypes, ChainTypes, ControlTypes, FlagTypes, Local,
    Places, Returns, Results, FatalSignals, StartingInv
<1>1. CASE (\E f \in Files : new_job(f))
  BY <1>1 DEF new_job, unchangedButPc, unchangedButLocals
<1>2. CASE WaitForGoals
  BY <1>2 DEF WaitForGoals, unchangedButPc, unchangedButLocals
<1>3. CASE Finish
  BY <1>3 DEF Finish, unchangedButLocals, Die
<1>4. CASE DieWaits
  <2>1. CASE job_slots_used > 0
    <3>1. pc' = "reap" /\ frame' = [block |-> TRUE, err |-> die_err, return |-> "die"]
      BY <1>4, <2>1 DEF DieWaits, CallReap
    <3>2. frame' \in Frames
      BY <3>1
    <3>3. QED
      BY <1>4, <3>1, <3>2 DEF DieWaits, unchangedButPc, unchangedButLocals
  <2>2. CASE ~(job_slots_used > 0)
    BY <1>4, <2>2 DEF DieWaits, unchangedButPc, unchangedButLocals
  <2>3. QED
    BY <2>1, <2>2
<1>5. CASE SignalWaits
  <2>1. CASE job_slots_used > 0
    <3>1. pc' = "reap" /\ frame' = [block |-> TRUE, err |-> sig = "OTHER", return |-> "sig"]
      BY <1>5, <2>1 DEF SignalWaits, CallReap
    <3>2. (sig = "OTHER") \in BOOLEAN /\ TRUE \in BOOLEAN /\ "sig" \in Returns
      OBVIOUS
    <3>3. frame' \in Frames
      BY <3>1, <3>2
    <3>4. QED
      BY <1>5, <2>1, <3>1, <3>3 DEF SignalWaits, unchangedButPc, unchangedButLocals
  <2>2. CASE ~(job_slots_used > 0)
    BY <1>5, <2>2 DEF SignalWaits, unchangedButPc, unchangedButLocals
  <2>3. QED
    BY <2>1, <2>2
<1>6. CASE StartWaitingJobs
  <2>1. CASE waiting_jobs = <<>>
    BY <1>6, <2>1, LeaveStartWaitingTypes
       DEF StartWaitingJobs, unchangedButPc, unchangedButLocals
  <2>2. CASE waiting_jobs # <<>>
    <3>1. pc' \in Places /\ frame' \in Frames
      BY <1>6, <2>2, CallReapTypes DEF StartWaitingJobs
    <3>2. QED
      BY <1>6, <3>1 DEF StartWaitingJobs, unchangedButPc, unchangedButLocals
  <2>3. QED
    BY <2>1, <2>2
<1>7. CASE PopWaitingJob
  <2>1. Head(waiting_jobs) \in Files
    BY <1>7, HeadTailProperties DEF PopWaitingJob
  <2>2. QED
    BY <1>7, <2>1 DEF PopWaitingJob
<1>8. CASE WaitForSlot
  <2>1. CASE job_slots # 0 /\ job_slots_used = job_slots
    <3>1. pc' \in Places /\ frame' \in Frames
      BY <1>8, <2>1, CallReapTypes DEF WaitForSlot
    <3>2. QED
      BY <1>8, <2>1, <3>1 DEF WaitForSlot, unchangedButPc, unchangedButLocals
  <2>2. CASE ~(job_slots # 0 /\ job_slots_used = job_slots)
    BY <1>8, <2>2 DEF WaitForSlot, unchangedButPc, unchangedButLocals
  <2>3. QED
    BY <2>1, <2>2
<1>9. CASE Defer
  <2>1. pc' \in Places /\ frame' \in Frames
    <3>1. CASE c = new_file
      BY <1>9, <3>1 DEF Defer
    <3>2. CASE c # new_file
      <4>1. LeaveStartWaiting
        BY <1>9, <3>2 DEF Defer
      <4>2. QED
        BY <4>1, LeaveStartWaitingTypes
    <3>3. QED
      BY <3>1, <3>2
  <2>2. QED
    BY <1>9, <2>1 DEF Defer
<1>10. CASE StartJob
  <2>1. pc' \in Places /\ c' \in Local
    <3>1. CASE pc' = "chain" /\ UNCHANGED c
      BY <3>1
    <3>2. CASE LeaveStart
      BY <3>2 DEF LeaveStart
    <3>3. QED
      BY <1>10, <3>1, <3>2 DEF StartJob
  <2>2. UNCHANGED <<new_file, frame, result, sig, outcome>>
    BY <1>10 DEF StartJob
  <2>3. QED
    BY <2>1, <2>2
<1>11. CASE NullCommand
  BY <1>11 DEF NullCommand, unchangedButPc, unchangedButLocals
<1>12. CASE PutOnChain
  BY <1>12 DEF PutOnChain, LeaveStart
<1>13. CASE WaitIfSerial
  <2>1. UNCHANGED <<c, result, sig, outcome>>
    BY <1>13 DEF WaitIfSerial, unchangedButPc, unchangedButLocals
  <2>2. CASE job_slots = 1 /\ command_state[new_file] = "running"
    <3>1. pc' \in Places /\ frame' \in Frames
      BY <1>13, <2>2, CallReapTypes DEF WaitIfSerial
    <3>2. QED
      BY <1>13, <2>1, <2>2, <3>1 DEF WaitIfSerial
  <2>3. CASE ~(job_slots = 1 /\ command_state[new_file] = "running")
    BY <1>13, <2>1, <2>3 DEF WaitIfSerial
  <2>4. QED
    BY <2>2, <2>3
<1>14. CASE ReapNext
  BY <1>14 DEF ReapNext, MoreToReap
<1>15. CASE LeaveReap
  BY <1>15 DEF LeaveReap, ReturnFromReap, unchangedButPc, unchangedButLocals
<1>16. CASE StoreDeadChildren
  BY <1>16 DEF StoreDeadChildren
<1>17. CASE (\E f \in Files : WaitReturns(f))
  BY <1>17 DEF WaitReturns
<1>18. CASE WaitFindsNone
  BY <1>18 DEF WaitFindsNone, ReturnFromReap, unchangedButPc, unchangedButLocals
<1>19. CASE WaitFails
  BY <1>19 DEF WaitFails, Die, unchangedButLocals
<1>20. CASE WaitInterrupted
  BY <1>20 DEF WaitInterrupted
<1>21. CASE CommandFailed
  BY <1>21 DEF CommandFailed, resultSeen, StdinStillUsed, delete_child_targets
<1>22. CASE AllCommandsDone
  BY <1>22 DEF AllCommandsDone, resultSeen, StdinStillUsed, CommandSucceeded
<1>23. CASE GiveUpRest
  BY <1>23 DEF GiveUpRest, resultSeen, StdinStillUsed, CommandSucceeded, delete_child_targets
<1>24. CASE RunNextCommand
  BY <1>24 DEF RunNextCommand, resultSeen, StdinStillUsed, CommandSucceeded, RunLine,
    NothingToRun, ForkFails, TakeNextLine, TakeStdin, notice_finished_file,
    delete_child_targets, PendingLines
<1>25. CASE UnblockAfterRestart
  BY <1>25 DEF UnblockAfterRestart
<1>26. CASE FinishChild
  BY <1>26 DEF FinishChild, notice_finished_file
<1>27. CASE TakeOffChain
  BY <1>27 DEF TakeOffChain
<1>28. CASE FreeSlot
  BY <1>28 DEF FreeSlot
<1>29. CASE FailureKills
  BY <1>29 DEF FailureKills, unchangedButLocals, Die
<1>30. CASE LoopAgain
  BY <1>30 DEF LoopAgain, unchangedButLocals
<1>31. CASE (\E f \in Files : ChildWrites(f))
  BY <1>31 DEF ChildWrites, unchangedByChild
<1>32. CASE (\E f \in Files, r \in ChildResults : ChildExits(f, r))
  BY <1>32 DEF ChildExits, unchangedByChild
<1>33. CASE child_handler
  BY <1>33 DEF child_handler, unchangedByChild
<1>34. CASE (\E s \in Signals : fatal_error_signal(s))
  BY <1>34 DEF fatal_error_signal, delete_child_targets
<1>35. CASE UNCHANGED vars
  BY <1>35
<1>36. QED
  BY <1>1, <1>2, <1>3, <1>4, <1>5, <1>6, <1>7, <1>8, <1>9, <1>10, <1>11, <1>12, <1>13, <1>14,
    <1>15, <1>16, <1>17, <1>18, <1>19, <1>20, <1>21, <1>22, <1>23, <1>24, <1>25, <1>26, <1>27,
    <1>28, <1>29, <1>30, <1>31, <1>32, <1>33, <1>34, <1>35 DEF Next, Make, Starting, Reaping,
    System, Exited

\* Every step keeps the flags Boolean.
LEMMA FlagTypesStep == IInv /\ [Next]_vars => FlagTypes'
<1> SUFFICES ASSUME IInv, [Next]_vars PROVE FlagTypes'
  OBVIOUS
<1> USE FrameFacts DEF vars, fileVars, childVars, chainVars, sigVars, dieVars, sysVars, locals,
    IInv, TypeOK, FlagTypes
<1>1. CASE (\E f \in Files : new_job(f))
  BY <1>1 DEF new_job, unchangedButPc, unchangedButLocals
<1>2. CASE WaitForGoals
  BY <1>2 DEF WaitForGoals, unchangedButPc, unchangedButLocals
<1>3. CASE Finish
  BY <1>3 DEF Finish, unchangedButLocals, Die
<1>4. CASE StartWaitingJobs
  BY <1>4 DEF StartWaitingJobs, LeaveStartWaiting, CallReap, unchangedButPc, unchangedButLocals
<1>5. CASE PopWaitingJob
  BY <1>5 DEF PopWaitingJob
<1>6. CASE WaitForSlot
  BY <1>6 DEF WaitForSlot, CallReap, unchangedButPc, unchangedButLocals
<1>7. CASE Defer
  BY <1>7 DEF Defer, LeaveStartWaiting, CallReap
<1>8. CASE StartJob
  BY <1>8 DEF StartJob, RunLine, NothingToRun, ForkFails, TakeNextLine, TakeStdin, LeaveStart,
    notice_finished_file, PendingLines
<1>9. CASE NullCommand
  BY <1>9 DEF NullCommand, unchangedButPc, unchangedButLocals
<1>10. CASE PutOnChain
  BY <1>10 DEF PutOnChain, LeaveStart
<1>11. CASE WaitIfSerial
  BY <1>11 DEF WaitIfSerial, CallReap, unchangedButPc, unchangedButLocals
<1>12. CASE ReapNext
  BY <1>12 DEF ReapNext, MoreToReap
<1>13. CASE LeaveReap
  BY <1>13 DEF LeaveReap, ReturnFromReap, unchangedButPc, unchangedButLocals
<1>14. CASE StoreDeadChildren
  BY <1>14 DEF StoreDeadChildren
<1>15. CASE (\E f \in Files : WaitReturns(f))
  BY <1>15 DEF WaitReturns
<1>16. CASE WaitFindsNone
  BY <1>16 DEF WaitFindsNone, ReturnFromReap, unchangedButPc, unchangedButLocals
<1>17. CASE WaitFails
  BY <1>17 DEF WaitFails, Die, unchangedButLocals
<1>18. CASE WaitInterrupted
  BY <1>18 DEF WaitInterrupted
<1>19. CASE CommandFailed
  BY <1>19 DEF CommandFailed, resultSeen, StdinStillUsed, delete_child_targets
<1>20. CASE AllCommandsDone
  BY <1>20 DEF AllCommandsDone, resultSeen, StdinStillUsed, CommandSucceeded
<1>21. CASE GiveUpRest
  BY <1>21 DEF GiveUpRest, resultSeen, StdinStillUsed, CommandSucceeded, delete_child_targets
<1>22. CASE RunNextCommand
  BY <1>22 DEF RunNextCommand, resultSeen, StdinStillUsed, CommandSucceeded, RunLine,
    NothingToRun, ForkFails, TakeNextLine, TakeStdin, notice_finished_file,
    delete_child_targets, PendingLines
<1>23. CASE UnblockAfterRestart
  BY <1>23 DEF UnblockAfterRestart
<1>24. CASE FinishChild
  BY <1>24 DEF FinishChild, notice_finished_file
<1>25. CASE TakeOffChain
  BY <1>25 DEF TakeOffChain
<1>26. CASE FreeSlot
  BY <1>26 DEF FreeSlot
<1>27. CASE FailureKills
  BY <1>27 DEF FailureKills, unchangedButLocals, Die
<1>28. CASE LoopAgain
  BY <1>28 DEF LoopAgain, unchangedButLocals
<1>29. CASE DieWaits
  BY <1>29 DEF DieWaits, CallReap, unchangedButPc, unchangedButLocals
<1>30. CASE SignalWaits
  BY <1>30 DEF SignalWaits, CallReap, unchangedButPc, unchangedButLocals
<1>31. CASE (\E f \in Files : ChildWrites(f))
  BY <1>31 DEF ChildWrites, unchangedByChild
<1>32. CASE (\E f \in Files, r \in ChildResults : ChildExits(f, r))
  BY <1>32 DEF ChildExits, unchangedByChild
<1>33. CASE child_handler
  BY <1>33 DEF child_handler, unchangedByChild
<1>34. CASE (\E s \in Signals : fatal_error_signal(s))
  BY <1>34 DEF fatal_error_signal, delete_child_targets
<1>35. CASE UNCHANGED vars
  BY <1>35
<1>36. QED
  BY <1>1, <1>2, <1>3, <1>4, <1>5, <1>6, <1>7, <1>8, <1>9, <1>10, <1>11, <1>12, <1>13, <1>14,
    <1>15, <1>16, <1>17, <1>18, <1>19, <1>20, <1>21, <1>22, <1>23, <1>24, <1>25, <1>26, <1>27,
    <1>28, <1>29, <1>30, <1>31, <1>32, <1>33, <1>34, <1>35 DEF Next, Make, Starting, Reaping,
    System, Exited

\* Fatal signals are blocked at the three places of BlockedInv only.
LEMMA BlockedStep == IInv /\ [Next]_vars => BlockedInv'
<1> SUFFICES ASSUME IInv, [Next]_vars PROVE BlockedInv'
  OBVIOUS
<1> USE DEF vars, fileVars, childVars, chainVars, sigVars, dieVars, sysVars, locals, IInv,
    InReap, ReapPlaces, Results, Local, BlockedInv, StartingInv, TypeOK, ControlTypes, Frames,
    Returns
\* The steps that block or unblock.
<1>1. CASE StartJob
  BY <1>1 DEF StartJob, RunLine, NothingToRun, ForkFails, TakeNextLine, TakeStdin, LeaveStart,
    notice_finished_file, PendingLines
\* The steps that block or unblock.
<1>2. CASE RunNextCommand
  BY <1>2 DEF RunNextCommand, resultSeen, StdinStillUsed, CommandSucceeded, RunLine,
    NothingToRun, ForkFails, TakeNextLine, TakeStdin, notice_finished_file,
    delete_child_targets, PendingLines
\* The steps that block or unblock.
<1>3. CASE PutOnChain
  BY <1>3 DEF PutOnChain, LeaveStart
\* The steps that block or unblock.
<1>4. CASE UnblockAfterRestart
  BY <1>4 DEF UnblockAfterRestart
\* The steps that block or unblock.
<1>5. CASE TakeOffChain
  BY <1>5 DEF TakeOffChain
\* The steps that block or unblock.
<1>6. CASE FreeSlot
  BY <1>6 DEF FreeSlot
<1>7. CASE (\E f \in Files : new_job(f)) \/ WaitForGoals \/ Finish
  BY <1>7 DEF new_job, unchangedButPc, unchangedButLocals, WaitForGoals, Finish, Die
<1>8. CASE DieWaits
  BY <1>8 DEF DieWaits, CallReap, unchangedButPc, unchangedButLocals
<1>9. CASE SignalWaits
  BY <1>9 DEF SignalWaits, CallReap, unchangedButPc, unchangedButLocals
<1>10. CASE StartWaitingJobs \/ PopWaitingJob \/ WaitForSlot \/ Defer
  BY <1>10 DEF StartWaitingJobs, LeaveStartWaiting, CallReap, unchangedButPc,
    unchangedButLocals, PopWaitingJob, WaitForSlot, Defer
<1>11. CASE NullCommand \/ WaitIfSerial
  BY <1>11 DEF NullCommand, unchangedButPc, unchangedButLocals, WaitIfSerial, CallReap
<1>12. CASE ReapNext \/ LeaveReap \/ StoreDeadChildren \/ (\E f \in Files : WaitReturns(f)) \/
      WaitFindsNone \/ WaitFails \/ WaitInterrupted \/ CommandFailed \/ AllCommandsDone
  BY <1>12 DEF ReapNext, MoreToReap, LeaveReap, ReturnFromReap, unchangedButPc,
    unchangedButLocals, StoreDeadChildren, WaitReturns, WaitFindsNone, WaitFails, Die,
    WaitInterrupted, CommandFailed, resultSeen, StdinStillUsed, delete_child_targets,
    AllCommandsDone, CommandSucceeded
<1>13. CASE GiveUpRest \/ FinishChild \/ FailureKills \/ LoopAgain
  BY <1>13 DEF GiveUpRest, resultSeen, StdinStillUsed, CommandSucceeded, delete_child_targets,
    FinishChild, notice_finished_file, FailureKills, unchangedButLocals, Die, LoopAgain
<1>14. CASE (\E f \in Files : ChildWrites(f)) \/ (\E f \in Files, r \in ChildResults :
      ChildExits(f, r)) \/ child_handler \/ (\E s \in Signals : fatal_error_signal(s))
  BY <1>14 DEF ChildWrites, unchangedByChild, ChildExits, child_handler, fatal_error_signal,
    delete_child_targets
<1>15. CASE UNCHANGED vars
  BY <1>15
<1>16. QED
  BY <1>1, <1>2, <1>3, <1>4, <1>5, <1>6, <1>7, <1>8, <1>9, <1>10, <1>11, <1>12, <1>13, <1>14,
    <1>15 DEF Next, Make, Starting, Reaping, System, Exited

\* The child being reaped stays on the chain until TakeOffChain.
LEMMA ReapingStep == IInv /\ [Next]_vars => ReapingInv'
<1> SUFFICES ASSUME IInv, [Next]_vars PROVE ReapingInv'
  OBVIOUS
<1> USE DEF vars, fileVars, childVars, chainVars, sigVars, dieVars, sysVars, locals, IInv,
    InReap, ReapPlaces, Results, Local, ReapingInv, OrphanInv, StartingInv, BlockedInv, TypeOK,
    FileTypes, ChainTypes, ControlTypes, Frames, Returns
<1>1. CASE (\E f \in Files : WaitReturns(f))
  BY <1>1 DEF WaitReturns
<1>2. CASE ReapNext
  BY <1>2 DEF ReapNext, MoreToReap
<1>3. CASE LeaveReap
  BY <1>3 DEF LeaveReap, ReturnFromReap, unchangedButPc, unchangedButLocals
<1>4. CASE RunNextCommand
  BY <1>4 DEF RunNextCommand, resultSeen, StdinStillUsed, CommandSucceeded, RunLine,
    NothingToRun, ForkFails, TakeNextLine, TakeStdin, notice_finished_file,
    delete_child_targets, PendingLines
<1>5. CASE WaitInterrupted
  BY <1>5 DEF WaitInterrupted
<1>6. CASE (\E f \in Files : new_job(f)) \/ WaitForGoals \/ Finish
  BY <1>6 DEF new_job, unchangedButPc, unchangedButLocals, WaitForGoals, Finish, Die
<1>7. CASE DieWaits
  BY <1>7 DEF DieWaits, CallReap, unchangedButPc, unchangedButLocals
<1>8. CASE SignalWaits
  BY <1>8 DEF SignalWaits, CallReap, unchangedButPc, unchangedButLocals
<1>9. CASE StartWaitingJobs \/ PopWaitingJob \/ WaitForSlot \/ Defer
  BY <1>9 DEF StartWaitingJobs, LeaveStartWaiting, CallReap, unchangedButPc, unchangedButLocals,
    PopWaitingJob, WaitForSlot, Defer
<1>10. CASE StartJob \/ NullCommand \/ PutOnChain \/ WaitIfSerial
  BY <1>10 DEF StartJob, RunLine, NothingToRun, ForkFails, TakeNextLine, TakeStdin, LeaveStart,
    notice_finished_file, PendingLines, NullCommand, unchangedButPc, unchangedButLocals,
    PutOnChain, WaitIfSerial, CallReap
<1>11. CASE StoreDeadChildren \/ WaitFindsNone \/ WaitFails \/ CommandFailed \/ AllCommandsDone
  BY <1>11 DEF StoreDeadChildren, WaitFindsNone, ReturnFromReap, unchangedButPc,
    unchangedButLocals, WaitFails, Die, CommandFailed, resultSeen, StdinStillUsed,
    delete_child_targets, AllCommandsDone, CommandSucceeded
<1>12. CASE GiveUpRest \/ UnblockAfterRestart \/ FinishChild \/ TakeOffChain \/ FreeSlot \/
      FailureKills \/ LoopAgain
  BY <1>12 DEF GiveUpRest, resultSeen, StdinStillUsed, CommandSucceeded, delete_child_targets,
    UnblockAfterRestart, FinishChild, notice_finished_file, TakeOffChain, FreeSlot,
    FailureKills, unchangedButLocals, Die, LoopAgain
<1>13. CASE (\E f \in Files : ChildWrites(f)) \/ (\E f \in Files, r \in ChildResults :
      ChildExits(f, r)) \/ child_handler \/ (\E s \in Signals : fatal_error_signal(s))
  BY <1>13 DEF ChildWrites, unchangedByChild, ChildExits, child_handler, fatal_error_signal,
    delete_child_targets
<1>14. CASE UNCHANGED vars
  BY <1>14
<1>15. QED
  BY <1>1, <1>2, <1>3, <1>4, <1>5, <1>6, <1>7, <1>8, <1>9, <1>10, <1>11, <1>12, <1>13, <1>14 DEF
    Next, Make, Starting, Reaping, System, Exited

\* No step leaves a process off the chain.
LEMMA OrphanStep == IInv /\ [Next]_vars => OrphanInv'
<1> SUFFICES ASSUME IInv, [Next]_vars PROVE OrphanInv'
  OBVIOUS
<1> USE DEF vars, fileVars, childVars, chainVars, sigVars, dieVars, sysVars, locals, IInv,
    InReap, ReapPlaces, Results, Local, ReapingInv, OrphanInv, StartingInv, BlockedInv, TypeOK,
    FileTypes, ChainTypes, ControlTypes, Frames, Returns
<1>1. CASE StartJob
  BY <1>1 DEF StartJob, RunLine, NothingToRun, ForkFails, TakeNextLine, TakeStdin, LeaveStart,
    notice_finished_file, PendingLines
<1>2. CASE PutOnChain
  BY <1>2 DEF PutOnChain, LeaveStart
<1>3. CASE (\E f \in Files : WaitReturns(f))
  BY <1>3 DEF WaitReturns
<1>4. CASE RunNextCommand
  BY <1>4 DEF RunNextCommand, resultSeen, StdinStillUsed, CommandSucceeded, RunLine,
    NothingToRun, ForkFails, TakeNextLine, TakeStdin, notice_finished_file,
    delete_child_targets, PendingLines
<1>5. CASE TakeOffChain
  BY <1>5 DEF TakeOffChain
<1>6. CASE (\E f \in Files, r \in ChildResults : ChildExits(f, r))
  BY <1>6 DEF ChildExits, unchangedByChild
<1>7. CASE (\E s \in Signals : fatal_error_signal(s))
  BY <1>7 DEF fatal_error_signal, delete_child_targets
<1>8. CASE (\E f \in Files : new_job(f)) \/ WaitForGoals \/ Finish
  BY <1>8 DEF new_job, unchangedButPc, unchangedButLocals, WaitForGoals, Finish, Die
<1>9. CASE DieWaits
  BY <1>9 DEF DieWaits, CallReap, unchangedButPc, unchangedButLocals
<1>10. CASE SignalWaits
  BY <1>10 DEF SignalWaits, CallReap, unchangedButPc, unchangedButLocals
<1>11. CASE StartWaitingJobs \/ PopWaitingJob \/ WaitForSlot \/ Defer
  BY <1>11 DEF StartWaitingJobs, LeaveStartWaiting, CallReap, unchangedButPc,
    unchangedButLocals, PopWaitingJob, WaitForSlot, Defer
<1>12. CASE NullCommand \/ WaitIfSerial
  BY <1>12 DEF NullCommand, unchangedButPc, unchangedButLocals, WaitIfSerial, CallReap
<1>13. CASE ReapNext \/ LeaveReap \/ StoreDeadChildren \/ WaitFindsNone \/ WaitFails \/
      WaitInterrupted \/ CommandFailed \/ AllCommandsDone
  BY <1>13 DEF ReapNext, MoreToReap, LeaveReap, ReturnFromReap, unchangedButPc,
    unchangedButLocals, StoreDeadChildren, WaitFindsNone, WaitFails, Die, WaitInterrupted,
    CommandFailed, resultSeen, StdinStillUsed, delete_child_targets, AllCommandsDone,
    CommandSucceeded
<1>14. CASE GiveUpRest \/ UnblockAfterRestart \/ FinishChild \/ FreeSlot \/ FailureKills \/
      LoopAgain
  BY <1>14 DEF GiveUpRest, resultSeen, StdinStillUsed, CommandSucceeded, delete_child_targets,
    UnblockAfterRestart, FinishChild, notice_finished_file, FreeSlot, FailureKills,
    unchangedButLocals, Die, LoopAgain
<1>15. CASE (\E f \in Files : ChildWrites(f)) \/ child_handler
  BY <1>15 DEF ChildWrites, unchangedByChild, child_handler
<1>16. CASE UNCHANGED vars
  BY <1>16
<1>17. QED
  BY <1>1, <1>2, <1>3, <1>4, <1>5, <1>6, <1>7, <1>8, <1>9, <1>10, <1>11, <1>12, <1>13, <1>14,
    <1>15, <1>16 DEF Next, Make, Starting, Reaping, System, Exited

\* The good standard input changes hands only when it is free.
LEMMA StdinStep == IInv /\ [Next]_vars => StdinInv'
<1> SUFFICES ASSUME IInv, [Next]_vars PROVE StdinInv'
  OBVIOUS
<1> USE DEF vars, fileVars, childVars, chainVars, sigVars, dieVars, sysVars, locals, IInv,
    InReap, ReapPlaces, Results, Local, ReapingInv, OrphanInv, StartingInv, BlockedInv,
    StdinInv, HoldsStdin, TypeOK, FileTypes, ChainTypes, ControlTypes, Frames, Returns
<1>1. CASE StartJob
  <2>1. c \in Files /\ proc[c] = "none"
    BY <1>1 DEF StartJob
  <2>2. CASE RunLine(c, good_stdin_used) /\ pc' = "chain"
    BY <1>1, <2>1, <2>2 DEF StartJob, RunLine, TakeStdin
  <2>3. CASE NothingToRun(c, good_stdin_used) /\ LeaveStart
    BY <1>1, <2>1, <2>3 DEF StartJob, NothingToRun, LeaveStart
  <2>4. CASE ForkFails(c, good_stdin_used) /\ LeaveStart
    BY <1>1, <2>1, <2>4 DEF StartJob, ForkFails, TakeStdin, LeaveStart
  <2>5. QED
    BY <1>1, <2>2, <2>3, <2>4 DEF StartJob
<1>2. CASE (\E f \in Files : WaitReturns(f))
  BY <1>2 DEF WaitReturns
<1>3. CASE CommandFailed
  BY <1>3 DEF CommandFailed, resultSeen, StdinStillUsed, delete_child_targets
<1>4. CASE AllCommandsDone
  BY <1>4 DEF AllCommandsDone, resultSeen, StdinStillUsed, CommandSucceeded
<1>5. CASE GiveUpRest
  BY <1>5 DEF GiveUpRest, resultSeen, StdinStillUsed, CommandSucceeded, delete_child_targets
<1>6. CASE RunNextCommand
  <2>1. c \in Files /\ proc[c] = "none" /\ pc = "reap_status"
    BY <1>6 DEF RunNextCommand, CommandSucceeded
  <2>2. StdinStillUsed \/ \A f \in Files \ {c} : ~HoldsStdin(f)
    BY <1>6, <2>1 DEF StdinStillUsed
  <2>3. CASE RunLine(c, StdinStillUsed) /\ pc' = "reap_unblock"
    BY <1>6, <2>1, <2>2, <2>3 DEF RunNextCommand, RunLine, TakeStdin, StdinStillUsed
  <2>4. CASE NothingToRun(c, StdinStillUsed) /\ pc' = "reap_finish"
    BY <1>6, <2>1, <2>2, <2>4 DEF RunNextCommand, NothingToRun, StdinStillUsed
  <2>5. CASE ForkFails(c, StdinStillUsed) /\ pc' = "reap_finish"
    BY <1>6, <2>1, <2>2, <2>5 DEF RunNextCommand, ForkFails, TakeStdin, StdinStillUsed
  <2>6. QED
    BY <1>6, <2>3, <2>4, <2>5 DEF RunNextCommand
<1>7. CASE (\E f \in Files, r \in ChildResults : ChildExits(f, r))
  BY <1>7 DEF ChildExits, unchangedByChild
<1>8. CASE (\E s \in Signals : fatal_error_signal(s))
  BY <1>8 DEF fatal_error_signal, delete_child_targets
<1>9. CASE (\E f \in Files : new_job(f)) \/ WaitForGoals \/ Finish
  <2>1. /\ UNCHANGED <<good_stdin, good_stdin_used, proc>>
        /\ pc' # "reap_status" \/ UNCHANGED <<pc, c>>
    BY <1>9 DEF new_job, unchangedButPc, unchangedButLocals, WaitForGoals, Finish, Die
  <2>2. \A f \in Files : HoldsStdin(f)' => HoldsStdin(f)
    BY <2>1
  <2>3. QED
    BY <2>1, <2>2
<1>10. CASE DieWaits
  <2>1. /\ UNCHANGED <<good_stdin, good_stdin_used, proc>>
        /\ pc' # "reap_status" \/ UNCHANGED <<pc, c>>
    BY <1>10 DEF DieWaits, CallReap, unchangedButPc, unchangedButLocals
  <2>2. \A f \in Files : HoldsStdin(f)' => HoldsStdin(f)
    BY <2>1
  <2>3. QED
    BY <2>1, <2>2
<1>11. CASE SignalWaits
  <2>1. /\ UNCHANGED <<good_stdin, good_stdin_used, proc>>
        /\ pc' # "reap_status" \/ UNCHANGED <<pc, c>>
    BY <1>11 DEF SignalWaits, CallReap, unchangedButPc, unchangedButLocals
  <2>2. \A f \in Files : HoldsStdin(f)' => HoldsStdin(f)
    BY <2>1
  <2>3. QED
    BY <2>1, <2>2
<1>12. CASE StartWaitingJobs \/ PopWaitingJob \/ WaitForSlot \/ Defer
  <2>1. /\ UNCHANGED <<good_stdin, good_stdin_used, proc>>
        /\ pc' # "reap_status" \/ UNCHANGED <<pc, c>>
    BY <1>12 DEF StartWaitingJobs, LeaveStartWaiting, CallReap, unchangedButPc,
      unchangedButLocals, PopWaitingJob, WaitForSlot, Defer
  <2>2. \A f \in Files : HoldsStdin(f)' => HoldsStdin(f)
    BY <2>1
  <2>3. QED
    BY <2>1, <2>2
<1>13. CASE NullCommand \/ PutOnChain \/ WaitIfSerial
  <2>1. /\ UNCHANGED <<good_stdin, good_stdin_used, proc>>
        /\ pc' # "reap_status" \/ UNCHANGED <<pc, c>>
    BY <1>13 DEF NullCommand, unchangedButPc, unchangedButLocals, PutOnChain, LeaveStart,
      WaitIfSerial, CallReap
  <2>2. \A f \in Files : HoldsStdin(f)' => HoldsStdin(f)
    BY <2>1
  <2>3. QED
    BY <2>1, <2>2
<1>14. CASE ReapNext \/ LeaveReap \/ StoreDeadChildren \/ WaitFindsNone \/ WaitFails \/
      WaitInterrupted
  <2>1. /\ UNCHANGED <<good_stdin, good_stdin_used, proc>>
        /\ pc' # "reap_status" \/ UNCHANGED <<pc, c>>
    BY <1>14 DEF ReapNext, MoreToReap, LeaveReap, ReturnFromReap, unchangedButPc,
      unchangedButLocals, StoreDeadChildren, WaitFindsNone, WaitFails, Die, WaitInterrupted
  <2>2. \A f \in Files : HoldsStdin(f)' => HoldsStdin(f)
    BY <2>1
  <2>3. QED
    BY <2>1, <2>2
<1>15. CASE UnblockAfterRestart \/ FinishChild \/ TakeOffChain \/ FreeSlot \/ FailureKills \/
      LoopAgain
  <2>1. /\ UNCHANGED <<good_stdin, good_stdin_used, proc>>
        /\ pc' # "reap_status" \/ UNCHANGED <<pc, c>>
    BY <1>15 DEF UnblockAfterRestart, FinishChild, notice_finished_file, TakeOffChain, FreeSlot,
      FailureKills, unchangedButLocals, Die, LoopAgain
  <2>2. \A f \in Files : HoldsStdin(f)' => HoldsStdin(f)
    BY <2>1
  <2>3. QED
    BY <2>1, <2>2
<1>16. CASE (\E f \in Files : ChildWrites(f)) \/ child_handler
  <2>1. /\ UNCHANGED <<good_stdin, good_stdin_used, proc>>
        /\ pc' # "reap_status" \/ UNCHANGED <<pc, c>>
    BY <1>16 DEF ChildWrites, unchangedByChild, child_handler
  <2>2. \A f \in Files : HoldsStdin(f)' => HoldsStdin(f)
    BY <2>1
  <2>3. QED
    BY <2>1, <2>2
<1>17. CASE UNCHANGED vars
  BY <1>17
<1>18. QED
  BY <1>1, <1>2, <1>3, <1>4, <1>5, <1>6, <1>7, <1>8, <1>9, <1>10, <1>11, <1>12, <1>13, <1>14,
    <1>15, <1>16, <1>17 DEF Next, Make, Starting, Reaping, System, Exited

\* The slots in use are counted with the chain.
LEMMA SlotsStep == IInv /\ [Next]_vars => SlotsInv'
<1> SUFFICES ASSUME IInv, [Next]_vars PROVE SlotsInv'
  OBVIOUS
<1> USE DEF vars, fileVars, childVars, chainVars, sigVars, dieVars, sysVars, locals, IInv,
    InReap, ReapPlaces, Results, Local, ReapingInv, OrphanInv, StartingInv, BlockedInv,
    SlotsInv, TypeOK, ChainTypes, ControlTypes, Frames, Returns
<1>1. CASE PutOnChain
  <2>1. c \in Files \ children
    BY <1>1 DEF PutOnChain
  <2>2. Cardinality(children \cup {c}) = Cardinality(children) + 1
    BY <2>1, FiniteChildren, FS_AddElement
  <2>3. job_slots_used = Cardinality(children) /\ Cardinality(children) \in Nat
    BY <1>1, FiniteChildren, FS_CardinalityType DEF PutOnChain
  <2>4. QED
    BY <1>1, <2>2, <2>3 DEF PutOnChain, LeaveStart
<1>2. CASE TakeOffChain
  <2>1. c \in children
    BY <1>2 DEF TakeOffChain
  <2>2. Cardinality(children \ {c}) = Cardinality(children) - 1
    BY <2>1, FiniteChildren, FS_RemoveElement
  <2>3. job_slots_used = Cardinality(children) /\ Cardinality(children) \in Nat
    BY <1>2, FiniteChildren, FS_CardinalityType DEF TakeOffChain
  <2>4. QED
    BY <1>2, <2>2, <2>3 DEF TakeOffChain
<1>3. CASE FreeSlot
  <2>1. Cardinality(children) \in Nat
    BY FiniteChildren, FS_CardinalityType
  <2>2. QED
    BY <1>3, <2>1 DEF FreeSlot
<1>4. CASE (\E f \in Files : new_job(f)) \/ WaitForGoals \/ Finish
  BY <1>4 DEF new_job, unchangedButPc, unchangedButLocals, WaitForGoals, Finish, Die
<1>5. CASE DieWaits
  BY <1>5 DEF DieWaits, CallReap, unchangedButPc, unchangedButLocals
<1>6. CASE SignalWaits
  BY <1>6 DEF SignalWaits, CallReap, unchangedButPc, unchangedButLocals
<1>7. CASE StartWaitingJobs \/ PopWaitingJob \/ WaitForSlot \/ Defer
  BY <1>7 DEF StartWaitingJobs, LeaveStartWaiting, CallReap, unchangedButPc, unchangedButLocals,
    PopWaitingJob, WaitForSlot, Defer
<1>8. CASE StartJob \/ NullCommand \/ WaitIfSerial
  BY <1>8 DEF StartJob, RunLine, NothingToRun, ForkFails, TakeNextLine, TakeStdin, LeaveStart,
    notice_finished_file, PendingLines, NullCommand, unchangedButPc, unchangedButLocals,
    WaitIfSerial, CallReap
<1>9. CASE ReapNext \/ LeaveReap \/ StoreDeadChildren \/ (\E f \in Files : WaitReturns(f)) \/
      WaitFindsNone \/ WaitFails \/ WaitInterrupted \/ CommandFailed \/ AllCommandsDone
  BY <1>9 DEF ReapNext, MoreToReap, LeaveReap, ReturnFromReap, unchangedButPc,
    unchangedButLocals, StoreDeadChildren, WaitReturns, WaitFindsNone, WaitFails, Die,
    WaitInterrupted, CommandFailed, resultSeen, StdinStillUsed, delete_child_targets,
    AllCommandsDone, CommandSucceeded
<1>10. CASE GiveUpRest \/ RunNextCommand \/ UnblockAfterRestart \/ FinishChild \/ FailureKills
      \/ LoopAgain
  BY <1>10 DEF GiveUpRest, resultSeen, StdinStillUsed, CommandSucceeded, delete_child_targets,
    RunNextCommand, RunLine, NothingToRun, ForkFails, TakeNextLine, TakeStdin,
    notice_finished_file, PendingLines, UnblockAfterRestart, FinishChild, FailureKills,
    unchangedButLocals, Die, LoopAgain
<1>11. CASE (\E f \in Files : ChildWrites(f)) \/ (\E f \in Files, r \in ChildResults :
      ChildExits(f, r)) \/ child_handler \/ (\E s \in Signals : fatal_error_signal(s))
  BY <1>11 DEF ChildWrites, unchangedByChild, ChildExits, child_handler, fatal_error_signal,
    delete_child_targets
<1>12. CASE UNCHANGED vars
  BY <1>12
<1>13. QED
  BY <1>1, <1>2, <1>3, <1>4, <1>5, <1>6, <1>7, <1>8, <1>9, <1>10, <1>11, <1>12 DEF Next, Make,
    Starting, Reaping, System, Exited

\* The place after one that is not the last.
LEMMA NextIndex ==
  ASSUME NEW n \in Nat, NEW i \in 1..(n - 1)
  PROVE  i + 1 \in 1..n /\ i + 1 # 1
OBVIOUS

\* The job being started is on neither chain.
LEMMA StartingStep == IInv /\ [Next]_vars => StartingInv'
<1> SUFFICES ASSUME IInv, [Next]_vars PROVE StartingInv'
  OBVIOUS
<1> USE FilesAssumption DEF vars, fileVars, childVars, chainVars, sigVars, dieVars, sysVars,
    locals, IInv, InReap, ReapPlaces, Results, Local, ReapingInv, OrphanInv, StartingInv,
    BlockedInv, ChainsInv, BeforeOwnStart, TypeOK, FileTypes, ChainTypes, ControlTypes, Frames,
    Returns, NoFrame
<1>1. CASE (\E f \in Files : new_job(f))
  BY <1>1 DEF new_job, unchangedButPc, unchangedButLocals
<1>2. CASE StartWaitingJobs
  BY <1>2 DEF StartWaitingJobs, LeaveStartWaiting, CallReap, unchangedButPc, unchangedButLocals
<1>3. CASE PopWaitingJob
  <2>1. /\ Head(waiting_jobs) = waiting_jobs[1] /\ Len(waiting_jobs) \in Nat \ {0}
        /\ waiting_jobs' \in Seq(Files) /\ Len(waiting_jobs') = Len(waiting_jobs) - 1
        /\ \A i \in 1..Len(waiting_jobs') : waiting_jobs'[i] = waiting_jobs[i + 1]
    BY <1>3, HeadTailProperties DEF PopWaitingJob
  <2>2. c' = waiting_jobs[1] /\ 1 \in DOMAIN waiting_jobs
    BY <1>3, <2>1 DEF PopWaitingJob
  <2>3. c' \in Files \ children /\ proc[c'] = "none"
    BY <2>2
  <2>4. DOMAIN waiting_jobs' = 1..Len(waiting_jobs')
    BY <2>1
  <2>5. \A i \in DOMAIN waiting_jobs' : i + 1 \in DOMAIN waiting_jobs /\ i + 1 # 1
    <3>1. TAKE i \in DOMAIN waiting_jobs'
    <3>2. i \in 1..(Len(waiting_jobs) - 1)
      BY <2>1, <2>4
    <3>3. i + 1 \in 1..Len(waiting_jobs) /\ i + 1 # 1
      BY <2>1, <3>2, NextIndex
    <3>4. QED
      BY <3>3
  <2>6. \A i \in DOMAIN waiting_jobs' : waiting_jobs'[i] = waiting_jobs[i + 1]
    BY <2>1, <2>4
  <2>7. \A i \in DOMAIN waiting_jobs' : waiting_jobs'[i] # c'
    <3>1. \A i, j \in DOMAIN waiting_jobs : waiting_jobs[i] = waiting_jobs[j] => i = j
      OBVIOUS
    <3>2. TAKE i \in DOMAIN waiting_jobs'
    <3>3. waiting_jobs[i + 1] # waiting_jobs[1]
      BY <2>2, <2>5, <3>1
    <3>4. QED
      BY <2>2, <2>6, <3>3
  <2>8. QED
    BY <1>3, <2>3, <2>7 DEF PopWaitingJob
<1>4. CASE WaitForSlot
  BY <1>4 DEF WaitForSlot, CallReap, unchangedButPc, unchangedButLocals
<1>5. CASE Defer
  BY <1>5 DEF Defer, LeaveStartWaiting, CallReap
<1>6. CASE StartJob
  BY <1>6 DEF StartJob, RunLine, NothingToRun, ForkFails, TakeNextLine, TakeStdin, LeaveStart,
    notice_finished_file, PendingLines
<1>7. CASE PutOnChain
  BY <1>7 DEF PutOnChain, LeaveStart
<1>8. CASE ReapNext
  BY <1>8 DEF ReapNext, MoreToReap
<1>9. CASE LeaveReap
  BY <1>9 DEF LeaveReap, ReturnFromReap, unchangedButPc, unchangedButLocals
<1>10. CASE WaitFindsNone
  BY <1>10 DEF WaitFindsNone, ReturnFromReap, unchangedButPc, unchangedButLocals
<1>11. CASE (\E f \in Files : WaitReturns(f))
  BY <1>11 DEF WaitReturns
<1>12. CASE RunNextCommand
  BY <1>12 DEF RunNextCommand, resultSeen, StdinStillUsed, CommandSucceeded, RunLine,
    NothingToRun, ForkFails, TakeNextLine, TakeStdin, notice_finished_file,
    delete_child_targets, PendingLines
<1>13. CASE TakeOffChain
  BY <1>13 DEF TakeOffChain
<1>14. CASE FailureKills
  BY <1>14 DEF FailureKills, unchangedButLocals, Die
<1>15. CASE LoopAgain
  BY <1>15 DEF LoopAgain, unchangedButLocals
<1>16. CASE (\E s \in Signals : fatal_error_signal(s))
  BY <1>16 DEF fatal_error_signal, delete_child_targets
<1>17. CASE NullCommand
  BY <1>17 DEF NullCommand, unchangedButPc, unchangedButLocals
<1>18. CASE WaitIfSerial
  BY <1>18 DEF WaitIfSerial, CallReap, unchangedButPc, unchangedButLocals
<1>19. CASE (\E f \in Files, r \in ChildResults : ChildExits(f, r))
  <2>1. PICK f \in Files, r \in ChildResults : ChildExits(f, r)
    BY <1>19
  <2>2. r # "none" /\ proc[f] = "running" /\ proc' = [proc EXCEPT ![f] = r]
    BY <2>1, FlagsAssumption DEF ChildExits
  <2>3. UNCHANGED <<pc, c, new_file, frame, children, waiting_jobs>>
    BY <2>1 DEF ChildExits, unchangedByChild
  <2>4. pc = "chain" => proc'[c] # "none"
    BY <2>2
  <2>5. pc = "start" => proc'[c] = "none"
    BY <2>2
  <2>6. QED
    BY <2>3, <2>4, <2>5
<1>20. CASE WaitForGoals \/ Finish
  BY <1>20 DEF WaitForGoals, unchangedButPc, unchangedButLocals, Finish, Die
<1>21. CASE DieWaits
  BY <1>21 DEF DieWaits, CallReap, unchangedButPc, unchangedButLocals
<1>22. CASE SignalWaits
  BY <1>22 DEF SignalWaits, CallReap, unchangedButPc, unchangedButLocals
<1>23. CASE StoreDeadChildren \/ WaitFails \/ WaitInterrupted \/ CommandFailed \/
      AllCommandsDone
  BY <1>23 DEF StoreDeadChildren, WaitFails, Die, unchangedButLocals, WaitInterrupted,
    CommandFailed, resultSeen, StdinStillUsed, delete_child_targets, AllCommandsDone,
    CommandSucceeded
<1>24. CASE GiveUpRest \/ UnblockAfterRestart \/ FinishChild \/ FreeSlot
  BY <1>24 DEF GiveUpRest, resultSeen, StdinStillUsed, CommandSucceeded, delete_child_targets,
    UnblockAfterRestart, FinishChild, notice_finished_file, FreeSlot
<1>25. CASE (\E f \in Files : ChildWrites(f)) \/ child_handler
  BY <1>25 DEF ChildWrites, unchangedByChild, child_handler
<1>26. CASE UNCHANGED vars
  BY <1>26
<1>27. QED
  BY <1>1, <1>2, <1>3, <1>4, <1>5, <1>6, <1>7, <1>8, <1>9, <1>10, <1>11, <1>12, <1>13, <1>14,
    <1>15, <1>16, <1>17, <1>18, <1>19, <1>20, <1>21, <1>22, <1>23, <1>24, <1>25, <1>26 DEF Next,
    Make, Starting, Reaping, System, Exited

\* A job is on one chain, once.
LEMMA ChainsStep == IInv /\ [Next]_vars => ChainsInv'
<1> SUFFICES ASSUME IInv, [Next]_vars PROVE ChainsInv'
  OBVIOUS
<1> USE FilesAssumption DEF vars, fileVars, childVars, chainVars, sigVars, dieVars, sysVars,
    locals, IInv, InReap, ReapPlaces, Results, Local, ReapingInv, OrphanInv, StartingInv,
    BlockedInv, ChainsInv, BeforeOwnStart, TypeOK, FileTypes, ChainTypes, ControlTypes, Frames,
    Returns, NoFrame
<1>1. CASE (\E f \in Files : new_job(f))
  BY <1>1 DEF new_job, unchangedButPc, unchangedButLocals
<1>2. CASE StartWaitingJobs
  BY <1>2 DEF StartWaitingJobs, LeaveStartWaiting, CallReap, unchangedButPc, unchangedButLocals
<1>3. CASE PopWaitingJob
  <2>1. /\ Head(waiting_jobs) = waiting_jobs[1] /\ Len(waiting_jobs) \in Nat \ {0}
        /\ waiting_jobs' \in Seq(Files) /\ Len(waiting_jobs') = Len(waiting_jobs) - 1
        /\ \A i \in 1..Len(waiting_jobs') : waiting_jobs'[i] = waiting_jobs[i + 1]
    BY <1>3, HeadTailProperties DEF PopWaitingJob
  <2>2. c' = waiting_jobs[1] /\ 1 \in DOMAIN waiting_jobs
    BY <1>3, <2>1 DEF PopWaitingJob
  <2>3. /\ DOMAIN waiting_jobs = 1..Len(waiting_jobs)
        /\ DOMAIN waiting_jobs' = 1..Len(waiting_jobs')
    BY <2>1
  <2>6. \A i \in DOMAIN waiting_jobs' : /\ i + 1 \in DOMAIN waiting_jobs /\ i + 1 # 1
                                        /\ waiting_jobs'[i] = waiting_jobs[i + 1]
    <3>1. TAKE i \in DOMAIN waiting_jobs'
    <3>2. Len(waiting_jobs) \in Nat /\ Len(waiting_jobs') = Len(waiting_jobs) - 1
      BY <2>1
    <3>3. i \in 1..(Len(waiting_jobs) - 1)
      BY <2>3, <3>2
    <3>4. i + 1 \in 1..Len(waiting_jobs) /\ i + 1 # 1
      BY <3>2, <3>3, NextIndex
    <3>5. QED
      BY <2>1, <2>3, <3>4
  <2>7. \A i, j \in DOMAIN waiting_jobs' :
          waiting_jobs'[i] = waiting_jobs'[j] => i = j
    BY <2>6, <2>3, <2>1
  <2>4. command_state[c'] # "not_started" /\ c' \notin children
    BY <2>2
  <2>5. QED
    BY <1>3, <2>1, <2>2, <2>4, <2>6, <2>7 DEF PopWaitingJob
<1>4. CASE WaitForSlot
  BY <1>4 DEF WaitForSlot, CallReap, unchangedButPc, unchangedButLocals
<1>5. CASE Defer
  <2>1. /\ c \in Files \ children
        /\ \A i \in DOMAIN waiting_jobs : waiting_jobs[i] # c
    BY <1>5 DEF Defer
  <2>2. /\ waiting_jobs' \in Seq(Files) /\ Len(waiting_jobs') = Len(waiting_jobs) + 1
        /\ \A i \in 1..Len(waiting_jobs') :
             waiting_jobs'[i] = IF i = 1 THEN c ELSE waiting_jobs[i - 1]
    BY <1>5, <2>1, ConcatProperties DEF Defer
  <2>3. \A i \in DOMAIN waiting_jobs' : i = 1 \/ i - 1 \in DOMAIN waiting_jobs
    BY <2>2
  <2>4. command_state' = [command_state EXCEPT ![c] = "running"] /\ UNCHANGED children
    BY <1>5 DEF Defer
  <2>5. BeforeOwnStart' => command_state[new_file] = "not_started" /\ new_file # c
    BY <1>5 DEF Defer, LeaveStartWaiting, CallReap
  <2>6. pc' \notin {"start", "chain"}
    BY <1>5 DEF Defer, LeaveStartWaiting, CallReap
  <2>7. /\ \A i \in DOMAIN waiting_jobs' :
             /\ command_state'[waiting_jobs'[i]] # "not_started"
             /\ waiting_jobs'[i] \notin children'
        /\ \A f \in children' : command_state'[f] # "not_started"
    <3>1. \A f \in Files : command_state[f] # "not_started" => command_state'[f] # "not_started"
      BY <2>4
    <3>2. command_state'[c] # "not_started"
      BY <2>1, <2>4
    <3>3. DOMAIN waiting_jobs' = 1..Len(waiting_jobs')
      BY <2>2
    <3>4. ASSUME NEW i \in DOMAIN waiting_jobs'
          PROVE  command_state'[waiting_jobs'[i]] # "not_started" /\ waiting_jobs'[i] \notin children
      <4>1. CASE i = 1
        BY <2>1, <2>2, <3>2, <3>3, <4>1
      <4>2. CASE i # 1
        BY <2>1, <2>2, <2>3, <3>1, <3>3, <4>2
      <4>3. QED
        BY <4>1, <4>2
    <3>5. \A f \in children' : command_state'[f] # "not_started"
      BY <2>4, <3>1
    <3>6. QED
      BY <2>4, <3>4, <3>5
  <2>8. \A i, j \in DOMAIN waiting_jobs' :
          waiting_jobs'[i] = waiting_jobs'[j] => i = j
    <3>1. DOMAIN waiting_jobs' = 1..(Len(waiting_jobs) + 1) /\ Len(waiting_jobs) \in Nat
      BY <2>2
    <3>2. TAKE i, j \in DOMAIN waiting_jobs'
    <3>3. CASE i = 1 \/ j = 1
      BY <2>1, <2>2, <2>3, <3>1, <3>3
    <3>4. CASE i # 1 /\ j # 1
      <4>1. i - 1 \in DOMAIN waiting_jobs /\ j - 1 \in DOMAIN waiting_jobs
        BY <2>3, <3>4
      <4>2. waiting_jobs'[i] = waiting_jobs[i - 1] /\ waiting_jobs'[j] = waiting_jobs[j - 1]
        BY <2>2, <3>1, <3>4
      <4>3. waiting_jobs'[i] = waiting_jobs'[j] => i - 1 = j - 1
        <5>1. \A k, l \in DOMAIN waiting_jobs : waiting_jobs[k] = waiting_jobs[l] => k = l
          OBVIOUS
        <5>2. waiting_jobs[i - 1] = waiting_jobs[j - 1] => i - 1 = j - 1
          BY <4>1, <5>1
        <5>3. QED
          BY <4>2, <5>2
      <4>4. QED
        BY <3>1, <4>3
    <3>5. QED
      BY <3>3, <3>4
  <2>9. BeforeOwnStart' => command_state'[new_file'] = "not_started"
    BY <1>5, <2>4, <2>5 DEF Defer
  <2>10. QED
    BY <2>6, <2>7, <2>8, <2>9
<1>6. CASE StartJob
  <2>1. c \in Files \ children /\ UNCHANGED <<children, waiting_jobs, new_file, frame>>
    BY <1>6 DEF StartJob
  <2>2. \E st \in {"running", "finished"} : command_state' = [command_state EXCEPT ![c] = st]
    BY <1>6 DEF StartJob, RunLine, NothingToRun, ForkFails, notice_finished_file
  <2>3. \A f \in Files : command_state'[f] # "not_started" \/ command_state'[f] = command_state[f]
    BY <2>2
  <2>4. command_state'[c] # "not_started"
    BY <2>1, <2>2
  <2>5. (pc' = "chain" /\ c' = c) \/ (pc' \in {"serial", "sw"} /\ (pc' = "sw" => c # new_file))
    BY <1>6 DEF StartJob, LeaveStart
  <2>6. BeforeOwnStart' => command_state'[new_file'] = "not_started"
    <3>1. BeforeOwnStart' => command_state[new_file] = "not_started" /\ new_file # c
      <4>1. pc = "start"
        BY <1>6 DEF StartJob
      <4>2. CASE pc' = "chain" /\ c' = c
        BY <2>1, <4>1, <4>2
      <4>3. CASE pc' \in {"serial", "sw"} /\ (pc' = "sw" => c # new_file)
        BY <2>1, <4>1, <4>3
      <4>4. QED
        BY <2>5, <4>2, <4>3
    <3>2. \A f \in Files : f # c => command_state'[f] = command_state[f]
      BY <2>2
    <3>3. QED
      BY <2>1, <3>1, <3>2
  <2>7. QED
    BY <2>1, <2>3, <2>4, <2>5, <2>6
<1>7. CASE PutOnChain
  BY <1>7 DEF PutOnChain, LeaveStart
<1>8. CASE ReapNext
  BY <1>8 DEF ReapNext, MoreToReap
<1>9. CASE LeaveReap
  BY <1>9 DEF LeaveReap, ReturnFromReap, unchangedButPc, unchangedButLocals
<1>10. CASE WaitFindsNone
  <2>1. /\ pc = "reap_wait" /\ pc' = frame.return /\ frame.return \in Returns
        /\ UNCHANGED <<command_state, children, waiting_jobs, c, new_file>>
    BY <1>10, FrameFacts
       DEF WaitFindsNone, ReturnFromReap, unchangedButPc, unchangedButLocals
  <2>2. pc' \notin {"start", "chain", "sw"} \cup ReapPlaces
    BY <2>1
  <2>3. BeforeOwnStart' => BeforeOwnStart
    BY <2>1, <2>2
  <2>4. QED
    BY <2>1, <2>2, <2>3
<1>11. CASE (\E f \in Files : WaitReturns(f))
  BY <1>11 DEF WaitReturns
<1>12. CASE RunNextCommand
  <2>1. c \in children /\ pc = "reap_status"
    BY <1>12 DEF RunNextCommand, CommandSucceeded
  <2>2. UNCHANGED <<children, waiting_jobs, new_file, frame>>
        /\ pc' \in {"reap_unblock", "reap_finish"}
    BY <1>12 DEF RunNextCommand, resultSeen
  <2>3. \E st \in {"running", "finished"} : command_state' = [command_state EXCEPT ![c] = st]
    BY <1>12 DEF RunNextCommand, RunLine, NothingToRun, ForkFails, notice_finished_file
  <2>4. \A f \in Files : f # c => command_state'[f] = command_state[f]
    BY <2>3
  <2>5. command_state'[c] # "not_started"
    BY <2>1, <2>3
  <2>6. BeforeOwnStart' => BeforeOwnStart /\ new_file # c
    BY <2>1, <2>2
  <2>7. QED
    BY <2>1, <2>2, <2>4, <2>5, <2>6
<1>13. CASE TakeOffChain
  BY <1>13 DEF TakeOffChain
<1>14. CASE FailureKills
  BY <1>14 DEF FailureKills, unchangedButLocals, Die
<1>15. CASE LoopAgain
  BY <1>15 DEF LoopAgain, unchangedButLocals
<1>16. CASE (\E s \in Signals : fatal_error_signal(s))
  BY <1>16 DEF fatal_error_signal, delete_child_targets
<1>17. CASE FinishChild
  BY <1>17 DEF FinishChild, notice_finished_file
<1>18. CASE WaitForGoals
  BY <1>18 DEF WaitForGoals, unchangedButPc, unchangedButLocals
<1>19. CASE Finish
  BY <1>19 DEF Finish, unchangedButLocals, Die
<1>20. CASE NullCommand
  BY <1>20 DEF NullCommand, unchangedButPc, unchangedButLocals
<1>21. CASE WaitIfSerial
  BY <1>21 DEF WaitIfSerial, CallReap, unchangedButPc, unchangedButLocals
<1>22. CASE StoreDeadChildren
  BY <1>22 DEF StoreDeadChildren
<1>23. CASE WaitFails
  BY <1>23 DEF WaitFails, Die, unchangedButLocals
<1>24. CASE WaitInterrupted
  BY <1>24 DEF WaitInterrupted
<1>25. CASE CommandFailed
  BY <1>25 DEF CommandFailed, resultSeen, StdinStillUsed, delete_child_targets
<1>26. CASE AllCommandsDone
  BY <1>26 DEF AllCommandsDone, resultSeen, StdinStillUsed, CommandSucceeded
<1>27. CASE GiveUpRest
  BY <1>27 DEF GiveUpRest, resultSeen, StdinStillUsed, CommandSucceeded, delete_child_targets
<1>28. CASE UnblockAfterRestart
  BY <1>28 DEF UnblockAfterRestart
<1>29. CASE FreeSlot
  BY <1>29 DEF FreeSlot
<1>30. CASE DieWaits
  BY <1>30 DEF DieWaits, CallReap, unchangedButPc, unchangedButLocals
<1>31. CASE SignalWaits
  BY <1>31 DEF SignalWaits, CallReap, unchangedButPc, unchangedButLocals
<1>32. CASE (\E f \in Files : ChildWrites(f))
  BY <1>32 DEF ChildWrites, unchangedByChild
<1>33. CASE (\E f \in Files, r \in ChildResults : ChildExits(f, r))
  BY <1>33 DEF ChildExits, unchangedByChild
<1>34. CASE child_handler
  BY <1>34 DEF child_handler, unchangedByChild
<1>35. CASE UNCHANGED vars
  BY <1>35
<1>36. QED
  BY <1>1, <1>2, <1>3, <1>4, <1>5, <1>6, <1>7, <1>8, <1>9, <1>10, <1>11, <1>12, <1>13, <1>14,
    <1>15, <1>16, <1>17, <1>18, <1>19, <1>20, <1>21, <1>22, <1>23, <1>24, <1>25, <1>26, <1>27,
    <1>28, <1>29, <1>30, <1>31, <1>32, <1>33, <1>34, <1>35 DEF Next, Make, Starting, Reaping,
    System, Exited

\* The handler never returns to what it interrupted.
LEMMA DyingStep == IInv /\ [Next]_vars => DyingInv'
<1> SUFFICES ASSUME IInv, [Next]_vars PROVE DyingInv'
  OBVIOUS
<1> USE DEF vars, fileVars, childVars, chainVars, sigVars, dieVars, sysVars, locals, IInv,
    DyingInv, InReap, ReapPlaces, TypeOK, ControlTypes, Frames, Returns
<1>1. CASE (\E s \in Signals : fatal_error_signal(s))
  BY <1>1 DEF fatal_error_signal, delete_child_targets
<1>2. CASE LeaveReap
  BY <1>2 DEF LeaveReap, ReturnFromReap, unchangedButPc, unchangedButLocals
<1>3. CASE WaitFindsNone
  BY <1>3 DEF WaitFindsNone, ReturnFromReap, unchangedButPc, unchangedButLocals
<1>4. CASE RunNextCommand
  BY <1>4 DEF RunNextCommand, resultSeen, StdinStillUsed, CommandSucceeded, RunLine,
    NothingToRun, ForkFails, TakeNextLine, TakeStdin, notice_finished_file,
    delete_child_targets, PendingLines
<1>5. CASE LoopAgain
  BY <1>5 DEF LoopAgain, unchangedButLocals
<1>6. CASE FailureKills
  BY <1>6 DEF FailureKills, unchangedButLocals, Die
<1>7. CASE WaitFails
  BY <1>7 DEF WaitFails, Die, unchangedButLocals
<1>8. CASE (\E f \in Files : new_job(f)) \/ WaitForGoals \/ Finish
  BY <1>8 DEF new_job, unchangedButPc, unchangedButLocals, WaitForGoals, Finish, Die
<1>9. CASE DieWaits
  BY <1>9 DEF DieWaits, CallReap, unchangedButPc, unchangedButLocals
<1>10. CASE SignalWaits
  BY <1>10 DEF SignalWaits, CallReap, unchangedButPc, unchangedButLocals
<1>11. CASE StartWaitingJobs \/ PopWaitingJob \/ WaitForSlot \/ Defer
  BY <1>11 DEF StartWaitingJobs, LeaveStartWaiting, CallReap, unchangedButPc,
    unchangedButLocals, PopWaitingJob, WaitForSlot, Defer
<1>12. CASE StartJob \/ NullCommand \/ PutOnChain \/ WaitIfSerial
  BY <1>12 DEF StartJob, RunLine, NothingToRun, ForkFails, TakeNextLine, TakeStdin, LeaveStart,
    notice_finished_file, PendingLines, NullCommand, unchangedButPc, unchangedButLocals,
    PutOnChain, WaitIfSerial, CallReap
<1>13. CASE ReapNext \/ StoreDeadChildren \/ (\E f \in Files : WaitReturns(f)) \/
      WaitInterrupted \/ CommandFailed \/ AllCommandsDone
  BY <1>13 DEF ReapNext, MoreToReap, StoreDeadChildren, WaitReturns, WaitInterrupted,
    CommandFailed, resultSeen, StdinStillUsed, delete_child_targets, AllCommandsDone,
    CommandSucceeded
<1>14. CASE GiveUpRest \/ UnblockAfterRestart \/ FinishChild \/ TakeOffChain \/ FreeSlot
  BY <1>14 DEF GiveUpRest, resultSeen, StdinStillUsed, CommandSucceeded, delete_child_targets,
    UnblockAfterRestart, FinishChild, notice_finished_file, TakeOffChain, FreeSlot
<1>15. CASE (\E f \in Files : ChildWrites(f)) \/ (\E f \in Files, r \in ChildResults :
      ChildExits(f, r)) \/ child_handler
  BY <1>15 DEF ChildWrites, unchangedByChild, ChildExits, child_handler
<1>16. CASE UNCHANGED vars
  BY <1>16
<1>17. QED
  BY <1>1, <1>2, <1>3, <1>4, <1>5, <1>6, <1>7, <1>8, <1>9, <1>10, <1>11, <1>12, <1>13, <1>14,
    <1>15, <1>16 DEF Next, Make, Starting, Reaping, System, Exited

\* Every step keeps the inductive invariant.
LEMMA NextIInv == IInv /\ [Next]_vars => IInv'
<1> SUFFICES ASSUME IInv, [Next]_vars PROVE IInv'
  OBVIOUS
<1>1. TypeOK'
  BY FileTypesStep, ChainTypesStep, ControlTypesStep, FlagTypesStep DEF TypeOK
<1>2. StartingInv' /\ ReapingInv' /\ SlotsInv' /\ BlockedInv'
  BY StartingStep, ReapingStep, SlotsStep, BlockedStep
<1>3. OrphanInv' /\ ChainsInv' /\ StdinInv' /\ DyingInv'
  BY OrphanStep, ChainsStep, StdinStep, DyingStep
<1>4. QED
  BY <1>1, <1>2, <1>3 DEF IInv

-----------------------------------------------------------------------------
\* IInv holds throughout: what is known of the chains, the slots, the blocked
\* windows and the good standard input hangs together at every step.
THEOREM Invariance == Spec => []IInv
<1>1. Init => IInv
  BY InitIInv
<1>2. IInv /\ [Next]_vars => IInv'
  BY NextIInv
<1>3. QED
  BY <1>1, <1>2, PTL DEF Spec

\* Every variable keeps its type.
THEOREM TypeCorrect == Spec => []TypeOK
<1>1. IInv => TypeOK
  BY DEF IInv
<1>2. QED
  BY <1>1, Invariance, PTL

\* Outside the windows where fatal signals are blocked, job_slots_used is the
\* length of the children chain: the loops of die and fatal_error_signal, which
\* run until it is 0, have then reaped every child.
THEOREM SlotsCounted == Spec => []SlotsMatchChain
<1>1. IInv => SlotsMatchChain
  <2>1. SUFFICES ASSUME IInv, ~blocked PROVE job_slots_used = Cardinality(children)
    BY DEF SlotsMatchChain
  <2>2. pc # "reap_slot"
    BY <2>1 DEF IInv, BlockedInv
  <2>3. Cardinality(children) \in Nat
    BY <2>1, FiniteChildren, FS_CardinalityType
  <2>4. QED
    BY <2>1, <2>2, <2>3 DEF IInv, SlotsInv
<1>2. QED
  BY <1>1, Invariance, PTL

\* Whenever a fatal signal may be taken, every process there is is on the chain,
\* so fatal_error_signal can find it and delete what it was making.
THEOREM NoneOrphaned == Spec => []NoOrphan
<1>1. IInv => NoOrphan
  BY DEF IInv, BlockedInv, OrphanInv, NoOrphan
<1>2. QED
  BY <1>1, Invariance, PTL

\* Two commands never share make's own standard input.
THEOREM StdinIsExclusive == Spec => []StdinExclusive
<1>1. IInv => StdinExclusive
  BY DEF IInv, TypeOK, ChainTypes, StdinInv, HoldsStdin, StdinExclusive
<1>2. QED
  BY <1>1, Invariance, PTL

\* Once a fatal signal has been taken no command is started any more, neither
\* a waiting job nor the next line of a child that is being reaped.
THEOREM NoCommandsWhileDying == Spec => NoStartWhileDying
<1> DEFINE Dying == handling_fatal_signal =>
                      \A f \in Files : proc[f] # "running" => proc'[f] # "running"
<1>1. IInv /\ Next => Dying
  <2> SUFFICES ASSUME IInv, Next, handling_fatal_signal, NEW f \in Files, proc[f] # "running"
               PROVE  proc'[f] # "running"
    OBVIOUS
  <2>1. pc \in {"sig", "die", "exited"} \cup ReapPlaces
    BY DEF IInv, DyingInv, InReap
  <2>2. ~Starting /\ ~RunNextCommand
    BY <2>1 DEF ReapPlaces, Starting, StartWaitingJobs, PopWaitingJob, WaitForSlot, Defer, StartJob,
      NullCommand, PutOnChain, WaitIfSerial, RunNextCommand
  <2>3. CASE \E g \in Files : WaitReturns(g)
    BY <2>3 DEF WaitReturns
  <2>4. CASE \E g \in Files, r \in ChildResults : ChildExits(g, r)
    <3>1. PICK g \in Files, r \in ChildResults : proc' = [proc EXCEPT ![g] = r]
      BY <2>4 DEF ChildExits
    <3>2. r # "running"
      BY FlagsAssumption DEF Results
    <3>3. QED
      BY <3>1, <3>2
  <2>5. CASE UNCHANGED proc
    BY <2>5
  <2>6. (\E g \in Files : WaitReturns(g)) \/ UNCHANGED proc
        \/ \E g \in Files, r \in ChildResults : ChildExits(g, r)
    BY <2>2 DEF Next, Make, Starting, Reaping, System, Exited, vars, sysVars, new_job,
      unchangedButPc, unchangedButLocals, WaitForGoals, Finish, ReapNext, LeaveReap,
      StoreDeadChildren, WaitReturns, WaitFindsNone, WaitFails, WaitInterrupted, CommandFailed,
      delete_child_targets, AllCommandsDone, CommandSucceeded, GiveUpRest, UnblockAfterRestart,
      FinishChild, TakeOffChain, FreeSlot, FailureKills, LoopAgain, DieWaits, SignalWaits,
      ChildWrites, unchangedByChild, ChildExits, child_handler, fatal_error_signal
  <2>7. QED
    BY <2>3, <2>4, <2>5, <2>6
<1>2. IInv /\ [Next]_vars => [Dying]_vars
  BY <1>1
<1>3. QED
  BY <1>2, Invariance, PTL DEF Spec, NoStartWhileDying

-----------------------------------------------------------------------------
(* The chain of waiting jobs, and what a step leaves alone.                *)

\* The first of the waiting jobs, and the others.
LEMMA HeadTail ==
  ASSUME waiting_jobs \in Seq(Files), waiting_jobs # <<>>
  PROVE  /\ Head(waiting_jobs) = waiting_jobs[1] /\ 1 \in DOMAIN waiting_jobs
         /\ \A i \in DOMAIN Tail(waiting_jobs) :
              i + 1 \in DOMAIN waiting_jobs /\ Tail(waiting_jobs)[i] = waiting_jobs[i + 1]
<1>1. Len(waiting_jobs) \in Nat \ {0} /\ DOMAIN waiting_jobs = 1..Len(waiting_jobs)
  BY EmptySeq
<1>2. /\ DOMAIN Tail(waiting_jobs) = 1..(Len(waiting_jobs) - 1)
      /\ \A i \in 1..(Len(waiting_jobs) - 1) : Tail(waiting_jobs)[i] = waiting_jobs[i + 1]
  BY <1>1
<1>3. Head(waiting_jobs) = waiting_jobs[1]
  OBVIOUS
<1>4. QED
  BY <1>1, <1>2, <1>3

\* A job put in front of the waiting jobs.
LEMMA PutFirst ==
  ASSUME waiting_jobs \in Seq(Files), NEW f \in Files
  PROVE  \A i \in DOMAIN (<<f>> \o waiting_jobs) :
           \/ (<<f>> \o waiting_jobs)[i] = f
           \/ \E j \in DOMAIN waiting_jobs : (<<f>> \o waiting_jobs)[i] = waiting_jobs[j]
<1> SUFFICES ASSUME NEW i \in DOMAIN (<<f>> \o waiting_jobs), i # 1
             PROVE  \E j \in DOMAIN waiting_jobs : (<<f>> \o waiting_jobs)[i] = waiting_jobs[j]
  OBVIOUS
<1>1. Len(waiting_jobs) \in Nat /\ DOMAIN waiting_jobs = 1..Len(waiting_jobs)
  OBVIOUS
<1>2. i \in 2..(Len(waiting_jobs) + 1) /\ (<<f>> \o waiting_jobs)[i] = waiting_jobs[i - 1]
  BY <1>1
<1>3. i - 1 \in DOMAIN waiting_jobs
  BY <1>1, <1>2
<1>4. QED
  BY <1>2, <1>3

\* Nothing is started behind the back of new_job: a target not begun after a step was
\* not begun before it, and the step has left its lines and its status alone.
LEMMA UntouchedStep == IInv /\ [Next]_vars =>
  \A f \in Files : NotBegun(f)' => NotBegun(f) /\ UNCHANGED <<line[f], log[f], update_status[f]>>
<1> SUFFICES ASSUME IInv, [Next]_vars, NEW f \in Files, NotBegun(f)'
             PROVE  NotBegun(f) /\ UNCHANGED <<line[f], log[f], update_status[f]>>
  OBVIOUS
<1> USE DEF vars, fileVars, childVars, chainVars, sigVars, dieVars, sysVars, locals, IInv,
    TypeOK, FileTypes, ChainTypes, ControlTypes, Local, Frames, Returns, StartingInv,
    ReapingInv, OrphanInv, ChainsInv, BeforeOwnStart, NotBegun
<1>1. CASE PopWaitingJob
  <2>1. waiting_jobs # <<>> /\ c' = waiting_jobs[1] /\ 1 \in DOMAIN waiting_jobs
    BY <1>1, HeadTail DEF PopWaitingJob
  <2>2. \A i \in DOMAIN waiting_jobs' :
          \E j \in DOMAIN waiting_jobs : waiting_jobs'[i] = waiting_jobs[j]
    BY <1>1, HeadTail DEF PopWaitingJob
  <2>3. UNCHANGED <<command_state, line, log, update_status>>
    BY <1>1 DEF PopWaitingJob
  <2>4. CASE f = c'
    BY <2>1, <2>3, <2>4
  <2>5. CASE \E i \in DOMAIN waiting_jobs' : waiting_jobs'[i] = f
    BY <2>2, <2>3, <2>5
  <2>6. QED
    BY <2>3, <2>4, <2>5
<1>2. CASE WaitForSlot
  <2>1. pc' = "start" /\ f = c' => command_state[f] = "not_started"
    BY <1>2, FilesAssumption DEF WaitForSlot, CallReap
  <2>2. UNCHANGED <<waiting_jobs, command_state, line, log, update_status>>
    BY <1>2 DEF WaitForSlot, unchangedButPc, unchangedButLocals
  <2>3. QED
    BY <2>1, <2>2
<1>3. CASE Defer
  <2>1. \A i \in DOMAIN waiting_jobs' :
          waiting_jobs'[i] = c \/ \E j \in DOMAIN waiting_jobs : waiting_jobs'[i] = waiting_jobs[j]
    BY <1>3, PutFirst DEF Defer
  <2>2. pc = "start" /\ pc' # "start" /\ UNCHANGED <<line, log, update_status>>
    BY <1>3 DEF Defer, LeaveStartWaiting, CallReap
  <2>3. command_state'[f] = "not_started" => command_state[f] = "not_started"
    BY <1>3 DEF Defer
  <2>4. QED
    BY <2>1, <2>2, <2>3
<1>4. CASE StartJob
  <2>1. c \in Files /\ pc = "start" /\ pc' # "start" /\ UNCHANGED <<waiting_jobs, log>>
    BY <1>4 DEF StartJob, LeaveStart
  <2>2. f # c => UNCHANGED <<line[f], command_state[f], update_status[f]>>
    BY <1>4, <2>1 DEF StartJob, RunLine, NothingToRun, ForkFails, TakeNextLine, TakeStdin,
      notice_finished_file
  <2>3. command_state'[c] # "not_started"
    BY <1>4, <2>1 DEF StartJob, RunLine, NothingToRun, ForkFails, notice_finished_file
  <2>4. f # c
    BY <2>1, <2>3
  <2>5. QED
    BY <2>1, <2>2, <2>4
<1>5. CASE (\E g \in Files : WaitReturns(g))
  <2>1. PICK g \in Files : WaitReturns(g)
    BY <1>5
  <2>2. NotBegun(f)
    BY <2>1 DEF WaitReturns
  <2>3. g \in children /\ pc = "reap_wait"
    BY <2>1 DEF WaitReturns, Results
  <2>4. f # g
    BY <2>2, <2>3
  <2>5. log'[f] = log[f]
    BY <2>1, <2>4 DEF WaitReturns
  <2>6. QED
    BY <2>1, <2>2, <2>5 DEF WaitReturns
<1>6. CASE CommandFailed
  BY <1>6 DEF CommandFailed, resultSeen, StdinStillUsed, delete_child_targets
<1>7. CASE AllCommandsDone
  BY <1>7 DEF AllCommandsDone, resultSeen, StdinStillUsed, CommandSucceeded
<1>8. CASE GiveUpRest
  BY <1>8 DEF GiveUpRest, resultSeen, StdinStillUsed, CommandSucceeded, delete_child_targets
<1>9. CASE RunNextCommand
  BY <1>9 DEF RunNextCommand, resultSeen, StdinStillUsed, CommandSucceeded, RunLine,
    NothingToRun, ForkFails, TakeNextLine, TakeStdin, notice_finished_file,
    delete_child_targets, PendingLines
<1>10. CASE FinishChild
  BY <1>10 DEF FinishChild, notice_finished_file
<1>11. CASE (\E g \in Files : new_job(g)) \/ WaitForGoals \/ Finish \/ DieWaits
  BY <1>11 DEF new_job, unchangedButPc, unchangedButLocals, WaitForGoals, Finish, Die, DieWaits,
    CallReap
<1>12. CASE SignalWaits \/ StartWaitingJobs \/ NullCommand \/ PutOnChain
  BY <1>12 DEF SignalWaits, CallReap, unchangedButPc, unchangedButLocals, StartWaitingJobs,
    LeaveStartWaiting, NullCommand, PutOnChain, LeaveStart
<1>13. CASE WaitIfSerial \/ ReapNext \/ LeaveReap \/ StoreDeadChildren
  BY <1>13 DEF WaitIfSerial, CallReap, unchangedButPc, unchangedButLocals, ReapNext, MoreToReap,
    LeaveReap, ReturnFromReap, StoreDeadChildren
<1>14. CASE WaitFindsNone \/ WaitFails \/ WaitInterrupted \/ UnblockAfterRestart
  <2>1. CASE WaitFindsNone
    BY <2>1 DEF WaitFindsNone, ReturnFromReap, unchangedButPc, unchangedButLocals
  <2>2. CASE WaitFails
    BY <2>2 DEF WaitFails, Die, unchangedButLocals
  <2>3. CASE WaitInterrupted
    BY <2>3 DEF WaitInterrupted
  <2>4. CASE UnblockAfterRestart
    BY <2>4 DEF UnblockAfterRestart
  <2>5. QED
    BY <1>14, <2>1, <2>2, <2>3, <2>4
<1>15. CASE TakeOffChain \/ FreeSlot \/ FailureKills \/ LoopAgain
  BY <1>15 DEF TakeOffChain, FreeSlot, FailureKills, Die, unchangedButLocals, LoopAgain
<1>16. CASE (\E g \in Files : ChildWrites(g)) \/ (\E g \in Files, r \in ChildResults :
      ChildExits(g, r)) \/ child_handler \/ (\E s \in Signals : fatal_error_signal(s))
  BY <1>16 DEF ChildWrites, unchangedByChild, ChildExits, child_handler, fatal_error_signal,
    delete_child_targets
<1>17. CASE UNCHANGED vars
  BY <1>17
<1>18. QED
  BY <1>1, <1>2, <1>3, <1>4, <1>5, <1>6, <1>7, <1>8, <1>9, <1>10, <1>11, <1>12, <1>13, <1>14,
    <1>15, <1>16, <1>17 DEF Next, Make, Starting, Reaping, System, Exited

\* What start_waiting_job finds in its target.
LEMMA StartFacts ==
  ASSUME IInv, StatusInv, EndedInv, pc = "start"
  PROVE  /\ c \in Files /\ update_status[c] = -1
         /\ command_state[c] # "finished" /\ last_mtime[c] # "zero"
<1>1. c \in Files
  BY DEF IInv, StartingInv
<1>2. update_status[c] = -1
  BY <1>1 DEF EndedInv, NotBegun
<1>3. QED
  BY <1>1, <1>2 DEF StatusInv

\* Every step keeps what is known of statuses and forgotten times.
LEMMA StatusStep == IInv /\ StatusInv /\ EndedInv /\ ReapedInv /\ [Next]_vars => StatusInv'
<1> SUFFICES ASSUME IInv, StatusInv, EndedInv, ReapedInv, [Next]_vars PROVE StatusInv'
  OBVIOUS
<1> USE FlagsAssumption DEF vars, fileVars, childVars, chainVars, sigVars, dieVars, sysVars,
    locals, IInv, TypeOK, FileTypes, ChainTypes, ControlTypes, Local, Frames, Returns,
    FlagTypes, FatalSignals, ReapingInv, DyingInv, InReap, ReapPlaces, StatusInv, ReapedInv
<1>1. CASE Defer
  <2>1. c \in Files /\ command_state[c] # "finished" /\ last_mtime[c] # "zero" /\ pc = "start"
    BY <1>1, StartFacts DEF Defer
  <2>2. pc' # "reap_finish"
    BY <1>1 DEF Defer, LeaveStartWaiting, CallReap
  <2>3. QED
    BY <1>1, <2>1, <2>2 DEF Defer
<1>2. CASE StartJob
  <2>1. c \in Files /\ update_status[c] = -1 /\ command_state[c] # "finished" /\ last_mtime[c] #
        "zero"
    BY <1>2, StartFacts DEF StartJob
  <2>2. CASE RunLine(c, good_stdin_used) /\ pc' = "chain" /\ UNCHANGED c
    BY <1>2, <2>1, <2>2 DEF StartJob, RunLine, TakeNextLine, TakeStdin
  <2>3. CASE NothingToRun(c, good_stdin_used) /\ LeaveStart
    BY <1>2, <2>1, <2>3 DEF StartJob, NothingToRun, notice_finished_file, LeaveStart
  <2>4. CASE ForkFails(c, good_stdin_used) /\ LeaveStart /\ UNCHANGED <<deleted, disk>>
    BY <1>2, <2>1, <2>4 DEF StartJob, ForkFails, TakeNextLine, TakeStdin, notice_finished_file,
      LeaveStart
  <2>5. QED
    BY <1>2, <2>2, <2>3, <2>4 DEF StartJob
<1>3. CASE LeaveReap
  BY <1>3 DEF LeaveReap, MoreToReap, ReturnFromReap, unchangedButPc, unchangedButLocals
<1>4. CASE (\E f \in Files : WaitReturns(f))
  BY <1>4 DEF WaitReturns
<1>5. CASE WaitFindsNone
  BY <1>5 DEF WaitFindsNone, ReturnFromReap, unchangedButPc, unchangedButLocals
<1>6. CASE CommandFailed
  BY <1>6 DEF CommandFailed, resultSeen, StdinStillUsed, delete_child_targets
<1>7. CASE AllCommandsDone
  BY <1>7 DEF AllCommandsDone, resultSeen, StdinStillUsed, CommandSucceeded
<1>8. CASE GiveUpRest
  BY <1>8 DEF GiveUpRest, resultSeen, StdinStillUsed, CommandSucceeded, delete_child_targets
<1>9. CASE RunNextCommand
  <2>1. c \in Files /\ command_state[c] = "running" /\ pc = "reap_status"
    BY <1>9 DEF RunNextCommand, CommandSucceeded
  <2>2. CASE RunLine(c, StdinStillUsed) /\ pc' = "reap_unblock"
    BY <1>9, <2>1, <2>2 DEF RunNextCommand, resultSeen, RunLine, TakeNextLine, TakeStdin,
      StdinStillUsed
  <2>3. CASE NothingToRun(c, StdinStillUsed) /\ pc' = "reap_finish"
    BY <1>9, <2>1, <2>3 DEF RunNextCommand, resultSeen, NothingToRun, notice_finished_file,
      StdinStillUsed
  <2>4. CASE /\ ForkFails(c, StdinStillUsed) /\ pc' = "reap_finish"
             /\ delete_child_targets({c}, last_mtime')
    BY <1>9, <2>1, <2>4 DEF RunNextCommand, resultSeen, ForkFails, TakeNextLine, TakeStdin,
      notice_finished_file, delete_child_targets, StdinStillUsed
  <2>5. QED
    BY <1>9, <2>2, <2>3, <2>4 DEF RunNextCommand
<1>10. CASE FinishChild
  <2>1. c \in Files /\ update_status[c] # -1
    BY <1>10 DEF FinishChild
  <2>2. CASE notice_finished_file(c, update_status[c])
    BY <1>10, <2>1, <2>2 DEF FinishChild, notice_finished_file
  <2>3. CASE UNCHANGED fileVars
    BY <1>10, <2>3 DEF FinishChild
  <2>4. QED
    BY <1>10, <2>2, <2>3 DEF FinishChild
<1>11. CASE (\E s \in Signals : fatal_error_signal(s))
  <2>1. PICK s \in Signals : fatal_error_signal(s)
    BY <1>11
  <2>2. s # "none" /\ sig' = s /\ handling_fatal_signal' /\ pc' = "sig" /\ UNCHANGED fileVars
    BY <2>1, FlagsAssumption DEF fatal_error_signal, FatalSignals
  <2>3. QED
    BY <2>2
<1>12. CASE (\E f \in Files : new_job(f)) \/ WaitForGoals \/ Finish \/ DieWaits
  BY <1>12 DEF new_job, unchangedButPc, unchangedButLocals, WaitForGoals, Finish, Die, DieWaits,
    CallReap
<1>13. CASE SignalWaits \/ StartWaitingJobs \/ PopWaitingJob \/ WaitForSlot
  BY <1>13 DEF SignalWaits, CallReap, unchangedButPc, unchangedButLocals, StartWaitingJobs,
    LeaveStartWaiting, PopWaitingJob, WaitForSlot
<1>14. CASE NullCommand \/ PutOnChain \/ WaitIfSerial \/ ReapNext
  BY <1>14 DEF NullCommand, unchangedButPc, unchangedButLocals, PutOnChain, LeaveStart,
    WaitIfSerial, CallReap, ReapNext, MoreToReap
<1>15. CASE StoreDeadChildren \/ WaitFails \/ WaitInterrupted \/ UnblockAfterRestart
  BY <1>15 DEF StoreDeadChildren, WaitFails, Die, unchangedButLocals, WaitInterrupted,
    UnblockAfterRestart
<1>16. CASE TakeOffChain \/ FreeSlot \/ FailureKills \/ LoopAgain
  BY <1>16 DEF TakeOffChain, FreeSlot, FailureKills, Die, unchangedButLocals, LoopAgain
<1>17. CASE (\E f \in Files : ChildWrites(f)) \/ (\E g \in Files, r \in ChildResults :
      ChildExits(g, r)) \/ child_handler \/ UNCHANGED vars
  BY <1>17 DEF ChildWrites, unchangedByChild, ChildExits, child_handler
<1>18. QED
  BY <1>1, <1>2, <1>3, <1>4, <1>5, <1>6, <1>7, <1>8, <1>9, <1>10, <1>11, <1>12, <1>13, <1>14,
    <1>15, <1>16, <1>17 DEF Next, Make, Starting, Reaping, System, Exited

\* Every step keeps ended targets ended.
LEMMA EndedStep == IInv /\ StatusInv /\ EndedInv /\ [Next]_vars => EndedInv'
<1> SUFFICES ASSUME IInv, StatusInv, EndedInv, [Next]_vars PROVE EndedInv'
  OBVIOUS
<1>0. \A f \in Files : update_status'[f] # -1 => ~NotBegun(f)'
  BY UntouchedStep DEF EndedInv
<1> USE <1>0 DEF vars, fileVars, childVars, chainVars, sigVars, dieVars, sysVars, locals, IInv,
    TypeOK, FileTypes, ChainTypes, ControlTypes, Local, Frames, Returns, Results, StartingInv,
    ReapingInv, OrphanInv, EndedInv
<1>1. CASE StartJob
  <2>1. c \in Files /\ update_status[c] = -1 /\ command_state[c] # "finished" /\ last_mtime[c] #
        "zero"
    BY <1>1, StartFacts DEF StartJob
  <2>2. CASE RunLine(c, good_stdin_used) /\ pc' = "chain" /\ UNCHANGED c
    BY <1>1, <2>1, <2>2 DEF StartJob, RunLine, TakeNextLine, TakeStdin
  <2>3. CASE NothingToRun(c, good_stdin_used) /\ LeaveStart
    BY <1>1, <2>1, <2>3 DEF StartJob, NothingToRun, notice_finished_file, LeaveStart
  <2>4. CASE ForkFails(c, good_stdin_used) /\ LeaveStart /\ UNCHANGED <<deleted, disk>>
    BY <1>1, <2>1, <2>4 DEF StartJob, ForkFails, TakeNextLine, TakeStdin, notice_finished_file,
      LeaveStart
  <2>5. QED
    BY <1>1, <2>2, <2>3, <2>4 DEF StartJob
<1>2. CASE PutOnChain
  BY <1>2 DEF PutOnChain, LeaveStart
<1>3. CASE LeaveReap
  BY <1>3 DEF LeaveReap, MoreToReap, ReturnFromReap, unchangedButPc, unchangedButLocals
<1>4. CASE (\E f \in Files : WaitReturns(f))
  BY <1>4 DEF WaitReturns
<1>5. CASE WaitFindsNone
  BY <1>5 DEF WaitFindsNone, ReturnFromReap, unchangedButPc, unchangedButLocals
<1>6. CASE CommandFailed
  BY <1>6 DEF CommandFailed, resultSeen, StdinStillUsed, delete_child_targets
<1>7. CASE AllCommandsDone
  BY <1>7 DEF AllCommandsDone, resultSeen, StdinStillUsed, CommandSucceeded
<1>8. CASE GiveUpRest
  BY <1>8 DEF GiveUpRest, resultSeen, StdinStillUsed, CommandSucceeded, delete_child_targets
<1>9. CASE RunNextCommand
  <2>1. c \in Files /\ pc = "reap_status" /\ ~handling_fatal_signal
    BY <1>9 DEF RunNextCommand, CommandSucceeded
  <2>2. CASE RunLine(c, StdinStillUsed) /\ pc' = "reap_unblock"
    BY <1>9, <2>1, <2>2 DEF RunNextCommand, resultSeen, RunLine, TakeNextLine, TakeStdin,
      StdinStillUsed
  <2>3. CASE NothingToRun(c, StdinStillUsed) /\ pc' = "reap_finish"
    BY <1>9, <2>1, <2>3 DEF RunNextCommand, resultSeen, NothingToRun, notice_finished_file,
      StdinStillUsed
  <2>4. CASE /\ ForkFails(c, StdinStillUsed) /\ pc' = "reap_finish"
             /\ delete_child_targets({c}, last_mtime')
    BY <1>9, <2>1, <2>4 DEF RunNextCommand, resultSeen, ForkFails, TakeNextLine, TakeStdin,
      notice_finished_file, delete_child_targets, StdinStillUsed
  <2>5. QED
    BY <1>9, <2>2, <2>3, <2>4 DEF RunNextCommand
<1>10. CASE UnblockAfterRestart
  BY <1>10 DEF UnblockAfterRestart
<1>11. CASE FinishChild
  BY <1>11 DEF FinishChild, notice_finished_file
<1>12. CASE (\E g \in Files, r \in ChildResults : ChildExits(g, r))
  BY <1>12 DEF ChildExits, unchangedByChild
<1>13. CASE (\E f \in Files : new_job(f)) \/ WaitForGoals \/ Finish \/ DieWaits
  BY <1>13 DEF new_job, unchangedButPc, unchangedButLocals, WaitForGoals, Finish, Die, DieWaits,
    CallReap
<1>14. CASE SignalWaits \/ StartWaitingJobs \/ PopWaitingJob \/ WaitForSlot
  BY <1>14 DEF SignalWaits, CallReap, unchangedButPc, unchangedButLocals, StartWaitingJobs,
    LeaveStartWaiting, PopWaitingJob, WaitForSlot
<1>15. CASE Defer \/ NullCommand \/ WaitIfSerial \/ ReapNext
  <2>1. CASE Defer
    BY <2>1 DEF Defer, LeaveStartWaiting, CallReap
  <2>2. CASE NullCommand
    BY <2>2 DEF NullCommand, unchangedButPc, unchangedButLocals
  <2>3. CASE WaitIfSerial
    BY <2>3 DEF WaitIfSerial, CallReap, unchangedButPc, unchangedButLocals
  <2>4. CASE ReapNext
    BY <2>4 DEF ReapNext, MoreToReap, unchangedButPc, unchangedButLocals
  <2>5. QED
    BY <1>15, <2>1, <2>2, <2>3, <2>4
<1>16. CASE StoreDeadChildren \/ WaitFails \/ WaitInterrupted \/ TakeOffChain
  BY <1>16 DEF StoreDeadChildren, WaitFails, Die, unchangedButLocals, WaitInterrupted,
    TakeOffChain
<1>17. CASE FreeSlot \/ FailureKills \/ LoopAgain \/ (\E f \in Files : ChildWrites(f))
  BY <1>17 DEF FreeSlot, FailureKills, Die, unchangedButLocals, LoopAgain, ChildWrites,
    unchangedByChild
<1>18. CASE child_handler \/ (\E s \in Signals : fatal_error_signal(s)) \/ UNCHANGED vars
  BY <1>18 DEF child_handler, unchangedByChild, fatal_error_signal, delete_child_targets
<1>19. QED
  BY <1>1, <1>2, <1>3, <1>4, <1>5, <1>6, <1>7, <1>8, <1>9, <1>10, <1>11, <1>12, <1>13, <1>14,
    <1>15, <1>16, <1>17, <1>18 DEF Next, Make, Starting, Reaping, System, Exited

\* Every step keeps the children on the chain alive.
LEMMA LiveStep == IInv /\ StatusInv /\ LiveInv /\ LineInv /\ [Next]_vars => LiveInv'
<1> SUFFICES ASSUME IInv, StatusInv, LiveInv, LineInv, [Next]_vars PROVE LiveInv'
  OBVIOUS
<1> USE FlagsAssumption DEF vars, fileVars, childVars, chainVars, sigVars, dieVars, sysVars,
    locals, IInv, TypeOK, FileTypes, ChainTypes, ControlTypes, Local, Frames, Returns,
    FlagTypes, Results, StartingInv, ReapingInv, OrphanInv, ChainsInv, DyingInv, InReap,
    ReapPlaces, StatusInv, LiveInv, LineInv
<1>1. CASE Defer
  BY <1>1 DEF Defer, LeaveStartWaiting, CallReap
<1>2. CASE StartJob
  BY <1>2 DEF StartJob, RunLine, NothingToRun, ForkFails, TakeNextLine, TakeStdin, LeaveStart,
    notice_finished_file, PendingLines
<1>3. CASE PutOnChain
  BY <1>3 DEF PutOnChain, LeaveStart
<1>4. CASE LeaveReap
  BY <1>4 DEF LeaveReap, MoreToReap, ReturnFromReap, unchangedButPc, unchangedButLocals
<1>5. CASE (\E f \in Files : WaitReturns(f))
  BY <1>5 DEF WaitReturns
<1>6. CASE WaitFindsNone
  BY <1>6 DEF WaitFindsNone, ReturnFromReap, unchangedButPc, unchangedButLocals
<1>7. CASE CommandFailed
  BY <1>7 DEF CommandFailed, resultSeen, StdinStillUsed, delete_child_targets
<1>8. CASE AllCommandsDone
  BY <1>8 DEF AllCommandsDone, resultSeen, StdinStillUsed, CommandSucceeded
<1>9. CASE GiveUpRest
  BY <1>9 DEF GiveUpRest, resultSeen, StdinStillUsed, CommandSucceeded, delete_child_targets
<1>10. CASE RunNextCommand
  BY <1>10 DEF RunNextCommand, resultSeen, StdinStillUsed, CommandSucceeded, RunLine,
    NothingToRun, ForkFails, TakeNextLine, TakeStdin, notice_finished_file,
    delete_child_targets, PendingLines
<1>11. CASE FinishChild
  BY <1>11 DEF FinishChild, notice_finished_file
<1>12. CASE TakeOffChain
  BY <1>12 DEF TakeOffChain
<1>13. CASE (\E g \in Files, r \in ChildResults : ChildExits(g, r))
  <2>1. PICK g \in Files, r \in ChildResults : ChildExits(g, r)
    BY <1>13
  <2>2. r # "none" /\ proc' = [proc EXCEPT ![g] = r]
    BY <2>1, FlagsAssumption DEF ChildExits
  <2>3. \A f \in Files : proc'[f] = "none" => proc[f] = "none"
    BY <2>2
  <2>4. QED
    BY <2>1, <2>3 DEF ChildExits, unchangedByChild
<1>14. CASE (\E f \in Files : new_job(f)) \/ WaitForGoals \/ Finish \/ DieWaits
  BY <1>14 DEF new_job, unchangedButPc, unchangedButLocals, WaitForGoals, Finish, Die, DieWaits,
    CallReap
<1>15. CASE SignalWaits \/ StartWaitingJobs \/ PopWaitingJob \/ WaitForSlot
  BY <1>15 DEF SignalWaits, CallReap, unchangedButPc, unchangedButLocals, StartWaitingJobs,
    LeaveStartWaiting, PopWaitingJob, WaitForSlot
<1>16. CASE NullCommand \/ WaitIfSerial \/ ReapNext \/ StoreDeadChildren
  <2>1. CASE NullCommand
    BY <2>1 DEF NullCommand, unchangedButPc, unchangedButLocals
  <2>2. CASE WaitIfSerial
    BY <2>2 DEF WaitIfSerial, CallReap, unchangedButPc, unchangedButLocals
  <2>3. CASE ReapNext
    BY <2>3 DEF ReapNext, MoreToReap, unchangedButPc, unchangedButLocals
  <2>4. CASE StoreDeadChildren
    BY <2>4 DEF StoreDeadChildren
  <2>5. QED
    BY <1>16, <2>1, <2>2, <2>3, <2>4
<1>17. CASE WaitFails \/ WaitInterrupted \/ UnblockAfterRestart \/ FreeSlot
  <2>1. CASE WaitFails
    BY <2>1 DEF WaitFails, Die, unchangedButLocals
  <2>2. CASE WaitInterrupted
    BY <2>2 DEF WaitInterrupted
  <2>3. CASE UnblockAfterRestart
    BY <2>3 DEF UnblockAfterRestart
  <2>4. CASE FreeSlot
    BY <2>4 DEF FreeSlot
  <2>5. QED
    BY <1>17, <2>1, <2>2, <2>3, <2>4
<1>18. CASE FailureKills \/ LoopAgain \/ (\E f \in Files : ChildWrites(f)) \/ child_handler
  BY <1>18 DEF FailureKills, Die, unchangedButLocals, LoopAgain, ChildWrites, unchangedByChild,
    child_handler
<1>19. CASE (\E s \in Signals : fatal_error_signal(s)) \/ UNCHANGED vars
  BY <1>19 DEF fatal_error_signal, delete_child_targets
<1>20. QED
  BY <1>1, <1>2, <1>3, <1>4, <1>5, <1>6, <1>7, <1>8, <1>9, <1>10, <1>11, <1>12, <1>13, <1>14,
    <1>15, <1>16, <1>17, <1>18, <1>19 DEF Next, Make, Starting, Reaping, System, Exited

-----------------------------------------------------------------------------
(* The lines of a target and its history.                                  *)

\* What the service sees of a target depends on its history only.
LEMMA SameHistory ==
  ASSUME NEW f \in Files, log'[f] = log[f]
  PROVE  /\ Service!AllPassed(f)' <=> Service!AllPassed(f)
         /\ Service!LinesLeft(f)' = Service!LinesLeft(f)
<1>1. Service!LastLine(f)' = Service!LastLine(f)
  BY DEF Service!LastLine
<1>2. QED
  BY <1>1 DEF Service!AllPassed, Service!Passes, Service!LinesLeft

\* The same for the child being reaped.
LEMMA SameHistoryOfChild ==
  ASSUME log'[c] = log[c], c' = c
  PROVE  /\ Service!AllPassed(c)' <=> Service!AllPassed(c)
         /\ Service!LinesLeft(c)' = Service!LinesLeft(c)
<1>1. Service!LastLine(c)' = Service!LastLine(c)
  BY DEF Service!LastLine
<1>2. QED
  BY <1>1 DEF Service!AllPassed, Service!Passes, Service!LinesLeft

\* The next line of a child is the first of those left that runs anything.
LEMMA NextLine ==
  ASSUME line \in [Files -> Nat], NEW f \in Files, TakeNextLine(f)
  PROVE  /\ line'[f] \in PendingLines(f) /\ \A j \in PendingLines(f) : line'[f] <= j
         /\ \A g \in Files : g # f => line'[g] = line[g]
BY DEF TakeNextLine

\* Before its first line a target has no history, and all its lines are left.
LEMMA FirstLines ==
  ASSUME NEW f \in Files, log[f] = <<>>, line[f] = 0
  PROVE  Service!AllPassed(f) /\ Service!LinesLeft(f) = PendingLines(f)
<1>1. Service!AllPassed(f)
  BY DEF Service!AllPassed
<1>2. Service!LastLine(f) = 0
  BY DEF Service!LastLine
<1>3. QED
  BY <1>1, <1>2 DEF Service!LinesLeft, PendingLines

\* When a line has been reaped, the lines left are those after it, and all lines have
\* passed if and only if reap_children goes on.
LEMMA ReapedLines ==
  ASSUME TypeOK, ReapedInv, pc = "reap_status", c \in Files
  PROVE  /\ Service!LinesLeft(c) = PendingLines(c)
         /\ Service!AllPassed(c) <=> ~child_failed \/ Ignored
<1> DEFINE n == Len(log[c])
<1>1. log[c] \in Seq(LogEntries) /\ log[c] # <<>>
  BY DEF TypeOK, FileTypes, ReapedInv
<1>2. n \in Nat \ {0}
  BY <1>1, EmptySeq
<1>3. log[c][n] = <<line[c], result>>
  BY DEF ReapedInv
<1>4. Service!LastLine(c) = line[c]
  BY <1>1, <1>3 DEF Service!LastLine
<1>5. Service!LinesLeft(c) = PendingLines(c)
  BY <1>4 DEF Service!LinesLeft, PendingLines
<1>6. Service!Passes(c, log[c][n]) <=> ~child_failed \/ Ignored
  <2>1. child_failed <=> result # "ok"
    BY DEF ReapedInv
  <2>2. log[c][n][1] = line[c] /\ log[c][n][2] = result
    BY <1>3
  <2>3. Service!Passes(c, log[c][n]) <=> result = "ok" \/ Ignored
    BY <2>2 DEF Service!Passes, Ignored
  <2>4. QED
    BY <2>1, <2>3
<1>7. Service!AllPassed(c) <=> Service!Passes(c, log[c][n])
  <2>1. \A i \in 1..(n - 1) : Service!Passes(c, log[c][i])
    BY DEF ReapedInv
  <2>2. \A i \in 1..n : i = n \/ i \in 1..(n - 1)
    BY <1>2
  <2>3. n \in 1..n
    BY <1>2
  <2>4. QED
    BY <2>1, <2>2, <2>3 DEF Service!AllPassed
<1>8. QED
  BY <1>5, <1>6, <1>7

\* Every step leaves the lines of a target that has not begun alone.
LEMMA BegunStep == IInv /\ BegunInv /\ [Next]_vars => BegunInv'
BY UntouchedStep DEF BegunInv

\* Every step keeps every child on a line it may be on.
LEMMA LineStep == IInv /\ StatusInv /\ BegunInv /\ LineInv /\ ReapedInv /\ [Next]_vars => LineInv'
<1> SUFFICES ASSUME IInv, StatusInv, BegunInv, LineInv, ReapedInv, [Next]_vars PROVE LineInv'
  OBVIOUS
<1>0. \A f \in Files : log'[f] = log[f] =>
        /\ Service!AllPassed(f)' <=> Service!AllPassed(f)
        /\ Service!LinesLeft(f)' = Service!LinesLeft(f)
  BY SameHistory
<1> USE <1>0 DEF vars, fileVars, childVars, chainVars, sigVars, dieVars, sysVars, locals, IInv,
    TypeOK, FileTypes, ChainTypes, ControlTypes, Local, Frames, Returns, Results, StartingInv,
    ReapingInv, LineInv, OnLine
<1>1. CASE Defer
  BY <1>1 DEF Defer, LeaveStartWaiting, CallReap
<1>2. CASE StartJob
  <2>1. c \in Files /\ log[c] = <<>> /\ line[c] = 0 /\ UNCHANGED log
    BY <1>2 DEF StartJob, BegunInv, NotBegun
  <2>2. Service!AllPassed(c) /\ Service!LinesLeft(c) = PendingLines(c)
    BY <2>1, FirstLines
  <2>3. CASE RunLine(c, good_stdin_used)
    <3>1. /\ line'[c] \in PendingLines(c) /\ \A j \in PendingLines(c) : line'[c] <= j
          /\ \A g \in Files : g # c => line'[g] = line[g]
      BY <2>1, <2>3, NextLine DEF RunLine
    <3>2. \A g \in Files : g # c => UNCHANGED <<proc[g], command_state[g]>>
      BY <2>1, <2>3 DEF RunLine
    <3>3. command_state'[c] = "running"
      BY <2>1, <2>3 DEF RunLine
    <3>4. ASSUME NEW g \in Files, g = c
          PROVE  command_state'[g] = "running" /\ Service!AllPassed(g)' /\ OnLine(g)'
      BY <2>1, <2>2, <3>1, <3>3, <3>4
    <3>5. ASSUME NEW g \in Files, g # c, proc'[g] # "none"
          PROVE  command_state'[g] = "running" /\ Service!AllPassed(g)' /\ OnLine(g)'
      <4>1. UNCHANGED <<log[g], line[g], proc[g], command_state[g]>>
        BY <2>1, <3>1, <3>2, <3>5
      <4>2. command_state[g] = "running" /\ Service!AllPassed(g) /\ OnLine(g)
        BY <3>5, <4>1
      <4>3. QED
        BY <4>1, <4>2
    <3>6. QED
      BY <3>4, <3>5
  <2>4. CASE NothingToRun(c, good_stdin_used)
    BY <1>2, <2>1, <2>4 DEF StartJob, NothingToRun, notice_finished_file
  <2>5. CASE ForkFails(c, good_stdin_used)
    <3>1. \A g \in Files : g # c => line'[g] = line[g]
      BY <2>1, <2>5, NextLine DEF ForkFails
    <3>2. QED
      BY <1>2, <2>1, <2>5, <3>1 DEF StartJob, ForkFails, notice_finished_file
  <2>6. QED
    BY <1>2, <2>3, <2>4, <2>5 DEF StartJob
<1>3. CASE (\E f \in Files : WaitReturns(f))
  <2>1. PICK g \in Files : WaitReturns(g)
    BY <1>3
  <2>2. proc'[g] = "none" /\ UNCHANGED <<line, command_state>>
    BY <2>1 DEF WaitReturns
  <2>3. \A f \in Files : f # g => UNCHANGED <<proc[f], log[f]>>
    BY <2>1 DEF WaitReturns
  <2>4. QED
    BY <2>2, <2>3
<1>4. CASE CommandFailed
  BY <1>4 DEF CommandFailed, resultSeen, StdinStillUsed, delete_child_targets
<1>5. CASE AllCommandsDone
  BY <1>5 DEF AllCommandsDone, resultSeen, StdinStillUsed, CommandSucceeded
<1>6. CASE GiveUpRest
  BY <1>6 DEF GiveUpRest, resultSeen, StdinStillUsed, CommandSucceeded, delete_child_targets
<1>7. CASE RunNextCommand
  <2>1. c \in Files /\ proc[c] = "none" /\ UNCHANGED log
    BY <1>7 DEF RunNextCommand, CommandSucceeded, resultSeen
  <2>2. Service!AllPassed(c) /\ Service!LinesLeft(c) = PendingLines(c)
    BY <1>7, <2>1, ReapedLines DEF RunNextCommand, CommandSucceeded
  <2>3. CASE RunLine(c, StdinStillUsed)
    <3>1. /\ line'[c] \in PendingLines(c) /\ \A j \in PendingLines(c) : line'[c] <= j
          /\ \A g \in Files : g # c => line'[g] = line[g]
      BY <2>1, <2>3, NextLine DEF RunLine
    <3>2. \A g \in Files : g # c => UNCHANGED <<proc[g], command_state[g]>>
      BY <2>1, <2>3 DEF RunLine
    <3>3. command_state'[c] = "running"
      BY <2>1, <2>3 DEF RunLine
    <3>4. ASSUME NEW g \in Files, g = c
          PROVE  command_state'[g] = "running" /\ Service!AllPassed(g)' /\ OnLine(g)'
      BY <2>1, <2>2, <3>1, <3>3, <3>4
    <3>5. ASSUME NEW g \in Files, g # c, proc'[g] # "none"
          PROVE  command_state'[g] = "running" /\ Service!AllPassed(g)' /\ OnLine(g)'
      <4>1. UNCHANGED <<log[g], line[g], proc[g], command_state[g]>>
        BY <2>1, <3>1, <3>2, <3>5
      <4>2. command_state[g] = "running" /\ Service!AllPassed(g) /\ OnLine(g)
        BY <3>5, <4>1
      <4>3. QED
        BY <4>1, <4>2
    <3>6. QED
      BY <3>4, <3>5
  <2>4. CASE NothingToRun(c, StdinStillUsed)
    BY <2>1, <2>4 DEF NothingToRun, notice_finished_file
  <2>5. CASE ForkFails(c, StdinStillUsed)
    <3>1. \A g \in Files : g # c => line'[g] = line[g]
      BY <2>1, <2>5, NextLine DEF ForkFails
    <3>2. QED
      BY <2>1, <2>5, <3>1 DEF ForkFails, notice_finished_file
  <2>6. QED
    BY <1>7, <2>3, <2>4, <2>5 DEF RunNextCommand
<1>8. CASE FinishChild
  <2>1. c \in Files /\ proc[c] = "none" /\ UNCHANGED <<line, log, proc>>
    BY <1>8 DEF FinishChild
  <2>2. \A g \in Files : g # c => command_state'[g] = command_state[g]
    BY <1>8, <2>1 DEF FinishChild, notice_finished_file
  <2>3. QED
    BY <2>1, <2>2
<1>9. CASE (\E g \in Files, r \in ChildResults : ChildExits(g, r))
  BY <1>9 DEF ChildExits, unchangedByChild
<1>10. CASE (\E f \in Files : new_job(f)) \/ WaitForGoals \/ Finish \/ DieWaits
  BY <1>10 DEF new_job, unchangedButPc, unchangedButLocals, WaitForGoals, Finish, Die, DieWaits,
    CallReap
<1>11. CASE SignalWaits \/ StartWaitingJobs \/ PopWaitingJob \/ WaitForSlot
  BY <1>11 DEF SignalWaits, CallReap, unchangedButPc, unchangedButLocals, StartWaitingJobs,
    LeaveStartWaiting, PopWaitingJob, WaitForSlot
<1>12. CASE NullCommand \/ PutOnChain \/ WaitIfSerial \/ ReapNext
  BY <1>12 DEF NullCommand, unchangedButPc, unchangedButLocals, PutOnChain, LeaveStart,
    WaitIfSerial, CallReap, ReapNext, MoreToReap
<1>13. CASE LeaveReap \/ StoreDeadChildren \/ WaitFindsNone \/ WaitFails
  BY <1>13 DEF LeaveReap, MoreToReap, ReturnFromReap, unchangedButPc, unchangedButLocals,
    StoreDeadChildren, WaitFindsNone, WaitFails, Die
<1>14. CASE WaitInterrupted \/ UnblockAfterRestart \/ TakeOffChain \/ FreeSlot
  BY <1>14 DEF WaitInterrupted, UnblockAfterRestart, TakeOffChain, FreeSlot
<1>15. CASE FailureKills \/ LoopAgain \/ (\E f \in Files : ChildWrites(f)) \/ child_handler
  BY <1>15 DEF FailureKills, Die, unchangedButLocals, LoopAgain, ChildWrites, unchangedByChild,
    child_handler
<1>16. CASE (\E s \in Signals : fatal_error_signal(s)) \/ UNCHANGED vars
  BY <1>16 DEF fatal_error_signal, delete_child_targets
<1>17. QED
  BY <1>1, <1>2, <1>3, <1>4, <1>5, <1>6, <1>7, <1>8, <1>9, <1>10, <1>11, <1>12, <1>13, <1>14,
    <1>15, <1>16 DEF Next, Make, Starting, Reaping, System, Exited

\* wait hands over a child whose lines before the last have passed.
LEMMA ReapedStep == IInv /\ LineInv /\ ReapedInv /\ [Next]_vars => ReapedInv'
<1> SUFFICES ASSUME IInv, LineInv, ReapedInv, [Next]_vars PROVE ReapedInv'
  OBVIOUS
<1> USE DEF vars, fileVars, childVars, chainVars, sigVars, dieVars, sysVars, locals, IInv,
    TypeOK, FileTypes, ChainTypes, ControlTypes, Local, Frames, Returns, ReapingInv, LineInv,
    ReapedInv
<1>1. CASE (\E f \in Files : WaitReturns(f))
  <2>1. PICK g \in Files : WaitReturns(g)
    BY <1>1
  <2>2. proc[g] \in Results /\ proc[g] # "none"
    BY <2>1 DEF WaitReturns, Results
  <2>3. log[g] \in Seq(LogEntries) /\ <<line[g], proc[g]>> \in LogEntries
    BY <2>2, LogEntryType
  <2>4. command_state'[g] = "running" /\ Service!AllPassed(g)
    BY <2>1, <2>2 DEF WaitReturns
  <2>5. log'[g] = Append(log[g], <<line[g], proc[g]>>)
    BY <2>1 DEF WaitReturns
  <2>6. /\ Len(log'[g]) = Len(log[g]) + 1 /\ log'[g] # <<>>
        /\ log'[g][Len(log[g]) + 1] = <<line[g], proc[g]>>
        /\ \A i \in 1..Len(log[g]) : log'[g][i] = log[g][i]
    <3>1. Len(log[g]) \in Nat
      BY <2>3
    <3>2. Len(log'[g]) = Len(log[g]) + 1
      BY <2>3, <2>5
    <3>3. log'[g] # <<>>
      <4>1. Len(<<>>) = 0
        OBVIOUS
      <4>2. QED
        BY <3>1, <3>2, <4>1
    <3>4. log'[g][Len(log[g]) + 1] = <<line[g], proc[g]>>
      BY <2>3, <2>5
    <3>5. \A i \in 1..Len(log[g]) : log'[g][i] = log[g][i]
      BY <2>3, <2>5
    <3>6. QED
      BY <3>2, <3>3, <3>4, <3>5
  <2>7. \A i \in 1..Len(log[g]) : Service!Passes(g, log'[g][i])
    BY <2>4, <2>6 DEF Service!AllPassed
  <2>8. Len(log'[g]) - 1 = Len(log[g])
    BY <2>3, <2>6
  <2>9. /\ c' = g /\ result' = proc[g] /\ child_failed' = (result' # "ok")
        /\ line'[g] = line[g] /\ pc' = "reap_status"
    BY <2>1 DEF WaitReturns
  <2>10. \A e : Service!Passes(g, e)' <=> Service!Passes(g, e)
    BY DEF Service!Passes
  <2>11. QED
    BY <2>4, <2>6, <2>7, <2>8, <2>9 DEF Service!Passes
<1>2. CASE (\E f \in Files : new_job(f)) \/ WaitForGoals \/ Finish \/ DieWaits
  BY <1>2 DEF new_job, unchangedButPc, unchangedButLocals, WaitForGoals, Finish, Die, DieWaits,
    CallReap
<1>3. CASE SignalWaits \/ StartWaitingJobs \/ PopWaitingJob \/ WaitForSlot
  BY <1>3 DEF SignalWaits, CallReap, unchangedButPc, unchangedButLocals, StartWaitingJobs,
    LeaveStartWaiting, PopWaitingJob, WaitForSlot
<1>4. CASE Defer \/ StartJob \/ NullCommand \/ PutOnChain
  BY <1>4 DEF Defer, LeaveStartWaiting, CallReap, StartJob, RunLine, NothingToRun, ForkFails,
    TakeNextLine, TakeStdin, LeaveStart, notice_finished_file, PendingLines, NullCommand,
    unchangedButPc, unchangedButLocals, PutOnChain
<1>5. CASE WaitIfSerial \/ ReapNext \/ LeaveReap \/ StoreDeadChildren
  BY <1>5 DEF WaitIfSerial, CallReap, unchangedButPc, unchangedButLocals, ReapNext, MoreToReap,
    LeaveReap, ReturnFromReap, StoreDeadChildren
<1>6. CASE WaitFindsNone \/ WaitFails \/ WaitInterrupted \/ CommandFailed
  BY <1>6 DEF WaitFindsNone, ReturnFromReap, unchangedButPc, unchangedButLocals, WaitFails, Die,
    WaitInterrupted, CommandFailed, resultSeen, StdinStillUsed, delete_child_targets
<1>7. CASE AllCommandsDone \/ GiveUpRest \/ RunNextCommand \/ UnblockAfterRestart
  BY <1>7 DEF AllCommandsDone, resultSeen, StdinStillUsed, CommandSucceeded, GiveUpRest,
    delete_child_targets, RunNextCommand, RunLine, NothingToRun, ForkFails, TakeNextLine,
    TakeStdin, notice_finished_file, PendingLines, UnblockAfterRestart
<1>8. CASE FinishChild \/ TakeOffChain \/ FreeSlot \/ FailureKills
  BY <1>8 DEF FinishChild, notice_finished_file, TakeOffChain, FreeSlot, FailureKills, Die,
    unchangedButLocals
<1>9. CASE LoopAgain \/ (\E f \in Files : ChildWrites(f)) \/ (\E f \in Files, r \in ChildResults
      : ChildExits(f, r)) \/ child_handler
  <2>1. CASE LoopAgain
    BY <2>1 DEF LoopAgain, unchangedButLocals
  <2>2. CASE (\E f \in Files : ChildWrites(f))
    BY <2>2 DEF ChildWrites, unchangedByChild
  <2>3. CASE (\E f \in Files, r \in ChildResults : ChildExits(f, r))
    BY <2>3 DEF ChildExits, unchangedByChild
  <2>4. CASE child_handler
    BY <2>4 DEF child_handler, unchangedByChild
  <2>5. QED
    BY <1>9, <2>1, <2>2, <2>3, <2>4
<1>10. CASE (\E s \in Signals : fatal_error_signal(s)) \/ UNCHANGED vars
  BY <1>10 DEF fatal_error_signal, delete_child_targets
<1>11. QED
  BY <1>1, <1>2, <1>3, <1>4, <1>5, <1>6, <1>7, <1>8, <1>9, <1>10 DEF Next, Make, Starting,
    Reaping, System, Exited

\* Every step keeps the status of a child what its lines have come to.
LEMMA DoneStep == IInv /\ ReapedInv /\ DoneInv /\ [Next]_vars => DoneInv'
<1> SUFFICES ASSUME IInv, ReapedInv, DoneInv, [Next]_vars PROVE DoneInv'
  OBVIOUS
<1>0. \A f \in Files : log'[f] = log[f] =>
        /\ Service!AllPassed(f)' <=> Service!AllPassed(f)
        /\ Service!LinesLeft(f)' = Service!LinesLeft(f)
  BY SameHistory
<1> USE <1>0 DEF vars, fileVars, childVars, chainVars, sigVars, dieVars, sysVars, locals, IInv,
    TypeOK, FileTypes, ChainTypes, ControlTypes, Local, Frames, Returns, ReapingInv, DoneInv
<1>1. CASE CommandFailed
  <2>1. c \in Files /\ UNCHANGED log /\ c' = c
    BY <1>1 DEF CommandFailed, resultSeen
  <2>2. ~Service!AllPassed(c)
    BY <1>1, <2>1, ReapedLines DEF CommandFailed
  <2>3. update_status'[c] = 2
    BY <1>1, <2>1 DEF CommandFailed
  <2>4. QED
    BY <2>1, <2>2, <2>3, SameHistoryOfChild
<1>2. CASE AllCommandsDone
  <2>1. c \in Files /\ UNCHANGED log /\ c' = c /\ line[c] \in Nat /\ Len(Cmds[c]) \in Nat
    BY <1>2, CmdsAssumption DEF AllCommandsDone, resultSeen, CommandSucceeded
  <2>2. Service!AllPassed(c) /\ Service!LinesLeft(c) = PendingLines(c)
    BY <1>2, <2>1, ReapedLines DEF AllCommandsDone, CommandSucceeded
  <2>3. PendingLines(c) = {}
    BY <1>2, <2>1 DEF AllCommandsDone, job_next_command, PendingLines
  <2>4. update_status'[c] = 0
    BY <1>2, <2>1 DEF AllCommandsDone
  <2>5. QED
    BY <2>1, <2>2, <2>3, <2>4, SameHistoryOfChild
<1>3. CASE RunNextCommand
  <2>1. c \in Files /\ c' = c
    BY <1>3 DEF RunNextCommand, CommandSucceeded, resultSeen
  <2>2. command_state'[c] # "running" \/ pc' = "reap_unblock"
    BY <1>3, <2>1 DEF RunNextCommand, NothingToRun, ForkFails, notice_finished_file
  <2>3. QED
    BY <2>1, <2>2
<1>4. CASE (\E f \in Files : new_job(f)) \/ WaitForGoals \/ Finish \/ DieWaits
  BY <1>4 DEF new_job, unchangedButPc, unchangedButLocals, WaitForGoals, Finish, Die, DieWaits,
    CallReap
<1>5. CASE SignalWaits \/ StartWaitingJobs \/ PopWaitingJob \/ WaitForSlot
  BY <1>5 DEF SignalWaits, CallReap, unchangedButPc, unchangedButLocals, StartWaitingJobs,
    LeaveStartWaiting, PopWaitingJob, WaitForSlot
<1>6. CASE Defer \/ StartJob \/ NullCommand \/ PutOnChain
  BY <1>6 DEF Defer, LeaveStartWaiting, CallReap, StartJob, RunLine, NothingToRun, ForkFails,
    TakeNextLine, TakeStdin, LeaveStart, notice_finished_file, PendingLines, NullCommand,
    unchangedButPc, unchangedButLocals, PutOnChain
<1>7. CASE WaitIfSerial \/ ReapNext \/ LeaveReap \/ StoreDeadChildren
  BY <1>7 DEF WaitIfSerial, CallReap, unchangedButPc, unchangedButLocals, ReapNext, MoreToReap,
    LeaveReap, ReturnFromReap, StoreDeadChildren
<1>8. CASE (\E f \in Files : WaitReturns(f)) \/ WaitFindsNone \/ WaitFails \/ WaitInterrupted
  BY <1>8 DEF WaitReturns, WaitFindsNone, ReturnFromReap, unchangedButPc, unchangedButLocals,
    WaitFails, Die, WaitInterrupted
<1>9. CASE GiveUpRest \/ UnblockAfterRestart \/ FinishChild \/ TakeOffChain
  BY <1>9 DEF GiveUpRest, resultSeen, StdinStillUsed, CommandSucceeded, delete_child_targets,
    UnblockAfterRestart, FinishChild, notice_finished_file, TakeOffChain
<1>10. CASE FreeSlot \/ FailureKills \/ LoopAgain \/ (\E f \in Files : ChildWrites(f))
  BY <1>10 DEF FreeSlot, FailureKills, Die, unchangedButLocals, LoopAgain, ChildWrites,
    unchangedByChild
<1>11. CASE (\E g \in Files, r \in ChildResults : ChildExits(g, r)) \/ child_handler \/ (\E s
      \in Signals : fatal_error_signal(s)) \/ UNCHANGED vars
  BY <1>11 DEF ChildExits, unchangedByChild, child_handler, fatal_error_signal,
    delete_child_targets
<1>12. QED
  BY <1>1, <1>2, <1>3, <1>4, <1>5, <1>6, <1>7, <1>8, <1>9, <1>10, <1>11 DEF Next, Make,
    Starting, Reaping, System, Exited

\* A step that touches neither the disk nor what has become of a target, takes no
\* child off the chain and starts no process keeps DiskInv.
LEMMA DiskFrame ==
  ASSUME DiskInv, UNCHANGED <<disk, deleted, sig, update_status, log>>, children \subseteq children',
         \A f \in Files : command_state[f] = "finished" => command_state'[f] = "finished",
         \A f \in Files : proc'[f] = "running" => proc[f] = "running",
         pc = "chain" => c \in children' \/ (pc' = "chain" /\ c' = c)
  PROVE  DiskInv'
BY DEF DiskInv, LastKilled

\* Every step keeps what is half made within reach of the handler.
LEMMA DiskStep ==
  IInv /\ StatusInv /\ EndedInv /\ LiveInv /\ ReapedInv /\ DiskInv /\ [Next]_vars => DiskInv'
<1> SUFFICES ASSUME IInv, StatusInv, EndedInv, LiveInv, ReapedInv, DiskInv, [Next]_vars
             PROVE  DiskInv'
  OBVIOUS
<1> USE DEF vars, fileVars, childVars, chainVars, sigVars, dieVars, sysVars, locals, IInv,
    TypeOK, FileTypes, ChainTypes, ControlTypes, Local, Frames, Returns
<1>1. CASE Defer
  <2>1. c \in Files /\ command_state[c] # "finished"
    BY <1>1, StartFacts DEF Defer
  <2>2. \A f \in Files : command_state[f] = "finished" => command_state'[f] = "finished"
    BY <1>1, <2>1 DEF Defer
  <2>3. QED
    BY <1>1, <2>2, DiskFrame DEF Defer
<1>2. CASE StartJob
  <2>0. c \notin children /\ pc = "start" /\ sig = "none"
    BY <1>2 DEF StartJob, StartingInv, DyingInv, InReap, ReapPlaces, StatusInv
  <2>1. c \in Files /\ update_status[c] = -1 /\ command_state[c] # "finished" /\ last_mtime[c] #
        "zero"
    BY <1>2, StartFacts DEF StartJob
  <2>2. CASE RunLine(c, good_stdin_used) /\ pc' = "chain" /\ UNCHANGED c
    BY <1>2, <2>1, <2>2, <2>0 DEF StartJob, RunLine, TakeNextLine, TakeStdin, DiskInv, LastKilled
  <2>3. CASE NothingToRun(c, good_stdin_used) /\ LeaveStart
    BY <1>2, <2>1, <2>3, <2>0 DEF StartJob, NothingToRun, notice_finished_file, LeaveStart,
      DiskInv, LastKilled
  <2>4. CASE ForkFails(c, good_stdin_used) /\ LeaveStart /\ UNCHANGED <<deleted, disk>>
    BY <1>2, <2>1, <2>4, <2>0 DEF StartJob, ForkFails, TakeNextLine, TakeStdin,
      notice_finished_file, LeaveStart, DiskInv, LastKilled
  <2>5. QED
    BY <1>2, <2>2, <2>3, <2>4 DEF StartJob
<1>3. CASE (\E f \in Files : WaitReturns(f))
  <2>1. PICK g \in Files : WaitReturns(g)
    BY <1>3
  <2>2. update_status[g] = -1 /\ proc'[g] = "none"
    BY <2>1 DEF WaitReturns, EndedInv, Results
  <2>3. \A f \in Files : f # g => UNCHANGED <<proc[f], log[f]>>
    BY <2>1 DEF WaitReturns
  <2>4. UNCHANGED <<fileVars, deleted, disk, children, sig>> /\ pc' # "chain" /\ pc # "chain"
    BY <2>1 DEF WaitReturns
  <2>5. \A f \in Files : f # g => (LastKilled(f)' <=> LastKilled(f))
    BY <2>3 DEF LastKilled
  <2>6. QED
    BY <2>2, <2>3, <2>4, <2>5 DEF DiskInv
<1>4. CASE CommandFailed
  <2>1. c \in Files /\ pc = "reap_status" /\ c' = c /\ pc' = "reap_finish" /\ proc[c] = "none"
    BY <1>4 DEF CommandFailed, resultSeen, ReapingInv
  <2>2. LastKilled(c) <=> result = "signal"
    BY <2>1 DEF LastKilled, ReapedInv
  <2>3. CASE result = "signal" \/ delete_on_error
    BY <1>4, <2>1, <2>3 DEF CommandFailed, resultSeen, delete_child_targets, ToDelete,
      DiskInv, LastKilled
  <2>4. CASE ~(result = "signal" \/ delete_on_error)
    BY <1>4, <2>1, <2>2, <2>4 DEF CommandFailed, resultSeen, DiskInv, LastKilled
  <2>5. QED
    BY <2>3, <2>4
<1>5. CASE AllCommandsDone
  <2>1. c \in Files /\ pc = "reap_status" /\ pc' = "reap_finish"
    BY <1>5 DEF AllCommandsDone, CommandSucceeded, ReapingInv
  <2>2. QED
    BY <1>5, <2>1 DEF AllCommandsDone, resultSeen, DiskInv, LastKilled
<1>6. CASE GiveUpRest
  <2>1. c \in Files /\ pc = "reap_status" /\ c' = c /\ pc' = "reap_finish" /\ proc[c] = "none"
    BY <1>6 DEF GiveUpRest, CommandSucceeded, resultSeen, ReapingInv
  <2>2. QED
    BY <1>6, <2>1 DEF GiveUpRest, CommandSucceeded, resultSeen, delete_child_targets, ToDelete,
      DiskInv, LastKilled
<1>7. CASE RunNextCommand
  <2>1. c \in Files /\ pc = "reap_status" /\ update_status[c] = -1 /\ proc[c] = "none" /\ sig =
        "none" /\ c \in children
    BY <1>7 DEF RunNextCommand, CommandSucceeded, ReapingInv, EndedInv, StatusInv
  <2>2. CASE RunLine(c, StdinStillUsed) /\ pc' = "reap_unblock"
    BY <1>7, <2>1, <2>2 DEF RunNextCommand, resultSeen, RunLine, TakeNextLine, TakeStdin,
      StdinStillUsed, delete_child_targets, ToDelete, DiskInv, LastKilled
  <2>3. CASE NothingToRun(c, StdinStillUsed) /\ pc' = "reap_finish"
    BY <1>7, <2>1, <2>3 DEF RunNextCommand, resultSeen, NothingToRun, notice_finished_file,
      StdinStillUsed, delete_child_targets, ToDelete, DiskInv, LastKilled
  <2>4. CASE /\ ForkFails(c, StdinStillUsed) /\ pc' = "reap_finish"
             /\ delete_child_targets({c}, last_mtime')
    BY <1>7, <2>1, <2>4 DEF RunNextCommand, resultSeen, ForkFails, TakeNextLine, TakeStdin,
      notice_finished_file, delete_child_targets, StdinStillUsed, delete_child_targets,
      ToDelete, DiskInv, LastKilled
  <2>5. QED
    BY <1>7, <2>2, <2>3, <2>4 DEF RunNextCommand
<1>8. CASE FinishChild
  <2>1. c \in Files /\ UNCHANGED update_status
    BY <1>8 DEF FinishChild, notice_finished_file, ReapingInv
  <2>2. \A f \in Files : command_state[f] = "finished" => command_state'[f] = "finished"
    BY <1>8, <2>1 DEF FinishChild, notice_finished_file
  <2>3. QED
    BY <1>8, <2>1, <2>2, DiskFrame DEF FinishChild
<1>9. CASE TakeOffChain
  <2>1. c \in Files /\ pc = "reap_unlink" /\ pc' = "reap_slot" /\ children' = children \ {c}
    BY <1>9 DEF TakeOffChain, ReapingInv
  <2>2. UNCHANGED <<fileVars, deleted, disk, proc, log, sigVars>>
    BY <1>9 DEF TakeOffChain
  <2>3. command_state[c] = "finished" \/ sig # "none"
    BY <2>1 DEF StatusInv, LiveInv
  <2>4. sig \in {"none", "INT", "TERM", "OTHER"}
    BY DEF FatalSignals
  <2>5. QED
    BY <2>1, <2>2, <2>3, <2>4 DEF DiskInv, LastKilled
<1>10. CASE (\E f \in Files : ChildWrites(f))
  <2>1. PICK g \in Files : ChildWrites(g)
    BY <1>10
  <2>2. /\ proc[g] = "running" /\ sig \notin {"INT", "TERM"}
        /\ disk' = [disk EXCEPT ![g] = "changed"]
        /\ UNCHANGED <<fileVars, deleted, children, pc, c, sig, proc, log>>
    BY <2>1 DEF ChildWrites, unchangedByChild
  <2>3. update_status[g] = -1 /\ (g \in children \/ (pc = "chain" /\ c = g))
    BY <2>2 DEF EndedInv, OrphanInv
  <2>4. QED
    BY <2>2, <2>3 DEF DiskInv, LastKilled
<1>11. CASE (\E g \in Files, r \in ChildResults : ChildExits(g, r))
  <2>1. PICK g \in Files, r \in ChildResults : ChildExits(g, r)
    BY <1>11
  <2>2. r # "running" /\ proc' = [proc EXCEPT ![g] = r]
    BY <2>1, FlagsAssumption DEF ChildExits, Results
  <2>3. \A f \in Files : proc'[f] = "running" => proc[f] = "running"
    BY <2>2
  <2>4. QED
    BY <2>1, <2>3, DiskFrame DEF ChildExits, unchangedByChild
<1>12. CASE (\E s \in Signals : fatal_error_signal(s))
  <2>1. PICK s \in Signals : fatal_error_signal(s)
    BY <1>12
  <2>2. s \in {"INT", "TERM", "OTHER"}
    BY FlagsAssumption DEF FatalSignals
  <2>3. sig = "none" /\ pc # "chain" /\ sig' = s /\ UNCHANGED <<fileVars, proc, log, children>>
    BY <2>1 DEF fatal_error_signal, BlockedInv, StatusInv
  <2>4. CASE s = "OTHER"
    BY <2>1, <2>3, <2>4 DEF fatal_error_signal, DiskInv, LastKilled
  <2>5. CASE s # "OTHER"
    BY <2>1, <2>2, <2>3, <2>5 DEF fatal_error_signal, delete_child_targets, ToDelete, DiskInv,
      LastKilled
  <2>6. QED
    BY <2>4, <2>5
<1>13. CASE (\E f \in Files : new_job(f)) \/ WaitForGoals \/ Finish \/ DieWaits
  BY <1>13, DiskFrame DEF new_job, unchangedButPc, unchangedButLocals, WaitForGoals, Finish,
    Die, DieWaits, CallReap
<1>14. CASE SignalWaits \/ StartWaitingJobs \/ PopWaitingJob \/ WaitForSlot
  BY <1>14, DiskFrame DEF SignalWaits, CallReap, unchangedButPc, unchangedButLocals,
    StartWaitingJobs, LeaveStartWaiting, PopWaitingJob, WaitForSlot
<1>15. CASE NullCommand \/ PutOnChain \/ WaitIfSerial \/ ReapNext
  BY <1>15, DiskFrame DEF NullCommand, unchangedButPc, unchangedButLocals, PutOnChain, LeaveStart,
    WaitIfSerial, CallReap, ReapNext, MoreToReap
<1>16. CASE LeaveReap \/ StoreDeadChildren \/ WaitFindsNone \/ WaitFails
  BY <1>16, DiskFrame DEF LeaveReap, MoreToReap, ReturnFromReap, unchangedButPc, unchangedButLocals,
    StoreDeadChildren, WaitFindsNone, WaitFails, Die
<1>17. CASE WaitInterrupted \/ UnblockAfterRestart \/ FreeSlot \/ FailureKills
  BY <1>17, DiskFrame DEF WaitInterrupted, UnblockAfterRestart, FreeSlot, FailureKills, Die,
    unchangedButLocals
<1>18. CASE LoopAgain \/ child_handler \/ UNCHANGED vars
  BY <1>18, DiskFrame DEF LoopAgain, unchangedButLocals, child_handler, unchangedByChild
<1>19. QED
  BY <1>1, <1>2, <1>3, <1>4, <1>5, <1>6, <1>7, <1>8, <1>9, <1>10, <1>11, <1>12, <1>13, <1>14,
    <1>15, <1>16, <1>17, <1>18 DEF Next, Make, Starting, Reaping, System, Exited

\* Every step keeps to the slots.
LEMMA SlotBoundStep == IInv /\ SlotBoundInv /\ [Next]_vars => SlotBoundInv'
<1> SUFFICES ASSUME IInv, SlotBoundInv, [Next]_vars PROVE SlotBoundInv'
  OBVIOUS
<1> USE FlagsAssumption DEF vars, fileVars, childVars, chainVars, sigVars, dieVars, sysVars,
    locals, IInv, TypeOK, FileTypes, ChainTypes, ControlTypes, Local, Frames, Returns,
    StartingInv, SlotBoundInv
<1>1. CASE StartJob
  BY <1>1 DEF StartJob, RunLine, NothingToRun, ForkFails, TakeNextLine, TakeStdin, LeaveStart,
    notice_finished_file, PendingLines
<1>2. CASE PutOnChain
  BY <1>2 DEF PutOnChain, LeaveStart
<1>3. CASE WaitForSlot
  BY <1>3 DEF WaitForSlot, CallReap, unchangedButPc, unchangedButLocals
<1>4. CASE LeaveReap
  BY <1>4 DEF LeaveReap, MoreToReap, ReturnFromReap, unchangedButPc, unchangedButLocals
<1>5. CASE WaitFindsNone
  BY <1>5 DEF WaitFindsNone, ReturnFromReap, unchangedButPc, unchangedButLocals
<1>6. CASE RunNextCommand
  BY <1>6 DEF RunNextCommand, resultSeen, StdinStillUsed, CommandSucceeded, RunLine,
    NothingToRun, ForkFails, TakeNextLine, TakeStdin, notice_finished_file,
    delete_child_targets, PendingLines
<1>7. CASE FreeSlot
  BY <1>7 DEF FreeSlot
<1>8. CASE (\E f \in Files : new_job(f)) \/ WaitForGoals \/ Finish \/ DieWaits
  BY <1>8 DEF new_job, unchangedButPc, unchangedButLocals, WaitForGoals, Finish, Die, DieWaits,
    CallReap
<1>9. CASE SignalWaits \/ StartWaitingJobs \/ PopWaitingJob \/ Defer
  BY <1>9 DEF SignalWaits, CallReap, unchangedButPc, unchangedButLocals, StartWaitingJobs,
    LeaveStartWaiting, PopWaitingJob, Defer
<1>10. CASE NullCommand \/ WaitIfSerial \/ ReapNext \/ StoreDeadChildren
  BY <1>10 DEF NullCommand, unchangedButPc, unchangedButLocals, WaitIfSerial, CallReap,
    ReapNext, MoreToReap, StoreDeadChildren
<1>11. CASE (\E f \in Files : WaitReturns(f)) \/ WaitFails \/ WaitInterrupted \/ CommandFailed
  BY <1>11 DEF WaitReturns, WaitFails, Die, unchangedButLocals, WaitInterrupted, CommandFailed,
    resultSeen, StdinStillUsed, delete_child_targets
<1>12. CASE AllCommandsDone \/ GiveUpRest \/ UnblockAfterRestart \/ FinishChild
  BY <1>12 DEF AllCommandsDone, resultSeen, StdinStillUsed, CommandSucceeded, GiveUpRest,
    delete_child_targets, UnblockAfterRestart, FinishChild, notice_finished_file
<1>13. CASE TakeOffChain \/ FailureKills \/ LoopAgain \/ (\E f \in Files : ChildWrites(f))
  BY <1>13 DEF TakeOffChain, FailureKills, Die, unchangedButLocals, LoopAgain, ChildWrites,
    unchangedByChild
<1>14. CASE (\E g \in Files, r \in ChildResults : ChildExits(g, r)) \/ child_handler \/ (\E s
      \in Signals : fatal_error_signal(s)) \/ UNCHANGED vars
  BY <1>14 DEF ChildExits, unchangedByChild, child_handler, fatal_error_signal,
    delete_child_targets
<1>15. QED
  BY <1>1, <1>2, <1>3, <1>4, <1>5, <1>6, <1>7, <1>8, <1>9, <1>10, <1>11, <1>12, <1>13, <1>14 DEF
    Next, Make, Starting, Reaping, System, Exited

\* A step that leaves the good standard input and every process where it is.
LEMMA StdinFrame ==
  ASSUME StdinHeldInv, UNCHANGED <<good_stdin, good_stdin_used>>,
         handling_fatal_signal => handling_fatal_signal',
         \A f \in Files : proc[f] # "none" => proc'[f] # "none",
         pc = "reap_status" => pc' = pc /\ c' = c
  PROVE  StdinHeldInv'
BY DEF StdinHeldInv, HoldsStdin

\* Every step passes the good standard input on or gives it back.
LEMMA StdinHeldStep == IInv /\ StdinHeldInv /\ [Next]_vars => StdinHeldInv'
<1> SUFFICES ASSUME IInv, StdinHeldInv, [Next]_vars PROVE StdinHeldInv'
  OBVIOUS
<1> USE FlagsAssumption DEF vars, fileVars, childVars, chainVars, sigVars, dieVars, sysVars,
    locals, IInv, TypeOK, FileTypes, ChainTypes, ControlTypes, Local, Frames, Returns,
    StartingInv, ReapingInv, StdinHeldInv, StdinInv, HoldsStdin
<1>1. CASE StartJob
  <2>1. c \in Files /\ proc[c] = "none" /\ pc = "start"
    BY <1>1 DEF StartJob
  <2>2. CASE RunLine(c, good_stdin_used) /\ pc' = "chain" /\ UNCHANGED c
    BY <1>1, <2>1, <2>2 DEF StartJob, RunLine, TakeNextLine, TakeStdin
  <2>3. CASE NothingToRun(c, good_stdin_used) /\ LeaveStart
    BY <1>1, <2>1, <2>3 DEF StartJob, NothingToRun, notice_finished_file, LeaveStart
  <2>4. CASE ForkFails(c, good_stdin_used) /\ LeaveStart /\ UNCHANGED <<deleted, disk>>
    BY <1>1, <2>1, <2>4 DEF StartJob, ForkFails, TakeNextLine, TakeStdin, notice_finished_file,
      LeaveStart
  <2>5. QED
    BY <1>1, <2>2, <2>3, <2>4 DEF StartJob
<1>2. CASE (\E f \in Files : WaitReturns(f))
  <2>1. PICK g \in Files : WaitReturns(g)
    BY <1>2
  <2>2. proc[g] # "none" /\ c' = g /\ pc' = "reap_status" /\ pc = "reap_wait"
    BY <2>1 DEF WaitReturns, Results
  <2>3. \A f \in Files : f # g => UNCHANGED proc[f]
    BY <2>1 DEF WaitReturns
  <2>4. UNCHANGED <<good_stdin, good_stdin_used, handling_fatal_signal>>
    BY <2>1 DEF WaitReturns
  <2>5. QED
    BY <2>2, <2>3, <2>4
<1>3. CASE CommandFailed
  BY <1>3 DEF CommandFailed, resultSeen, StdinStillUsed, delete_child_targets
<1>4. CASE AllCommandsDone
  BY <1>4 DEF AllCommandsDone, resultSeen, StdinStillUsed, CommandSucceeded
<1>5. CASE GiveUpRest
  BY <1>5 DEF GiveUpRest, resultSeen, StdinStillUsed, CommandSucceeded, delete_child_targets
<1>6. CASE RunNextCommand
  <2>1. c \in Files /\ pc = "reap_status" /\ ~handling_fatal_signal
    BY <1>6 DEF RunNextCommand, CommandSucceeded
  <2>2. CASE RunLine(c, StdinStillUsed) /\ pc' = "reap_unblock"
    BY <1>6, <2>1, <2>2 DEF RunNextCommand, resultSeen, RunLine, TakeNextLine, TakeStdin,
      StdinStillUsed
  <2>3. CASE NothingToRun(c, StdinStillUsed) /\ pc' = "reap_finish"
    BY <1>6, <2>1, <2>3 DEF RunNextCommand, resultSeen, NothingToRun, notice_finished_file,
      StdinStillUsed
  <2>4. CASE /\ ForkFails(c, StdinStillUsed) /\ pc' = "reap_finish"
             /\ delete_child_targets({c}, last_mtime')
    BY <1>6, <2>1, <2>4 DEF RunNextCommand, resultSeen, ForkFails, TakeNextLine, TakeStdin,
      notice_finished_file, delete_child_targets, StdinStillUsed
  <2>5. QED
    BY <1>6, <2>2, <2>3, <2>4 DEF RunNextCommand
<1>7. CASE (\E g \in Files, r \in ChildResults : ChildExits(g, r))
  <2>1. PICK g \in Files, r \in ChildResults : ChildExits(g, r)
    BY <1>7
  <2>2. r # "none" /\ proc' = [proc EXCEPT ![g] = r]
    BY <2>1, FlagsAssumption DEF ChildExits, Results
  <2>3. \A f \in Files : proc[f] # "none" => proc'[f] # "none"
    BY <2>2
  <2>4. QED
    BY <2>1, <2>3 DEF ChildExits, unchangedByChild
<1>8. CASE (\E f \in Files : new_job(f)) \/ WaitForGoals \/ Finish \/ DieWaits
  BY <1>8, StdinFrame DEF new_job, unchangedButPc, unchangedButLocals, WaitForGoals, Finish,
    Die, DieWaits, CallReap
<1>9. CASE SignalWaits \/ StartWaitingJobs \/ PopWaitingJob \/ WaitForSlot
  BY <1>9, StdinFrame DEF SignalWaits, CallReap, unchangedButPc, unchangedButLocals,
    StartWaitingJobs, LeaveStartWaiting, PopWaitingJob, WaitForSlot
<1>10. CASE Defer \/ NullCommand \/ PutOnChain \/ WaitIfSerial
  BY <1>10, StdinFrame DEF Defer, LeaveStartWaiting, CallReap, NullCommand, unchangedButPc,
    unchangedButLocals, PutOnChain, LeaveStart, WaitIfSerial
<1>11. CASE ReapNext \/ LeaveReap \/ StoreDeadChildren \/ WaitFindsNone
  <2>1. CASE ReapNext
    BY <2>1, StdinFrame DEF ReapNext, MoreToReap, unchangedButPc, unchangedButLocals
  <2>2. CASE LeaveReap
    BY <2>2, StdinFrame DEF LeaveReap, MoreToReap, ReturnFromReap, unchangedButPc,
      unchangedButLocals
  <2>3. CASE StoreDeadChildren
    BY <2>3, StdinFrame DEF StoreDeadChildren
  <2>4. CASE WaitFindsNone
    BY <2>4, StdinFrame DEF WaitFindsNone, ReturnFromReap, unchangedButPc, unchangedButLocals
  <2>5. QED
    BY <1>11, <2>1, <2>2, <2>3, <2>4
<1>12. CASE WaitFails \/ WaitInterrupted \/ UnblockAfterRestart \/ FinishChild
  BY <1>12, StdinFrame DEF WaitFails, Die, unchangedButLocals, WaitInterrupted, UnblockAfterRestart,
    FinishChild, notice_finished_file
<1>13. CASE TakeOffChain \/ FreeSlot \/ FailureKills \/ LoopAgain
  BY <1>13, StdinFrame DEF TakeOffChain, FreeSlot, FailureKills, Die, unchangedButLocals, LoopAgain
<1>14. CASE (\E f \in Files : ChildWrites(f)) \/ child_handler \/ (\E s \in Signals :
      fatal_error_signal(s)) \/ UNCHANGED vars
  BY <1>14, StdinFrame DEF ChildWrites, unchangedByChild, child_handler, fatal_error_signal,
    delete_child_targets
<1>15. QED
  BY <1>1, <1>2, <1>3, <1>4, <1>5, <1>6, <1>7, <1>8, <1>9, <1>10, <1>11, <1>12, <1>13, <1>14 DEF
    Next, Make, Starting, Reaping, System, Exited

\* No slot is used exactly when no child is on the chain.
LEMMA NoChildren ==
  ASSUME IInv, pc # "reap_slot"
  PROVE  job_slots_used = 0 <=> children = {}
<1>1. job_slots_used = Cardinality(children) /\ IsFiniteSet(children)
  BY FiniteChildren, FS_CardinalityType DEF IInv, SlotsInv
<1>2. QED
  BY <1>1, FS_EmptySet

\* Every step keeps a run that succeeds from having anything left to do.
LEMMA SuccessStep == IInv /\ StatusInv /\ LiveInv /\ SuccessInv /\ [Next]_vars => SuccessInv'
<1> SUFFICES ASSUME IInv, StatusInv, LiveInv, SuccessInv, [Next]_vars PROVE SuccessInv'
  OBVIOUS
<1> USE DEF vars, fileVars, childVars, chainVars, sigVars, dieVars, sysVars, locals, IInv,
    TypeOK, FileTypes, ChainTypes, ControlTypes, Local, Frames, Returns, States, ReapPlaces,
    DyingInv, InReap, StatusInv, LiveInv, SuccessInv
<1>1. CASE Finish
  <2>1. pc = "idle" /\ UNCHANGED <<fileVars, children>>
    BY <1>1 DEF Finish, unchangedButLocals
  <2>2. \A f \in Files : command_state[f] # "running"
    BY <1>1 DEF Finish
  <2>3. children = {}
    BY <2>1, <2>2
  <2>4. outcome' = "success" => \A f \in Files : update_status[f] # 2
    BY <1>1 DEF Finish, Die
  <2>5. pc' \in {"die", "exited"}
    BY <1>1 DEF Finish, Die
  <2>6. QED
    BY <2>1, <2>2, <2>3, <2>4, <2>5
<1>2. CASE DieWaits
  <2>1. pc = "die" /\ UNCHANGED <<fileVars, children, outcome>>
    BY <1>2 DEF DieWaits, unchangedButPc, unchangedButLocals
  <2>2. children = {} => job_slots_used = 0
    BY <2>1, NoChildren
  <2>3. children = {} => pc' = "exited"
    BY <1>2, <2>2 DEF DieWaits
  <2>4. QED
    BY <2>1, <2>3
<1>3. CASE SignalWaits
  <2>1. pc = "sig" /\ UNCHANGED <<fileVars, children>>
    BY <1>3 DEF SignalWaits, unchangedButPc, unchangedButLocals
  <2>2. children = {} => job_slots_used = 0
    BY <2>1, NoChildren
  <2>3. children = {} => outcome' = "signal"
    BY <1>3, <2>2 DEF SignalWaits
  <2>4. children # {} => UNCHANGED outcome \/ outcome' = "signal"
    BY <1>3 DEF SignalWaits
  <2>5. QED
    BY <2>1, <2>3, <2>4
<1>4. CASE (\E f \in Files : new_job(f)) \/ WaitForGoals \/ StartWaitingJobs \/ PopWaitingJob
  BY <1>4 DEF new_job, unchangedButPc, unchangedButLocals, WaitForGoals, StartWaitingJobs,
    LeaveStartWaiting, CallReap, PopWaitingJob
<1>5. CASE WaitForSlot \/ Defer \/ StartJob \/ NullCommand
  BY <1>5 DEF WaitForSlot, CallReap, unchangedButPc, unchangedButLocals, Defer,
    LeaveStartWaiting, StartJob, RunLine, NothingToRun, ForkFails, TakeNextLine, TakeStdin,
    LeaveStart, notice_finished_file, PendingLines, NullCommand
<1>6. CASE PutOnChain \/ WaitIfSerial \/ ReapNext \/ LeaveReap
  BY <1>6 DEF PutOnChain, LeaveStart, WaitIfSerial, CallReap, unchangedButPc,
    unchangedButLocals, ReapNext, MoreToReap, LeaveReap, ReturnFromReap
<1>7. CASE StoreDeadChildren \/ (\E f \in Files : WaitReturns(f)) \/ WaitFindsNone \/ WaitFails
  BY <1>7 DEF StoreDeadChildren, WaitReturns, WaitFindsNone, ReturnFromReap, unchangedButPc,
    unchangedButLocals, WaitFails, Die
<1>8. CASE WaitInterrupted \/ CommandFailed \/ AllCommandsDone \/ GiveUpRest
  BY <1>8 DEF WaitInterrupted, CommandFailed, resultSeen, StdinStillUsed, delete_child_targets,
    AllCommandsDone, CommandSucceeded, GiveUpRest
<1>9. CASE RunNextCommand \/ UnblockAfterRestart \/ FinishChild \/ TakeOffChain
  BY <1>9 DEF RunNextCommand, resultSeen, StdinStillUsed, CommandSucceeded, RunLine,
    NothingToRun, ForkFails, TakeNextLine, TakeStdin, notice_finished_file,
    delete_child_targets, PendingLines, UnblockAfterRestart, FinishChild, TakeOffChain
<1>10. CASE FreeSlot \/ FailureKills \/ LoopAgain \/ (\E f \in Files : ChildWrites(f))
  BY <1>10 DEF FreeSlot, FailureKills, Die, unchangedButLocals, LoopAgain, ChildWrites,
    unchangedByChild
<1>11. CASE (\E g \in Files, r \in ChildResults : ChildExits(g, r)) \/ child_handler \/ (\E s
      \in Signals : fatal_error_signal(s)) \/ UNCHANGED vars
  BY <1>11 DEF ChildExits, unchangedByChild, child_handler, fatal_error_signal,
    delete_child_targets
<1>12. QED
  BY <1>1, <1>2, <1>3, <1>4, <1>5, <1>6, <1>7, <1>8, <1>9, <1>10, <1>11 DEF Next, Make,
    Starting, Reaping, System, Exited

\* Every step keeps the handler's loop to itself.
LEMMA SignalStep == IInv /\ SignalInv /\ [Next]_vars => SignalInv'
<1> SUFFICES ASSUME IInv, SignalInv, [Next]_vars PROVE SignalInv'
  OBVIOUS
<1> USE DEF vars, fileVars, childVars, chainVars, sigVars, dieVars, sysVars, locals, IInv,
    TypeOK, FileTypes, ChainTypes, ControlTypes, Local, Frames, Returns, ReapPlaces, InReap,
    SignalInv
<1>1. CASE Finish
  BY <1>1 DEF Finish, Die, unchangedButLocals
<1>2. CASE SignalWaits
  BY <1>2 DEF SignalWaits, CallReap, unchangedButPc, unchangedButLocals
<1>3. CASE StartJob
  BY <1>3 DEF StartJob, RunLine, NothingToRun, ForkFails, TakeNextLine, TakeStdin, LeaveStart,
    notice_finished_file, PendingLines
<1>4. CASE LeaveReap
  BY <1>4 DEF LeaveReap, MoreToReap, ReturnFromReap, unchangedButPc, unchangedButLocals
<1>5. CASE WaitFindsNone
  BY <1>5 DEF WaitFindsNone, ReturnFromReap, unchangedButPc, unchangedButLocals
<1>6. CASE WaitFails
  BY <1>6 DEF WaitFails, Die, unchangedButLocals
<1>7. CASE RunNextCommand
  BY <1>7 DEF RunNextCommand, resultSeen, StdinStillUsed, CommandSucceeded, RunLine,
    NothingToRun, ForkFails, TakeNextLine, TakeStdin, notice_finished_file,
    delete_child_targets, PendingLines
<1>8. CASE FailureKills
  BY <1>8 DEF FailureKills, Die, unchangedButLocals
<1>9. CASE LoopAgain
  BY <1>9 DEF LoopAgain, unchangedButLocals
<1>10. CASE (\E s \in Signals : fatal_error_signal(s))
  BY <1>10 DEF fatal_error_signal, delete_child_targets
<1>11. CASE (\E f \in Files : new_job(f)) \/ WaitForGoals \/ DieWaits \/ StartWaitingJobs
  <2>1. CASE (\E f \in Files : new_job(f))
    BY <2>1 DEF new_job, unchangedButPc, unchangedButLocals
  <2>2. CASE WaitForGoals
    BY <2>2 DEF WaitForGoals, CallReap, unchangedButPc, unchangedButLocals
  <2>3. CASE DieWaits
    BY <2>3 DEF DieWaits, CallReap, unchangedButPc, unchangedButLocals
  <2>4. CASE StartWaitingJobs
    BY <2>4 DEF StartWaitingJobs, LeaveStartWaiting, CallReap, unchangedButPc,
      unchangedButLocals
  <2>5. QED
    BY <1>11, <2>1, <2>2, <2>3, <2>4
<1>12. CASE PopWaitingJob \/ WaitForSlot \/ Defer \/ NullCommand
  BY <1>12 DEF PopWaitingJob, WaitForSlot, CallReap, unchangedButPc, unchangedButLocals, Defer,
    LeaveStartWaiting, NullCommand
<1>13. CASE PutOnChain \/ WaitIfSerial \/ ReapNext \/ StoreDeadChildren
  BY <1>13 DEF PutOnChain, LeaveStart, WaitIfSerial, CallReap, unchangedButPc,
    unchangedButLocals, ReapNext, MoreToReap, StoreDeadChildren
<1>14. CASE (\E f \in Files : WaitReturns(f)) \/ WaitInterrupted \/ CommandFailed \/
      AllCommandsDone
  BY <1>14 DEF WaitReturns, WaitInterrupted, CommandFailed, resultSeen, StdinStillUsed,
    delete_child_targets, AllCommandsDone, CommandSucceeded
<1>15. CASE GiveUpRest \/ UnblockAfterRestart \/ FinishChild \/ TakeOffChain
  BY <1>15 DEF GiveUpRest, resultSeen, StdinStillUsed, CommandSucceeded, delete_child_targets,
    UnblockAfterRestart, FinishChild, notice_finished_file, TakeOffChain
<1>16. CASE FreeSlot \/ (\E f \in Files : ChildWrites(f)) \/ (\E f \in Files, r \in ChildResults
      : ChildExits(f, r)) \/ child_handler
  BY <1>16 DEF FreeSlot, ChildWrites, unchangedByChild, ChildExits, child_handler
<1>17. CASE UNCHANGED vars
  BY <1>17
<1>18. QED
  BY <1>1, <1>2, <1>3, <1>4, <1>5, <1>6, <1>7, <1>8, <1>9, <1>10, <1>11, <1>12, <1>13, <1>14,
    <1>15, <1>16, <1>17 DEF Next, Make, Starting, Reaping, System, Exited

\* Every step keeps the count of what may be left when make dies.
LEMMA DieStep == IInv /\ LiveInv /\ SlotBoundInv /\ SignalInv /\ DieInv /\ [Next]_vars => DieInv'
<1> SUFFICES ASSUME IInv, LiveInv, SlotBoundInv, SignalInv, DieInv, [Next]_vars PROVE DieInv'
  OBVIOUS
<1> USE FlagsAssumption DEF vars, fileVars, childVars, chainVars, sigVars, dieVars, sysVars,
    locals, IInv, TypeOK, FileTypes, ChainTypes, ControlTypes, Local, Frames, Returns,
    FlagTypes, Results, ReapPlaces, ReapingInv, OrphanInv, DyingInv, InReap, LiveInv,
    SlotBoundInv, SignalInv, DieInv, FewSlots, WaitsInDie
<1>1. CASE Finish
  <2>1. pc = "idle" /\ UNCHANGED <<job_slots_used, handling_fatal_signal, proc>> /\ frame' = NoFrame
    BY <1>1 DEF Finish, Die, unchangedButLocals
  <2>2. pc' \in {"die", "exited"} /\ ~handling_fatal_signal
    BY <1>1 DEF Finish, Die
  <2>3. children = {}
    BY <1>1 DEF Finish
  <2>4. job_slots_used = 0
    BY <2>1, <2>3, NoChildren
  <2>5. \A f \in Files : proc[f] = "none"
    BY <2>1, <2>3
  <2>6. QED
    BY <2>1, <2>2, <2>4, <2>5
<1>2. CASE DieWaits
  <2>1. pc = "die" /\ UNCHANGED <<job_slots_used, handling_fatal_signal, proc, dying, outcome>>
    BY <1>2 DEF DieWaits, unchangedButPc, unchangedButLocals
  <2>2. job_slots_used = 0 => \A f \in Files : proc[f] = "none"
    BY <2>1, NoChildren
  <2>3. CASE job_slots_used > 0
    BY <1>2, <2>1, <2>3 DEF DieWaits, CallReap
  <2>4. CASE ~(job_slots_used > 0)
    <3>1. job_slots_used = 0 /\ pc' = "exited"
      BY <1>2, <2>4 DEF DieWaits
    <3>2. QED
      BY <2>1, <2>2, <3>1
  <2>5. QED
    BY <2>3, <2>4
<1>3. CASE SignalWaits
  <2>1. pc = "sig" /\ UNCHANGED <<job_slots_used, handling_fatal_signal, proc, dying>>
    BY <1>3 DEF SignalWaits, unchangedButPc, unchangedButLocals
  <2>2. job_slots_used = 0 => \A f \in Files : proc[f] = "none"
    BY <2>1, NoChildren
  <2>3. pc' \in {"reap", "exited"} /\ (pc' = "exited" => job_slots_used = 0)
    BY <1>3 DEF SignalWaits, CallReap
  <2>4. handling_fatal_signal
    BY <1>3 DEF SignalWaits
  <2>5. QED
    BY <2>1, <2>2, <2>3, <2>4
<1>4. CASE StartWaitingJobs
  <2>1. ~dying /\ ~handling_fatal_signal
    BY <1>4 DEF StartWaitingJobs
  <2>2. pc' # "exited"
    BY <1>4 DEF StartWaitingJobs, LeaveStartWaiting, CallReap
  <2>3. UNCHANGED <<dying, handling_fatal_signal>>
    BY <1>4 DEF StartWaitingJobs, unchangedButPc, unchangedButLocals
  <2>4. QED
    BY <2>1, <2>2, <2>3
<1>5. CASE WaitForSlot
  <2>1. ~dying /\ ~handling_fatal_signal
    BY <1>5 DEF WaitForSlot
  <2>2. pc' # "exited"
    BY <1>5 DEF WaitForSlot, CallReap
  <2>3. UNCHANGED <<dying, handling_fatal_signal>>
    BY <1>5 DEF WaitForSlot, unchangedButPc, unchangedButLocals
  <2>4. QED
    BY <2>1, <2>2, <2>3
<1>6. CASE Defer
  <2>1. ~dying /\ ~handling_fatal_signal
    BY <1>6 DEF Defer
  <2>2. pc' # "exited"
    BY <1>6 DEF Defer, LeaveStartWaiting, CallReap
  <2>3. UNCHANGED <<dying, handling_fatal_signal>>
    BY <1>6 DEF Defer, unchangedButPc, unchangedButLocals
  <2>4. QED
    BY <2>1, <2>2, <2>3
<1>7. CASE LeaveReap
  <2>1. pc = "reap" /\ UNCHANGED <<job_slots_used, handling_fatal_signal, proc, dying, die_err>>
    BY <1>7 DEF LeaveReap, unchangedButPc, unchangedButLocals
  <2>2. pc' = frame.return /\ pc' \notin ReapPlaces /\ pc' # "exited"
    BY <1>7 DEF LeaveReap, ReturnFromReap
  <2>3. ~frame.block \/ job_slots_used = 0
    BY <1>7, <2>1, NoChildren DEF LeaveReap, MoreToReap
  <2>4. QED
    BY <2>1, <2>2, <2>3
<1>8. CASE (\E f \in Files : WaitReturns(f))
  BY <1>8 DEF WaitReturns
<1>9. CASE WaitFindsNone
  BY <1>9 DEF WaitFindsNone, ReturnFromReap, unchangedButPc, unchangedButLocals
<1>10. CASE WaitFails
  BY <1>10 DEF WaitFails, Die, unchangedButLocals
<1>11. CASE RunNextCommand
  BY <1>11 DEF RunNextCommand, resultSeen, StdinStillUsed, CommandSucceeded, RunLine,
    NothingToRun, ForkFails, TakeNextLine, TakeStdin, notice_finished_file,
    delete_child_targets, PendingLines
<1>12. CASE UnblockAfterRestart
  BY <1>12 DEF UnblockAfterRestart
<1>13. CASE FinishChild
  BY <1>13 DEF FinishChild, notice_finished_file
<1>14. CASE FreeSlot
  BY <1>14 DEF FreeSlot
<1>15. CASE FailureKills
  <2>1. /\ pc = "reap_die" /\ ~handling_fatal_signal /\ ~frame.err /\ ~keep_going_flag
        /\ UNCHANGED <<job_slots_used, handling_fatal_signal, proc>>
    BY <1>15 DEF FailureKills, FailureIsFatal, unchangedButLocals
  <2>2. dying' /\ die_err' /\ pc' = (IF dying THEN "exited" ELSE "die") /\ outcome' = "failure"
    BY <1>15 DEF FailureKills, Die
  <2>3. CASE ~dying
    BY <2>1, <2>2, <2>3
  <2>4. CASE dying
    <3>1. FewSlots => job_slots_used = 0
      BY <2>1, <2>4
    <3>2. job_slots_used = 0 => \A f \in Files : proc[f] = "none"
      BY <2>1, NoChildren
    <3>3. QED
      BY <2>1, <2>2, <2>4, <3>1, <3>2
  <2>5. QED
    BY <2>3, <2>4
<1>16. CASE LoopAgain
  BY <1>16 DEF LoopAgain, unchangedButLocals
<1>17. CASE (\E g \in Files, r \in ChildResults : ChildExits(g, r))
  BY <1>17 DEF ChildExits, unchangedByChild
<1>18. CASE (\E f \in Files : new_job(f)) \/ WaitForGoals
  BY <1>18 DEF new_job, unchangedButPc, unchangedButLocals, WaitForGoals
<1>19. CASE PopWaitingJob \/ StartJob
  <2>1. CASE PopWaitingJob
    BY <2>1 DEF PopWaitingJob
  <2>2. CASE StartJob
    BY <2>2 DEF StartJob, RunLine, NothingToRun, ForkFails, TakeNextLine, TakeStdin, LeaveStart,
      notice_finished_file, PendingLines
  <2>3. QED
    BY <1>19, <2>1, <2>2
<1>20. CASE NullCommand \/ PutOnChain
  BY <1>20 DEF NullCommand, unchangedButPc, unchangedButLocals, PutOnChain, LeaveStart
<1>21. CASE WaitIfSerial \/ ReapNext
  BY <1>21 DEF WaitIfSerial, CallReap, unchangedButPc, unchangedButLocals, ReapNext, MoreToReap
<1>22. CASE StoreDeadChildren \/ WaitInterrupted
  BY <1>22 DEF StoreDeadChildren, WaitInterrupted
<1>23. CASE CommandFailed \/ AllCommandsDone
  BY <1>23 DEF CommandFailed, resultSeen, StdinStillUsed, delete_child_targets, AllCommandsDone,
    CommandSucceeded
<1>24. CASE GiveUpRest \/ TakeOffChain
  BY <1>24 DEF GiveUpRest, resultSeen, StdinStillUsed, CommandSucceeded, delete_child_targets,
    TakeOffChain
<1>25. CASE (\E f \in Files : ChildWrites(f)) \/ child_handler
  BY <1>25 DEF ChildWrites, unchangedByChild, child_handler
<1>26. CASE (\E s \in Signals : fatal_error_signal(s)) \/ UNCHANGED vars
  BY <1>26 DEF fatal_error_signal, delete_child_targets
<1>27. QED
  BY <1>1, <1>2, <1>3, <1>4, <1>5, <1>6, <1>7, <1>8, <1>9, <1>10, <1>11, <1>12, <1>13, <1>14,
    <1>15, <1>16, <1>17, <1>18, <1>19, <1>20, <1>21, <1>22, <1>23, <1>24, <1>25, <1>26 DEF Next,
    Make, Starting, Reaping, System, Exited

\* The initial states satisfy LifeInv.
LEMMA InitLife == Init => LifeInv
<1> SUFFICES ASSUME Init PROVE LifeInv
  OBVIOUS
<1>1. IInv
  BY InitIInv
<1>2. \A f \in Files : update_status[f] = -1 /\ proc[f] = "none" /\ log[f] = <<>> /\ line[f] = 0
                       /\ command_state[f] = "not_started" /\ last_mtime[f] = "cached"
                       /\ disk[f] = "old"
  BY DEF Init
<1>3. StatusInv /\ EndedInv /\ LiveInv /\ SuccessInv /\ StdinHeldInv
  BY <1>2 DEF Init, StatusInv, EndedInv, LiveInv, SuccessInv, StdinHeldInv
<1>4. BegunInv /\ LineInv /\ ReapedInv /\ DoneInv
  BY <1>2 DEF Init, BegunInv, LineInv, ReapedInv, DoneInv
<1>5. DiskInv
  BY <1>2 DEF Init, DiskInv
<1>6. SlotBoundInv
  BY FlagsAssumption DEF Init, SlotBoundInv
<1>7. SignalInv /\ DieInv
  BY <1>2 DEF Init, SignalInv, DieInv, InReap, ReapPlaces
<1>8. QED
  BY <1>1, <1>3, <1>4, <1>5, <1>6, <1>7 DEF LifeInv

\* Every step keeps LifeInv.
LEMMA NextLife == LifeInv /\ [Next]_vars => LifeInv'
<1> SUFFICES ASSUME LifeInv, [Next]_vars PROVE LifeInv'
  OBVIOUS
<1> USE DEF LifeInv
<1>1. IInv' /\ StatusInv' /\ EndedInv' /\ LiveInv'
  BY NextIInv, StatusStep, EndedStep, LiveStep
<1>2. BegunInv' /\ LineInv' /\ ReapedInv' /\ DoneInv'
  BY BegunStep, LineStep, ReapedStep, DoneStep
<1>3. DiskInv' /\ SlotBoundInv' /\ StdinHeldInv' /\ SuccessInv' /\ SignalInv' /\ DieInv'
  BY DiskStep, SlotBoundStep, StdinHeldStep, SuccessStep, SignalStep, DieStep
<1>4. QED
  BY <1>1, <1>2, <1>3

-----------------------------------------------------------------------------
(* The theorems.                                                           *)

\* LifeInv holds throughout: processes, lines, statuses and the disk agree on what
\* has become of every target.
THEOREM LifeInvariance == Spec => []LifeInv
<1>1. Init => LifeInv
  BY InitLife
<1>2. LifeInv /\ [Next]_vars => LifeInv'
  BY NextLife
<1>3. QED
  BY <1>1, <1>2, PTL DEF Spec

\* Without -l, no more commands run at once than there are job slots.
THEOREM SlotsSuffice == Spec => [](~LoadLimit => SlotLimit)
<1>1. LifeInv => (~LoadLimit => SlotLimit)
  <2> SUFFICES ASSUME LifeInv, ~LoadLimit, job_slots # 0
               PROVE  Cardinality({f \in Files : proc[f] # "none"}) <= job_slots
    BY DEF SlotLimit
  <2> DEFINE Running == {f \in Files : proc[f] # "none"}
  <2>1. IsFiniteSet(children) /\ Cardinality(children) \in Nat /\ job_slots \in Nat
    BY FiniteChildren, FS_CardinalityType, FlagsAssumption DEF LifeInv
  <2>2. Cardinality(children) <= job_slots
        /\ (pc = "chain" => Cardinality(children) < job_slots)
    BY <2>1 DEF LifeInv, IInv, SlotsInv, SlotBoundInv
  <2>3. CASE pc = "chain"
    <3>1. Running \subseteq children \cup {c} /\ c \notin children
      BY <2>3 DEF LifeInv, IInv, OrphanInv, StartingInv
    <3>2. IsFiniteSet(children \cup {c}) /\ Cardinality(children \cup {c}) = Cardinality(children) + 1
      BY <2>1, <3>1, FS_AddElement
    <3>3. Cardinality(Running) <= Cardinality(children \cup {c}) /\ Cardinality(Running) \in Nat
      BY <3>1, <3>2, FS_Subset, FS_CardinalityType
    <3>4. QED
      BY <2>1, <2>2, <2>3, <3>2, <3>3
  <2>4. CASE pc # "chain"
    <3>1. Running \subseteq children
      BY <2>4 DEF LifeInv, IInv, OrphanInv
    <3>2. Cardinality(Running) <= Cardinality(children) /\ Cardinality(Running) \in Nat
      BY <2>1, <3>1, FS_Subset, FS_CardinalityType
    <3>3. QED
      BY <2>1, <2>2, <3>2
  <2>5. QED
    BY <2>3, <2>4
<1>2. QED
  BY <1>1, LifeInvariance, PTL

\* Until a fatal signal has been taken, wait is called only with a child to wait for.
THEOREM WaitsForSomething == Spec => [](~handling_fatal_signal => NeverWaitsForNothing)
<1>1. LifeInv => (~handling_fatal_signal => NeverWaitsForNothing)
  BY DEF LifeInv, LiveInv, IInv, TypeOK, ChainTypes, ReapingInv, NeverWaitsForNothing
<1>2. QED
  BY <1>1, LifeInvariance, PTL

\* With -k, or with at most three slots and no -l, make exits only when no child is
\* running any more, whatever failed and whichever signal came.
THEOREM ExitsAlone == Spec => [](WaitsInDie => ExitWaits)
<1>1. LifeInv => (WaitsInDie => ExitWaits)
  BY DEF LifeInv, DieInv, ExitWaits
<1>2. QED
  BY <1>1, LifeInvariance, PTL

\* Exit status 0 means that every target asked for was remade without error.
THEOREM SuccessMeansRemade == Spec => []ExitStatus
<1>1. LifeInv => ExitStatus
  BY DEF LifeInv, SuccessInv, ExitStatus
<1>2. QED
  BY <1>1, LifeInvariance, PTL

\* Killed by the user, make leaves no target under way half made on disk.
THEOREM InterruptDeletes == Spec => []InterruptedDeleted
<1>1. LifeInv => InterruptedDeleted
  <2> SUFFICES ASSUME LifeInv, outcome = "signal", sig # "OTHER", NEW f \in Files \ Precious,
                      command_state[f] = "running"
               PROVE  disk[f] # "changed"
    BY DEF InterruptedDeleted
  <2>1. sig \in {"INT", "TERM"}
    BY DEF LifeInv, SignalInv, StatusInv, IInv, TypeOK, ControlTypes, FatalSignals
  <2>2. QED
    BY <2>1 DEF LifeInv, DiskInv
<1>2. QED
  BY <1>1, LifeInvariance, PTL

\* A target whose command was killed, or failed under .DELETE_ON_ERROR, is not left
\* half made on disk.
THEOREM FailureDeletes == Spec => []FailedDeleted
<1>1. LifeInv => FailedDeleted
  BY DEF LifeInv, DiskInv, LastKilled, FailedDeleted
<1>2. QED
  BY <1>1, LifeInvariance, PTL

\* While vfork does not fail, the good standard input is given back.
THEOREM StdinGivenBack == Spec => [](~ForkMayFail => StdinReleased)
<1>1. LifeInv => (~ForkMayFail => StdinReleased)
  BY DEF LifeInv, StdinHeldInv, HoldsStdin, IInv, DyingInv, InReap, ReapPlaces, StdinReleased
<1>2. QED
  BY <1>1, LifeInvariance, PTL

-----------------------------------------------------------------------------
(* What a step may do to a target make has not changed.                    *)

\* A child whose line has just been reaped is running: its time is remembered.
LEMMA RememberedAtReap ==
  ASSUME LifeInv, pc = "reap_status"
  PROVE  c \in Files /\ last_mtime[c] # "zero"
BY DEF LifeInv, IInv, TypeOK, ChainTypes, ReapingInv, ReapedInv, StatusInv

\* A target that nothing changed since make looked at it is not deleted, but where
\* its time has just been forgotten: when vfork fails for a line after the first, and
\* when a fatal signal comes between the end of its commands and its being taken off
\* the chain.
THEOREM UnchangedAreKept ==
  Spec => [][~ForkMayFail /\ pc \notin {"reap_finish", "reap_unlink"} =>
               \A f \in Files : disk[f] = "old" => disk'[f] # "gone"]_vars
<1> DEFINE Kept == ~ForkMayFail /\ pc \notin {"reap_finish", "reap_unlink"} =>
                     \A f \in Files : disk[f] = "old" => disk'[f] # "gone"
<1>1. LifeInv /\ Next => Kept
  <2> SUFFICES ASSUME LifeInv, Next, ~ForkMayFail, pc \notin {"reap_finish", "reap_unlink"},
                      NEW f \in Files, disk[f] = "old"
               PROVE  disk'[f] # "gone"
    OBVIOUS
  <2>1. CASE CommandFailed
    BY <2>1, RememberedAtReap DEF CommandFailed, delete_child_targets, ToDelete
  <2>2. CASE GiveUpRest
    BY <2>2, RememberedAtReap DEF GiveUpRest, CommandSucceeded, delete_child_targets, ToDelete
  <2>3. CASE RunNextCommand
    BY <2>3 DEF RunNextCommand, RunLine, NothingToRun, ForkFails
  <2>4. CASE \E s \in Signals : fatal_error_signal(s)
    <3>1. PICK s \in Signals : fatal_error_signal(s)
      BY <2>4
    <3>2. \A g \in children : last_mtime[g] # "zero"
      BY <3>1 DEF fatal_error_signal, LifeInv, LiveInv, StatusInv, IInv, TypeOK, ChainTypes
    <3>3. QED
      BY <3>1, <3>2 DEF fatal_error_signal, delete_child_targets, ToDelete
  <2>5. CASE StartJob
    BY <2>5 DEF StartJob, RunLine, NothingToRun, ForkFails
  <2>6. CASE \E g \in Files : ChildWrites(g)
    BY <2>6 DEF ChildWrites, LifeInv, IInv, TypeOK, FileTypes
  <2>7. CASE UNCHANGED disk
    BY <2>7
  <2>8. QED
    BY <2>1, <2>2, <2>3, <2>4, <2>5, <2>6, <2>7
       DEF Next, Make, Starting, Reaping, System, Exited, vars, sysVars, new_job, unchangedButPc,
      unchangedButLocals, WaitForGoals, Finish, StartWaitingJobs, PopWaitingJob, WaitForSlot, Defer,
      NullCommand, PutOnChain, WaitIfSerial, ReapNext, LeaveReap, StoreDeadChildren, WaitReturns,
      WaitFindsNone, WaitFails, WaitInterrupted, AllCommandsDone, UnblockAfterRestart, FinishChild,
      TakeOffChain, FreeSlot, FailureKills, LoopAgain, DieWaits, SignalWaits, unchangedByChild,
      ChildExits, child_handler
<1>2. LifeInv /\ [Next]_vars => [Kept]_vars
  BY <1>1
<1>3. QED
  BY <1>2, LifeInvariance, PTL DEF Spec

\* While vfork does not fail and no fatal signal comes, no target that nothing changed
\* is ever deleted.
THEOREM KeptWithoutSignals == ~ForkMayFail /\ Signals = {} => (Spec => UnchangedKept)
<1> SUFFICES ASSUME ~ForkMayFail, Signals = {} PROVE Spec => UnchangedKept
  OBVIOUS
<1> DEFINE Kept == \A f \in Files : disk[f] = "old" => disk'[f] # "gone"
<1>1. LifeInv /\ Next => Kept
  <2> SUFFICES ASSUME LifeInv, Next, NEW f \in Files, disk[f] = "old" PROVE disk'[f] # "gone"
    OBVIOUS
  <2>1. CASE CommandFailed
    BY <2>1, RememberedAtReap DEF CommandFailed, delete_child_targets, ToDelete
  <2>2. CASE GiveUpRest
    BY <2>2, RememberedAtReap DEF GiveUpRest, CommandSucceeded, delete_child_targets, ToDelete
  <2>3. CASE RunNextCommand
    BY <2>3 DEF RunNextCommand, RunLine, NothingToRun, ForkFails
  <2>4. CASE StartJob
    BY <2>4 DEF StartJob, RunLine, NothingToRun, ForkFails
  <2>5. CASE \E g \in Files : ChildWrites(g)
    BY <2>5 DEF ChildWrites, LifeInv, IInv, TypeOK, FileTypes
  <2>6. CASE UNCHANGED disk
    BY <2>6
  <2>7. QED
    BY <2>1, <2>2, <2>3, <2>4, <2>5, <2>6
       DEF Next, Make, Starting, Reaping, System, Exited, vars, sysVars, new_job, unchangedButPc,
      unchangedButLocals, WaitForGoals, Finish, StartWaitingJobs, PopWaitingJob, WaitForSlot, Defer,
      NullCommand, PutOnChain, WaitIfSerial, ReapNext, LeaveReap, StoreDeadChildren, WaitReturns,
      WaitFindsNone, WaitFails, WaitInterrupted, AllCommandsDone, UnblockAfterRestart, FinishChild,
      TakeOffChain, FreeSlot, FailureKills, LoopAgain, DieWaits, SignalWaits, unchangedByChild,
      ChildExits, child_handler
<1>2. LifeInv /\ [Next]_vars => [Kept]_vars
  BY <1>1
<1>3. QED
  BY <1>2, LifeInvariance, PTL DEF Spec, UnchangedKept

-----------------------------------------------------------------------------
(* job.c keeps its promise to remake.c: every step is a step of JobService *)
(* or leaves what remake.c sees alone.                                     *)

\* The status that remake.c sees of every target.
Told == [f \in Files |-> IF command_state[f] = "finished" THEN update_status[f] ELSE -1]

\* A step that changes no state, history or status of a finished target is a stutter
\* of the service, or its end.
LEMMA QuietOrEnd ==
  ASSUME UNCHANGED <<command_state, log>>, pc = "exited" => pc' = "exited",
         \A f \in Files : command_state[f] = "finished" => update_status'[f] = update_status[f]
  PROVE  [Service!Next]_(Service!jvars)
<1>1. Told' = Told
  BY DEF Told
<1>2. CASE pc' = "exited" <=> pc = "exited"
  BY <1>1, <1>2 DEF Service!jvars, Told
<1>3. CASE pc' = "exited" /\ pc # "exited"
  BY <1>1, <1>3 DEF Service!Next, Service!End, Told
<1>4. QED
  BY <1>2, <1>3

\* A target is finished with status 0 when all its lines are done, with 2 when one
\* failed or a process could not be made.
LEMMA Concludes ==
  ASSUME TypeOK, NEW f \in Files, NEW st \in {0, 2}, pc # "exited", pc' # "exited",
         command_state[f] # "finished", UNCHANGED log,
         command_state' = [command_state EXCEPT ![f] = "finished"],
         update_status' = [update_status EXCEPT ![f] = st],
         IF st = 0 THEN Service!AllPassed(f) /\ Service!LinesLeft(f) = {}
                   ELSE ~Service!AllPassed(f) \/ ForkMayFail
  PROVE  Service!Next
<1>1. Told' = [Told EXCEPT ![f] = st]
  BY DEF Told, TypeOK, FileTypes
<1>2. Service!Conclude(f, st)
  BY <1>1 DEF Service!Conclude, Told
<1>3. QED
  BY <1>2 DEF Service!Next, Service!Succeed, Service!Fail

\* A target begins to run.
LEMMA Begins ==
  ASSUME TypeOK, NEW f \in Files, pc # "exited", pc' # "exited",
         command_state[f] # "finished", UNCHANGED log,
         command_state' = [command_state EXCEPT ![f] = "running"],
         UNCHANGED update_status
  PROVE  [Service!Next]_(Service!jvars)
<1>1. Told' = Told
  BY DEF Told, TypeOK, FileTypes
<1>2. CASE command_state[f] = "not_started"
  <2>1. Service!Start(f)
    BY <1>1, <1>2 DEF Service!Start, Told
  <2>2. QED
    BY <2>1 DEF Service!Next
<1>3. CASE command_state[f] = "running"
  <2>1. UNCHANGED command_state
    BY <1>3 DEF TypeOK, FileTypes
  <2>2. QED
    BY <1>1, <2>1, QuietOrEnd
<1>4. QED
  BY <1>2, <1>3 DEF TypeOK, FileTypes, States

\* A line is run: the first of those that are left.
LEMMA LineReaped ==
  ASSUME LifeInv, NEW f \in Files, WaitReturns(f)
  PROVE  Service!Next
<1>1. proc[f] \in Results /\ pc # "exited" /\ pc' # "exited"
  BY DEF WaitReturns
<1>2. command_state[f] = "running" /\ Service!AllPassed(f) /\ OnLine(f)
  BY <1>1 DEF LifeInv, LineInv, Results
<1>3. log' = [log EXCEPT ![f] = Append(@, <<line[f], proc[f]>>)]
  BY DEF WaitReturns
<1>4. Told' = Told /\ UNCHANGED command_state
  BY DEF WaitReturns, fileVars, Told
<1>5. Service!Line(f)
  BY <1>1, <1>2, <1>3, <1>4 DEF Service!Line, OnLine, Told, Results
<1>6. QED
  BY <1>5 DEF Service!Next

\* A job is started, or needs no process, or gets none.
LEMMA JobStarted ==
  ASSUME LifeInv, StartJob
  PROVE  [Service!Next]_(Service!jvars)
<1> USE DEF LifeInv, IInv
<1>1. /\ c \in Files /\ update_status[c] = -1 /\ command_state[c] # "finished"
      /\ log[c] = <<>> /\ line[c] = 0
      /\ pc = "start" /\ pc' \in {"chain", "serial", "sw"} /\ UNCHANGED log
  BY StartFacts DEF StartJob, LeaveStart, BegunInv, NotBegun
<1>2. CASE RunLine(c, good_stdin_used)
  BY <1>1, <1>2, Begins DEF RunLine
<1>3. CASE NothingToRun(c, good_stdin_used)
  <2>1. Service!AllPassed(c) /\ Service!LinesLeft(c) = {}
    BY <1>1, <1>3, FirstLines DEF NothingToRun
  <2>2. QED
    BY <1>1, <1>3, <2>1, Concludes DEF NothingToRun, notice_finished_file
<1>4. CASE ForkFails(c, good_stdin_used)
  <2>1. /\ ForkMayFail /\ command_state' = [command_state EXCEPT ![c] = "finished"]
        /\ update_status' = [update_status EXCEPT ![c] = 2]
    BY <1>4 DEF ForkFails, notice_finished_file
  <2>2. IF 2 = 0 THEN Service!AllPassed(c) /\ Service!LinesLeft(c) = {}
                 ELSE ~Service!AllPassed(c) \/ ForkMayFail
    BY <2>1
  <2>3. QED
    BY <1>1, <2>1, <2>2, Concludes
<1>5. QED
  BY <1>2, <1>3, <1>4 DEF StartJob

\* The next line of a child is started, or there is none, or vfork fails.
LEMMA NextStarted ==
  ASSUME LifeInv, RunNextCommand
  PROVE  [Service!Next]_(Service!jvars)
<1> USE DEF LifeInv, IInv
<1>1. /\ c \in Files /\ command_state[c] = "running" /\ CommandSucceeded
      /\ pc = "reap_status" /\ pc' \in {"reap_unblock", "reap_finish"} /\ UNCHANGED log
  BY DEF RunNextCommand, CommandSucceeded, resultSeen, ReapingInv, ReapedInv, TypeOK, ChainTypes
<1>2. CASE RunLine(c, StdinStillUsed)
  BY <1>1, <1>2, Begins DEF RunLine
<1>3. CASE NothingToRun(c, StdinStillUsed)
  <2>1. Service!AllPassed(c) /\ Service!LinesLeft(c) = {}
    BY <1>1, <1>3, ReapedLines DEF NothingToRun, CommandSucceeded
  <2>2. QED
    BY <1>1, <1>3, <2>1, Concludes DEF NothingToRun, notice_finished_file
<1>4. CASE ForkFails(c, StdinStillUsed)
  <2>1. /\ ForkMayFail /\ command_state' = [command_state EXCEPT ![c] = "finished"]
        /\ update_status' = [update_status EXCEPT ![c] = 2]
    BY <1>4 DEF ForkFails, notice_finished_file
  <2>2. IF 2 = 0 THEN Service!AllPassed(c) /\ Service!LinesLeft(c) = {}
                 ELSE ~Service!AllPassed(c) \/ ForkMayFail
    BY <2>1
  <2>3. QED
    BY <1>1, <2>1, <2>2, Concludes
<1>5. QED
  BY <1>2, <1>3, <1>4 DEF RunNextCommand

\* A child that is through tells its target the status of its lines, once.
LEMMA ChildFinished ==
  ASSUME LifeInv, FinishChild
  PROVE  [Service!Next]_(Service!jvars)
<1> USE DEF LifeInv, IInv
<1>1. /\ c \in Files /\ update_status[c] \in {0, 2} /\ command_state[c] \in {"running", "finished"}
      /\ pc = "reap_finish" /\ pc' = "reap_unlink" /\ UNCHANGED log
  BY DEF FinishChild, ReapingInv, StatusInv, ChainsInv, TypeOK, ChainTypes, FileTypes, States,
         sysVars
<1>2. CASE handling_fatal_signal
  BY <1>1, <1>2, QuietOrEnd DEF FinishChild, fileVars
<1>3. CASE ~handling_fatal_signal /\ command_state[c] = "finished"
  <2>1. /\ command_state' = [command_state EXCEPT ![c] = "finished"]
        /\ update_status' = [update_status EXCEPT ![c] = update_status[c]]
    BY <1>3 DEF FinishChild, notice_finished_file
  <2>2. command_state \in [Files -> States] /\ update_status \in [Files -> {-1, 0, 2}]
    BY DEF TypeOK, FileTypes
  <2>3. UNCHANGED <<command_state, update_status>>
    BY <1>3, <2>1, <2>2
  <2>4. QED
    BY <1>1, <2>3, QuietOrEnd
<1>4. CASE ~handling_fatal_signal /\ command_state[c] = "running"
  <2>1. IF update_status[c] = 0 THEN Service!AllPassed(c) /\ Service!LinesLeft(c) = {}
                                ELSE ~Service!AllPassed(c)
    BY <1>1, <1>4 DEF DoneInv
  <2>2. /\ command_state' = [command_state EXCEPT ![c] = "finished"]
        /\ update_status' = [update_status EXCEPT ![c] = update_status[c]]
    BY <1>4 DEF FinishChild, notice_finished_file
  <2>3. QED
    BY <1>1, <1>4, <2>1, <2>2, Concludes
<1>5. QED
  BY <1>1, <1>2, <1>3, <1>4

\* The status of a child is put down while its target is running still.
LEMMA StatusNoted ==
  ASSUME LifeInv, CommandFailed \/ AllCommandsDone \/ GiveUpRest
  PROVE  [Service!Next]_(Service!jvars)
<1>1. /\ UNCHANGED <<command_state, log>> /\ pc # "exited" /\ pc' # "exited"
      /\ \A f \in Files : f # c => update_status'[f] = update_status[f]
  BY DEF CommandFailed, AllCommandsDone, GiveUpRest, CommandSucceeded, resultSeen, LifeInv, IInv,
         TypeOK, FileTypes
<1>2. command_state[c] = "running"
  BY DEF CommandFailed, AllCommandsDone, GiveUpRest, CommandSucceeded, LifeInv, ReapedInv
<1>3. QED
  BY <1>1, <1>2, QuietOrEnd

\* Every step of make and its children is a step of the service, or a stutter.
LEMMA ServiceStep == LifeInv /\ [Next]_vars => [Service!Next]_(Service!jvars)
<1> SUFFICES ASSUME LifeInv, [Next]_vars PROVE [Service!Next]_(Service!jvars)
  OBVIOUS
<1>1. CASE \E f \in Files : WaitReturns(f)
  BY <1>1, LineReaped
<1>2. CASE StartJob
  BY <1>2, JobStarted
<1>3. CASE RunNextCommand
  BY <1>3, NextStarted
<1>4. CASE FinishChild
  BY <1>4, ChildFinished
<1>5. CASE CommandFailed \/ AllCommandsDone \/ GiveUpRest
  BY <1>5, StatusNoted
<1>6. CASE Defer
  <2>1. c \in Files /\ command_state[c] # "finished"
    BY <1>6, StartFacts DEF Defer, LifeInv
  <2>2. pc # "exited" /\ pc' # "exited" /\ UNCHANGED <<log, update_status>>
    BY <1>6 DEF Defer, LeaveStartWaiting, CallReap, sysVars
  <2>3. QED
    BY <1>6, <2>1, <2>2, Begins DEF Defer, LifeInv, IInv
<1>7. CASE UNCHANGED <<command_state, update_status, log>> /\ (pc = "exited" => pc' = "exited")
  BY <1>7, QuietOrEnd
<1>8. QED
  <2>1. CASE (\E f \in Files : new_job(f)) \/ WaitForGoals \/ Finish \/ DieWaits \/ SignalWaits
    BY <2>1, <1>7 DEF new_job, unchangedButPc, unchangedButLocals, WaitForGoals, Finish, Die,
      DieWaits, CallReap, SignalWaits, vars, fileVars, sysVars
  <2>2. CASE StartWaitingJobs \/ PopWaitingJob \/ WaitForSlot \/ NullCommand \/ PutOnChain
    BY <2>2, <1>7 DEF StartWaitingJobs, LeaveStartWaiting, CallReap, unchangedButPc,
      unchangedButLocals, PopWaitingJob, WaitForSlot, NullCommand, PutOnChain, LeaveStart, vars,
      fileVars, sysVars
  <2>3. CASE WaitIfSerial \/ ReapNext \/ LeaveReap \/ StoreDeadChildren \/ WaitFindsNone
    BY <2>3, <1>7 DEF WaitIfSerial, CallReap, unchangedButPc, unchangedButLocals, ReapNext,
      MoreToReap, LeaveReap, ReturnFromReap, StoreDeadChildren, WaitFindsNone, vars, fileVars,
      sysVars
  <2>4. CASE WaitFails \/ WaitInterrupted \/ UnblockAfterRestart \/ TakeOffChain \/ FreeSlot
    BY <2>4, <1>7 DEF WaitFails, Die, unchangedButLocals, WaitInterrupted, UnblockAfterRestart,
      TakeOffChain, FreeSlot, vars, fileVars, sysVars
  <2>5. CASE FailureKills \/ LoopAgain \/ (\E f \in Files : ChildWrites(f)) \/ (\E f \in Files,
        r \in ChildResults : ChildExits(f, r)) \/ child_handler
    BY <2>5, <1>7 DEF FailureKills, Die, unchangedButLocals, LoopAgain, ChildWrites,
      unchangedByChild, ChildExits, child_handler, vars, fileVars, sysVars
  <2>6. CASE (\E s \in Signals : fatal_error_signal(s)) \/ UNCHANGED vars
    BY <2>6, <1>7 DEF fatal_error_signal, vars, fileVars, sysVars
  <2>7. QED
    BY <1>1, <1>2, <1>3, <1>4, <1>5, <1>6, <2>1, <2>2, <2>3, <2>4, <2>5, <2>6 DEF Next, Make,
      Starting, Reaping, System, Exited

\* job.c implements JobService: whatever the slots, the load, the signals and the
\* merged SIGCHLDs, every target is remade line by line in order, concluded once, and
\* with status 0 only when every line was run and passed.
THEOREM ServiceImplemented == Spec => Service!Init /\ [][Service!Next]_(Service!jvars)
<1>1. Init => Service!Init
  BY DEF Init, Service!Init
<1>2. QED
  BY <1>1, ServiceStep, LifeInvariance, PTL DEF Spec
=============================================================================
