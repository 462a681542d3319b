------------------------------ MODULE MakeJobs ------------------------------
(***************************************************************************)
(* The job service of GNU make 3.76.1 (job.c), with the fatal signal       *)
(* handler of commands.c and die of main.c: the chain of running children, *)
(* the chain of jobs waiting for the load to fall, the job slots, the good *)
(* standard input, SIGCHLD and the count of dead children, the fatal       *)
(* signals and the windows in which they are blocked.                      *)
(*                                                                         *)
(* make is one process: pc says where its only thread is, one action per   *)
(* stretch of code that no signal handler and no child can see the middle  *)
(* of.  reap_children is a subroutine: frame holds its parameters and the  *)
(* place it returns to.  The caller, remake.c, asks for a job with         *)
(* new_job, waits with reap_children (1, 0), and ends in die.              *)
(*                                                                         *)
(* Bounds: every target is given to new_job at most once (remake.c gives   *)
(* it no second time, see MakeUpdate), and at most one fatal signal        *)
(* arrives.  -q, -t, -n, the optimised `:', also_make, phony targets,      *)
(* remote jobs and $(shell ...) are left out.                              *)
(***************************************************************************)
EXTENDS Integers, Sequences, FiniteSets

CONSTANTS
  Files,            \* targets that have commands (other than white space)
  NoFile,           \* the null pointer
  Cmds,             \* each target's expanded, non-empty command lines, in order
  Precious,         \* targets of .PRECIOUS
  job_slots,        \* -j; 0 is no limit
  LoadLimit,        \* -l was given: load_too_high may answer yes
  keep_going_flag,  \* -k
  delete_on_error,  \* .DELETE_ON_ERROR is a target
  ForkMayFail,      \* vfork may fail
  Signals,          \* fatal signals that may arrive
  Writers,          \* targets whose commands may change the file
  ChildResults      \* what may become of a command

\* A line is "blank" when construct_command_argv finds no words in it, "ignore"
\* when an error is ignored (-, -i, .IGNORE).
LineKinds == {"run", "ignore", "blank"}
\* INT stands for SIGINT, SIGHUP and SIGQUIT; OTHER for every other fatal signal.
FatalSignals == {"INT", "TERM", "OTHER"}
Results == {"ok", "error", "signal"}

ASSUME FilesAssumption == IsFiniteSet(Files) /\ NoFile \notin Files
ASSUME CmdsAssumption == Cmds \in [Files -> Seq(LineKinds)]
ASSUME FlagsAssumption == /\ Precious \subseteq Files /\ Writers \subseteq Files
                          /\ ChildResults \subseteq Results
                          /\ job_slots \in Nat
                          /\ {LoadLimit, keep_going_flag, delete_on_error, ForkMayFail}
                               \subseteq BOOLEAN
                          /\ Signals \subseteq FatalSignals

VARIABLES
  \* struct file
  command_state, update_status, last_mtime,
  \* struct child: the line it is on, its own good_stdin and deleted
  line, good_stdin, deleted,
  \* job.c
  children, waiting_jobs, job_slots_used, good_stdin_used, dead_children,
  \* make's thread: place, current child, file of new_job, the reap_children
  \* frame, the status just reaped, the register of the decrement
  pc, c, new_file, frame, result, child_failed, register,
  \* fatal signals, commands.c, main.c
  blocked, handling_fatal_signal, sig, dying, die_err, outcome,
  \* the system: processes, the target on disk, a pending SIGCHLD
  proc, disk, sigchld,
  \* history: for each target the lines that were run, with their results
  log

fileVars == <<command_state, update_status, last_mtime>>
childVars == <<line, good_stdin, deleted>>
chainVars == <<children, waiting_jobs, job_slots_used>>
sigVars == <<handling_fatal_signal, sig>>
dieVars == <<dying, die_err, outcome>>
sysVars == <<proc, disk, sigchld, log>>
locals == <<result, child_failed, register>>
vars == <<fileVars, childVars, chainVars, good_stdin_used, dead_children, pc, c, new_file,
          frame, locals, blocked, sigVars, dieVars, sysVars>>

States == {"not_started", "running", "finished"}
Places == {"idle", "sw", "sw_pop", "slot", "start", "chain", "serial", "reap", "reap_store",
           "reap_wait", "reap_status", "reap_unblock", "reap_finish", "reap_unlink",
           "reap_slot", "reap_die", "die", "sig", "exited"}
\* The places reap_children is called from return here.
Returns == {"idle", "sw_pop", "slot", "serial", "die", "sig"}
\* Local variables are put back to these when the code is through with them.
Frames == [block : BOOLEAN, err : BOOLEAN, return : Returns]
NoFrame == [block |-> FALSE, err |-> FALSE, return |-> "idle"]

Init ==
  /\ command_state = [f \in Files |-> "not_started"]
  /\ update_status = [f \in Files |-> -1]
  /\ last_mtime = [f \in Files |-> "cached"]
  /\ line = [f \in Files |-> 0]
  /\ good_stdin = {}
  /\ deleted = {}
  /\ children = {} /\ waiting_jobs = <<>> /\ job_slots_used = 0
  /\ good_stdin_used = FALSE
  /\ dead_children = 0
  /\ pc = "idle" /\ c = NoFile /\ new_file = NoFile
  /\ frame = NoFrame
  /\ result = "ok" /\ child_failed = FALSE /\ register = 0
  /\ blocked = FALSE /\ handling_fatal_signal = FALSE /\ sig = "none"
  /\ dying = FALSE /\ die_err = FALSE /\ outcome = "none"
  /\ proc = [f \in Files |-> "none"]
  /\ disk = [f \in Files |-> "old"]
  /\ sigchld = FALSE
  /\ log = [f \in Files |-> <<>>]

-----------------------------------------------------------------------------
(* Operations of struct file and struct child.                             *)

\* notice_finished_file: a target whose commands ran gets its modification
\* time forgotten, so that the next look at it asks the disk.
notice_finished_file(f, status) ==
  /\ command_state' = [command_state EXCEPT ![f] = "finished"]
  /\ update_status' = [update_status EXCEPT ![f] = status]
  /\ last_mtime' = IF command_state[f] = "running"
                   THEN [last_mtime EXCEPT ![f] = "zero"] ELSE last_mtime

\* Mutants.  An operator whose comment starts with Wrong is not part of the model:
\* it is the definition after it with a bug, which a mutant run puts in its place
\* to see the property fail.

\* Wrong: the modification time is not looked at.
ToDeleteAnyTime(S, mt) == {f \in S : f \notin deleted \cup Precious /\ disk[f] # "gone"}

\* delete_target's condition, with modification times mt: the file is there and
\* its time is not the remembered one.
ToDelete(S, mt) ==
  {f \in S : f \notin deleted \cup Precious
             /\ (disk[f] = "changed" \/ (disk[f] = "old" /\ mt[f] = "zero"))}

\* delete_child_targets for every child of S.
delete_child_targets(S, mt) ==
  /\ disk' = [f \in Files |-> IF f \in ToDelete(S, mt) THEN "gone" ELSE disk[f]]
  /\ deleted' = deleted \cup S

\* Wrong: off by one.
job_next_command_but_one(f) == line[f] < Len(Cmds[f]) - 1

\* job_next_command: are there lines after the one the child is on?
job_next_command(f) == line[f] < Len(Cmds[f])

\* The lines still to be started that make anything run.
PendingLines(f) == {k \in 1..Len(Cmds[f]) : k > line[f] /\ Cmds[f][k] # "blank"}
TakeNextLine(f) ==
  \E k \in PendingLines(f) : /\ \A j \in PendingLines(f) : k <= j
                            /\ line' = [line EXCEPT ![f] = k]

\* start_job_command, when no line is left that runs anything.
NothingToRun(f, used) ==
  /\ PendingLines(f) = {}
  /\ line' = [line EXCEPT ![f] = Len(Cmds[f])]
  /\ notice_finished_file(f, 0)
  /\ good_stdin_used' = used
  /\ UNCHANGED <<good_stdin, deleted, blocked, proc, disk>>

\* Wrong: whether the good standard input is free is not asked.
TakeStdinAnyway(f, used) ==
  /\ good_stdin' = good_stdin \cup {f}
  /\ good_stdin_used' = TRUE

\* start_job_command takes the good standard input unless it is used.
TakeStdin(f, used) ==
  /\ good_stdin' = IF used THEN good_stdin \ {f} ELSE good_stdin \cup {f}
  /\ good_stdin_used' = TRUE

\* Wrong: fatal signals are let in before the child is on the chain.
RunLineUnblocked(f, used) ==
  /\ TakeNextLine(f)
  /\ TakeStdin(f, used)
  /\ deleted' = deleted \ {f}
  /\ proc' = [proc EXCEPT ![f] = "running"]
  /\ command_state' = [command_state EXCEPT ![f] = "running"]
  /\ UNCHANGED <<update_status, last_mtime, disk, blocked>>

\* start_job_command, when vfork succeeds: on return fatal signals are blocked.
RunLine(f, used) ==
  /\ TakeNextLine(f)
  /\ TakeStdin(f, used)
  /\ deleted' = deleted \ {f}
  /\ proc' = [proc EXCEPT ![f] = "running"]
  /\ blocked' = TRUE
  /\ command_state' = [command_state EXCEPT ![f] = "running"]
  /\ UNCHANGED <<update_status, last_mtime, disk>>

\* Wrong: the target passes for updated.
ForkFailsQuietly(f, used) ==
  /\ ForkMayFail
  /\ TakeNextLine(f)
  /\ TakeStdin(f, used)
  /\ notice_finished_file(f, 0)
  /\ UNCHANGED <<blocked, proc>>

\* start_job_command, when vfork fails.
ForkFails(f, used) ==
  /\ ForkMayFail
  /\ TakeNextLine(f)
  /\ TakeStdin(f, used)
  /\ notice_finished_file(f, 2)
  /\ UNCHANGED <<blocked, proc>>

-----------------------------------------------------------------------------
(* Calls and returns.                                                      *)

CallReap(block, err, return) ==
  /\ pc' = "reap"
  /\ frame' = [block |-> block, err |-> err, return |-> return]

ReturnFromReap == pc' = frame.return /\ frame' = NoFrame

\* die (status): a second call, from inside the first, exits at once.
Die(result_of_run) ==
  /\ outcome' = result_of_run
  /\ dying' = TRUE
  /\ pc' = IF dying THEN "exited" ELSE "die"
  /\ die_err' = (result_of_run = "failure")
  /\ c' = NoFile /\ new_file' = NoFile /\ frame' = NoFrame /\ child_failed' = FALSE

\* start_waiting_jobs returns: to new_job, which reaps what has finished, or to
\* update_goal_chain, which waits for a child.
LeaveStartWaiting ==
  IF new_file # NoFile THEN CallReap(FALSE, FALSE, "slot") ELSE CallReap(TRUE, FALSE, "idle")

-----------------------------------------------------------------------------
(* The caller's requests.                                                  *)

unchangedButLocals == UNCHANGED <<fileVars, childVars, chainVars, good_stdin_used, dead_children,
                                 result, register, blocked, sigVars, sysVars>>
unchangedButPc == unchangedButLocals /\ UNCHANGED child_failed

\* remake_file -> execute_file_commands -> new_job.  (Commands of white space only
\* are finished in execute_file_commands and never come here.)
new_job(f) ==
  /\ pc = "idle" /\ command_state[f] = "not_started"
  /\ new_file' = f
  /\ pc' = "sw"
  /\ unchangedButPc
  /\ UNCHANGED <<c, frame, dieVars>>

\* The head of update_goal_chain's loop, while a goal is not finished.
WaitForGoals ==
  /\ pc = "idle" /\ \E f \in Files : command_state[f] = "running"
  /\ new_file' = NoFile
  /\ pc' = "sw"
  /\ unchangedButPc
  /\ UNCHANGED <<c, frame, dieVars>>

\* update_goal_chain is through and main calls die with its status.
Finish ==
  /\ pc = "idle" /\ \A f \in Files : command_state[f] # "running"
  /\ Die(IF \E f \in Files : update_status[f] = 2 THEN "failure" ELSE "success")
  /\ unchangedButLocals

-----------------------------------------------------------------------------
(* Starting jobs.                                                          *)

\* Wrong: waiting jobs are looked at only when a new one is asked for.
StartWaitingJobsLazily ==
  /\ pc = "sw"
  /\ IF waiting_jobs = <<>> \/ new_file = NoFile
     THEN LeaveStartWaiting ELSE CallReap(FALSE, FALSE, "sw_pop")
  /\ unchangedButPc
  /\ UNCHANGED <<c, new_file, dieVars>>

\* start_waiting_jobs: look for dead children, then take a job.
StartWaitingJobs ==
  /\ pc = "sw"
  /\ IF waiting_jobs = <<>> THEN LeaveStartWaiting ELSE CallReap(FALSE, FALSE, "sw_pop")
  /\ unchangedButPc
  /\ UNCHANGED <<c, new_file, dieVars>>

PopWaitingJob ==
  /\ pc = "sw_pop"
  /\ c' = Head(waiting_jobs)
  /\ waiting_jobs' = Tail(waiting_jobs)
  /\ pc' = "start"
  /\ UNCHANGED <<fileVars, childVars, children, job_slots_used, good_stdin_used, dead_children,
                 new_file, frame, locals, blocked, sigVars, dieVars,
                 sysVars>>

\* Wrong: off by one.
WaitForSlotLate ==
  /\ pc = "slot"
  /\ IF job_slots # 0 /\ job_slots_used > job_slots
     THEN CallReap(TRUE, FALSE, "slot") /\ UNCHANGED c
     ELSE pc' = "start" /\ c' = new_file /\ UNCHANGED frame
  /\ unchangedButPc
  /\ UNCHANGED <<new_file, dieVars>>

\* new_job waits for a slot, then builds the struct child.
WaitForSlot ==
  /\ pc = "slot"
  /\ IF job_slots # 0 /\ job_slots_used = job_slots
     THEN CallReap(TRUE, FALSE, "slot") /\ UNCHANGED c
     ELSE pc' = "start" /\ c' = new_file /\ UNCHANGED frame
  /\ unchangedButPc
  /\ UNCHANGED <<new_file, dieVars>>

\* Where start_waiting_job goes back to once it has started a job.
LeaveStart == c' = NoFile /\ pc' = IF c = new_file THEN "serial" ELSE "sw"

\* start_waiting_job, when the load is too high.
Defer ==
  /\ pc = "start" /\ LoadLimit /\ job_slots_used > 0
  /\ command_state' = [command_state EXCEPT ![c] = "running"]
  /\ waiting_jobs' = <<c>> \o waiting_jobs
  /\ c' = NoFile
  /\ IF c = new_file THEN pc' = "serial" /\ UNCHANGED frame ELSE LeaveStartWaiting
  /\ UNCHANGED <<update_status, last_mtime, childVars, children, job_slots_used,
                 good_stdin_used, dead_children, new_file, locals,
                 blocked, sigVars, dieVars, sysVars>>

StartJob ==
  /\ pc = "start"
  /\ \/ RunLine(c, good_stdin_used) /\ pc' = "chain" /\ UNCHANGED c
     \/ NothingToRun(c, good_stdin_used) /\ LeaveStart
     \/ ForkFails(c, good_stdin_used) /\ LeaveStart /\ UNCHANGED <<deleted, disk>>
  /\ UNCHANGED <<chainVars, dead_children, new_file, frame, locals,
                 sigVars, dieVars, sigchld, log>>

\* start_job_command reads through command_ptr, which job_next_command left
\* null when every line expanded to nothing.  Undefined behaviour: where page 0
\* is readable the line looks empty (NothingToRun), elsewhere make is killed.
NullCommand ==
  /\ pc = "start" /\ Cmds[c] = <<>>
  /\ outcome' = "crash"
  /\ pc' = "exited"
  /\ unchangedButPc
  /\ UNCHANGED <<c, new_file, frame, dying, die_err>>

PutOnChain ==
  /\ pc = "chain"
  /\ children' = children \cup {c}
  /\ job_slots_used' = job_slots_used + 1
  /\ blocked' = FALSE
  /\ LeaveStart
  /\ UNCHANGED <<fileVars, childVars, waiting_jobs, good_stdin_used, dead_children, new_file,
                 frame, locals, sigVars, dieVars, sysVars>>

\* The end of new_job: with one slot, wait for the commands to finish.
WaitIfSerial ==
  /\ pc = "serial"
  /\ IF job_slots = 1 /\ command_state[new_file] = "running"
     THEN CallReap(TRUE, FALSE, "serial") /\ UNCHANGED new_file
     ELSE pc' = "idle" /\ new_file' = NoFile /\ UNCHANGED frame
  /\ unchangedButPc
  /\ UNCHANGED <<c, dieVars>>

-----------------------------------------------------------------------------
(* reap_children.                                                          *)

\* Wrong: the count of deaths is taken at its word.
MoreToReapByCount == frame.block \/ dead_children > 0

\* The loop's condition: without BLOCK, only while deaths have been counted.
MoreToReap == children # {} /\ (frame.block \/ dead_children > 0)

\* Wrong: the count is decremented without being tested.
ReapNextUntested ==
  /\ pc = "reap" /\ MoreToReap
  /\ register' = dead_children - 1 /\ pc' = "reap_store"
  /\ UNCHANGED <<fileVars, childVars, chainVars, good_stdin_used, dead_children, c, new_file,
                 frame, result, child_failed, blocked, sigVars, dieVars, sysVars>>

\* The first half of --dead_children, which is done only when it is positive.
ReapNext ==
  /\ pc = "reap" /\ MoreToReap
  /\ IF dead_children > 0 THEN register' = dead_children - 1 /\ pc' = "reap_store"
                          ELSE pc' = "reap_wait" /\ UNCHANGED register
  /\ UNCHANGED <<fileVars, childVars, chainVars, good_stdin_used, dead_children, c, new_file,
                 frame, result, child_failed, blocked, sigVars, dieVars, sysVars>>

LeaveReap ==
  /\ pc = "reap" /\ ~MoreToReap
  /\ ReturnFromReap
  /\ unchangedButPc
  /\ UNCHANGED <<c, new_file, dieVars>>

\* The second half: an increment by child_handler in between is lost.
StoreDeadChildren ==
  /\ pc = "reap_store"
  /\ dead_children' = register
  /\ register' = 0
  /\ pc' = "reap_wait"
  /\ UNCHANGED <<fileVars, childVars, chainVars, good_stdin_used, c, new_file, frame, result,
                 child_failed, blocked, sigVars, dieVars, sysVars>>

\* wait, or wait3 with WNOHANG, answers with a dead child.
WaitReturns(f) ==
  /\ pc = "reap_wait" /\ proc[f] \in Results
  /\ proc' = [proc EXCEPT ![f] = "none"]
  /\ log' = [log EXCEPT ![f] = Append(@, <<line[f], proc[f]>>)]
  /\ c' = f
  /\ result' = proc[f]
  /\ child_failed' = (proc[f] # "ok")
  /\ pc' = "reap_status"
  /\ UNCHANGED <<fileVars, childVars, chainVars, good_stdin_used, dead_children, new_file, frame,
                 register, blocked, sigVars, dieVars, disk, sigchld>>

\* wait3 with WNOHANG finds living children only: the loop is left.
WaitFindsNone ==
  /\ pc = "reap_wait" /\ ~frame.block
  /\ \A f \in Files : proc[f] \notin Results
  /\ \E f \in Files : proc[f] = "running"
  /\ ReturnFromReap
  /\ unchangedButPc
  /\ UNCHANGED <<c, new_file, dieVars>>

\* wait fails with ECHILD, there being no child at all: pfatal_with_name.
WaitFails ==
  /\ pc = "reap_wait" /\ \A f \in Files : proc[f] = "none"
  /\ Die("failure")
  /\ unchangedButLocals

\* SIGCHLD interrupts wait: EINTR, back to the head of the loop.
WaitInterrupted ==
  /\ pc = "reap_wait" /\ frame.block /\ sigchld
  /\ sigchld' = FALSE
  /\ dead_children' = dead_children + 1
  /\ pc' = "reap"
  /\ UNCHANGED <<fileVars, childVars, chainVars, good_stdin_used, c, new_file, frame, locals, blocked, sigVars, dieVars, proc, disk, log>>

\* Wrong: nobody gives it back.
StdinStillUsedEver == good_stdin_used

\* A child that had the good standard input gives it back.
StdinStillUsed == good_stdin_used /\ c \notin good_stdin

\* An error is ignored when the line says so.
Ignored == Cmds[c][line[c]] = "ignore"

resultSeen == /\ result' = "ok"
              /\ UNCHANGED <<chainVars, dead_children, c, new_file, frame, register, sigVars,
                             dieVars, sigchld, log>>

\* Wrong: the failure is not recorded.
CommandFailedUnrecorded ==
  /\ pc = "reap_status" /\ child_failed /\ ~Ignored
  /\ good_stdin_used' = StdinStillUsed
  /\ IF result = "signal" \/ delete_on_error
     THEN delete_child_targets({c}, last_mtime) ELSE UNCHANGED <<disk, deleted>>
  /\ pc' = "reap_finish"
  /\ resultSeen
  /\ UNCHANGED <<update_status, command_state, last_mtime, line, good_stdin, child_failed,
                 blocked, proc>>

\* Wrong: only .DELETE_ON_ERROR is asked.
CommandFailedLeft ==
  /\ pc = "reap_status" /\ child_failed /\ ~Ignored
  /\ good_stdin_used' = StdinStillUsed
  /\ update_status' = [update_status EXCEPT ![c] = 2]
  /\ IF delete_on_error
     THEN delete_child_targets({c}, last_mtime) ELSE UNCHANGED <<disk, deleted>>
  /\ pc' = "reap_finish"
  /\ resultSeen
  /\ UNCHANGED <<command_state, last_mtime, line, good_stdin, child_failed, blocked, proc>>

\* The command failed: no further line is run.
CommandFailed ==
  /\ pc = "reap_status" /\ child_failed /\ ~Ignored
  /\ good_stdin_used' = StdinStillUsed
  /\ update_status' = [update_status EXCEPT ![c] = 2]
  /\ IF result = "signal" \/ delete_on_error
     THEN delete_child_targets({c}, last_mtime) ELSE UNCHANGED <<disk, deleted>>
  /\ pc' = "reap_finish"
  /\ resultSeen
  /\ UNCHANGED <<command_state, last_mtime, line, good_stdin, child_failed, blocked, proc>>

CommandSucceeded == pc = "reap_status" /\ (~child_failed \/ Ignored)

\* That was the last line: the target has been updated.
AllCommandsDone ==
  /\ CommandSucceeded /\ ~job_next_command(c)
  /\ good_stdin_used' = StdinStillUsed
  /\ child_failed' = FALSE
  /\ update_status' = [update_status EXCEPT ![c] = 0]
  /\ pc' = "reap_finish"
  /\ resultSeen
  /\ UNCHANGED <<command_state, last_mtime, childVars, blocked, proc, disk>>

\* There are more lines, but make is being killed.
GiveUpRest ==
  /\ CommandSucceeded /\ job_next_command(c) /\ handling_fatal_signal
  /\ good_stdin_used' = StdinStillUsed
  /\ child_failed' = FALSE
  /\ update_status' = [update_status EXCEPT ![c] = 2]
  /\ delete_child_targets({c}, last_mtime)
  /\ pc' = "reap_finish"
  /\ resultSeen
  /\ UNCHANGED <<command_state, last_mtime, line, good_stdin, blocked, proc>>

\* Wrong: a fatal signal being handled does not matter.
RunNextCommandDying ==
  /\ CommandSucceeded /\ job_next_command(c)
  /\ child_failed' = FALSE
  /\ \/ RunLine(c, StdinStillUsed) /\ pc' = "reap_unblock"
     \/ NothingToRun(c, StdinStillUsed) /\ pc' = "reap_finish"
     \/ /\ ForkFails(c, StdinStillUsed)
        /\ delete_child_targets({c}, last_mtime')
        /\ pc' = "reap_finish"
  /\ resultSeen

\* There are more lines: start_job_command, and `continue' if one was started.
RunNextCommand ==
  /\ CommandSucceeded /\ job_next_command(c) /\ ~handling_fatal_signal
  /\ child_failed' = FALSE
  /\ \/ RunLine(c, StdinStillUsed) /\ pc' = "reap_unblock"
     \/ NothingToRun(c, StdinStillUsed) /\ pc' = "reap_finish"
     \/ /\ ForkFails(c, StdinStillUsed)
        /\ delete_child_targets({c}, last_mtime')
        /\ pc' = "reap_finish"
  /\ resultSeen

\* The child is still on the chain, so fatal signals may come now.
UnblockAfterRestart ==
  /\ pc = "reap_unblock"
  /\ blocked' = FALSE
  /\ c' = NoFile
  /\ pc' = "reap"
  /\ UNCHANGED <<fileVars, childVars, chainVars, good_stdin_used, dead_children, new_file,
                 frame, locals, sigVars, dieVars, sysVars>>

\* The child is through: tell its file, unless make is being killed.
FinishChild ==
  /\ pc = "reap_finish"
  /\ IF handling_fatal_signal THEN UNCHANGED fileVars
                              ELSE notice_finished_file(c, update_status[c])
  /\ pc' = "reap_unlink"
  /\ UNCHANGED <<childVars, chainVars, good_stdin_used, dead_children, c, new_file, frame, locals, blocked, sigVars, dieVars, sysVars>>

\* Wrong: fatal signals are not blocked.
TakeOffChainUnblocked ==
  /\ pc = "reap_unlink"
  /\ children' = children \ {c}
  /\ pc' = "reap_slot"
  /\ UNCHANGED <<fileVars, childVars, waiting_jobs, job_slots_used, good_stdin_used, blocked,
                 dead_children, c, new_file, frame, locals, sigVars, dieVars, sysVars>>

\* Fatal signals are blocked from here until the slot is given back.
TakeOffChain ==
  /\ pc = "reap_unlink"
  /\ blocked' = TRUE
  /\ children' = children \ {c}
  /\ pc' = "reap_slot"
  /\ UNCHANGED <<fileVars, childVars, waiting_jobs, job_slots_used, good_stdin_used,
                 dead_children, c, new_file, frame, locals, sigVars,
                 dieVars, sysVars>>

\* Wrong: the slot is not given back.
FreeSlotNever ==
  /\ pc = "reap_slot"
  /\ blocked' = FALSE
  /\ pc' = "reap_die"
  /\ UNCHANGED <<fileVars, childVars, chainVars, good_stdin_used, dead_children, c,
                 new_file, frame, locals, sigVars, dieVars, sysVars>>

FreeSlot ==
  /\ pc = "reap_slot"
  /\ job_slots_used' = IF job_slots_used > 0 THEN job_slots_used - 1 ELSE job_slots_used
  /\ blocked' = FALSE
  /\ pc' = "reap_die"
  /\ UNCHANGED <<fileVars, childVars, children, waiting_jobs, good_stdin_used, dead_children, c,
                 new_file, frame, locals, sigVars, dieVars, sysVars>>

\* A failure ends make, unless -k was given or make is dying already.
FailureIsFatal == ~frame.err /\ child_failed /\ ~keep_going_flag /\ ~handling_fatal_signal

FailureKills ==
  /\ pc = "reap_die" /\ FailureIsFatal
  /\ Die("failure")
  /\ unchangedButLocals

\* Otherwise the loop goes on, and no longer blocks.
LoopAgain ==
  /\ pc = "reap_die" /\ ~FailureIsFatal
  /\ pc' = "reap"
  /\ frame' = [frame EXCEPT !.block = FALSE]
  /\ c' = NoFile /\ child_failed' = FALSE
  /\ unchangedButLocals
  /\ UNCHANGED <<new_file, dieVars>>

-----------------------------------------------------------------------------
(* die and fatal_error_signal.                                             *)

\* Wrong: nobody is waited for.
DieAtOnce ==
  /\ pc = "die"
  /\ pc' = "exited"
  /\ unchangedButPc
  /\ UNCHANGED <<c, new_file, dying, outcome, frame, die_err>>

\* for (err = status != 0; job_slots_used > 0; err = 0) reap_children (1, err)
DieWaits ==
  /\ pc = "die"
  /\ IF job_slots_used > 0
     THEN CallReap(TRUE, die_err, "die") /\ die_err' = FALSE
     ELSE pc' = "exited" /\ UNCHANGED <<frame, die_err>>
  /\ unchangedButPc
  /\ UNCHANGED <<c, new_file, dying, outcome>>

\* Wrong: only the targets of children that still run are deleted.
fatal_error_signal_running(s) ==
  /\ pc # "exited" /\ ~blocked /\ ~handling_fatal_signal
  /\ handling_fatal_signal' = TRUE
  /\ sig' = s
  /\ IF s = "OTHER" THEN UNCHANGED <<disk, deleted>>
     ELSE delete_child_targets({f \in children : proc[f] = "running"}, last_mtime)
  /\ pc' = "sig"
  /\ c' = NoFile /\ new_file' = NoFile /\ frame' = NoFrame
  /\ result' = "ok" /\ child_failed' = FALSE /\ register' = 0
  /\ UNCHANGED <<fileVars, line, good_stdin, chainVars, good_stdin_used, dead_children, blocked,
                 dieVars, proc, sigchld, log>>

\* fatal_error_signal takes make's thread wherever it is; it never returns.
\* The user's signals delete the targets of every child first.
fatal_error_signal(s) ==
  /\ pc # "exited" /\ ~blocked /\ ~handling_fatal_signal
  /\ handling_fatal_signal' = TRUE
  /\ sig' = s
  /\ IF s = "OTHER" THEN UNCHANGED <<disk, deleted>> 
     ELSE delete_child_targets(children, last_mtime)
  /\ pc' = "sig"
  /\ c' = NoFile /\ new_file' = NoFile /\ frame' = NoFrame
  /\ result' = "ok" /\ child_failed' = FALSE /\ register' = 0
  /\ UNCHANGED <<fileVars, line, good_stdin, chainVars, good_stdin_used, dead_children, blocked,
                 dieVars, proc, sigchld, log>>

\* Reap every child, then die of the same signal.
SignalWaits ==
  /\ pc = "sig"
  /\ IF job_slots_used > 0
     THEN CallReap(TRUE, sig = "OTHER", "sig") /\ UNCHANGED outcome
     ELSE pc' = "exited" /\ outcome' = "signal" /\ UNCHANGED frame
  /\ unchangedButPc
  /\ UNCHANGED <<c, new_file, dying, die_err>>

-----------------------------------------------------------------------------
(* The system: the children, and the delivery of SIGCHLD.                  *)

unchangedByChild == UNCHANGED <<fileVars, childVars, chainVars, good_stdin_used, pc, c, new_file,
                               frame, locals, blocked, sigVars, dieVars,
                               log>>

ChildExits(f, r) ==
  /\ proc[f] = "running"
  /\ proc' = [proc EXCEPT ![f] = r]
  /\ sigchld' = TRUE
  /\ unchangedByChild /\ UNCHANGED <<disk, dead_children>>

\* A child changes its target.  Assumed of commands, not found in the code: one that
\* got the user's signal (SIGINT, or SIGTERM passed on) writes no more.
ChildWrites(f) ==
  /\ proc[f] = "running" /\ disk[f] # "changed"
  /\ f \in Writers /\ sig \notin {"INT", "TERM"}
  /\ disk' = [disk EXCEPT ![f] = "changed"]
  /\ unchangedByChild /\ UNCHANGED <<proc, sigchld, dead_children>>

\* Signals do not queue: several deaths may be told by one SIGCHLD.
child_handler ==
  /\ pc # "exited" /\ sigchld
  /\ sigchld' = FALSE
  /\ dead_children' = dead_children + 1
  /\ unchangedByChild /\ UNCHANGED <<proc, disk>>

-----------------------------------------------------------------------------
Starting == StartWaitingJobs \/ PopWaitingJob \/ WaitForSlot \/ Defer \/ StartJob
            \/ NullCommand \/ PutOnChain \/ WaitIfSerial
Reaping == \/ ReapNext \/ LeaveReap \/ StoreDeadChildren \/ (\E f \in Files : WaitReturns(f))
           \/ WaitFindsNone \/ WaitFails \/ WaitInterrupted
           \/ CommandFailed \/ AllCommandsDone \/ GiveUpRest \/ RunNextCommand
           \/ UnblockAfterRestart \/ FinishChild \/ TakeOffChain \/ FreeSlot
           \/ FailureKills \/ LoopAgain
Make == (\E f \in Files : new_job(f)) \/ WaitForGoals \/ Finish \/ Starting \/ Reaping
        \/ DieWaits \/ SignalWaits
System == \/ \E f \in Files : ChildWrites(f) \/ \E r \in ChildResults : ChildExits(f, r)
          \/ child_handler
          \/ \E s \in Signals : fatal_error_signal(s)
Exited == pc = "exited" /\ UNCHANGED vars

Next == Make \/ System \/ Exited
\* make's thread runs when it can, and every command ends some day.  Nothing is
\* assumed about when, or whether, SIGCHLD is delivered.
Fairness == /\ WF_vars(Make)
            /\ \A f \in Files : WF_vars(\E r \in ChildResults : ChildExits(f, r))
Spec == Init /\ [][Next]_vars
FairSpec == Spec /\ Fairness

-----------------------------------------------------------------------------
(* Properties.                                                             *)

Local == Files \cup {NoFile}
ReapPlaces == {"reap", "reap_store", "reap_wait", "reap_status", "reap_unblock", "reap_finish",
               "reap_unlink", "reap_slot", "reap_die"}

\* What a line has come to.
LogEntries == Nat \X Results

\* Every variable holds a value its C type and the code allow.
FileTypes ==
  /\ command_state \in [Files -> States]
  /\ update_status \in [Files -> {-1, 0, 2}]
  /\ last_mtime \in [Files -> {"cached", "zero"}]
  /\ line \in [Files -> Nat]
  /\ proc \in [Files -> Results \cup {"none", "running"}]
  /\ disk \in [Files -> {"old", "changed", "gone"}]
  /\ log \in [Files -> Seq(LogEntries)]
ChainTypes ==
  /\ good_stdin \subseteq Files /\ deleted \subseteq Files /\ children \subseteq Files
  /\ waiting_jobs \in Seq(Files)
  /\ job_slots_used \in Nat /\ dead_children \in Nat /\ register \in Nat
ControlTypes ==
  /\ pc \in Places /\ c \in Local /\ new_file \in Local
  /\ frame \in Frames
  /\ result \in Results
  /\ sig \in FatalSignals \cup {"none"}
  /\ outcome \in {"none", "success", "failure", "signal", "crash"}
FlagTypes ==
  /\ child_failed \in BOOLEAN /\ good_stdin_used \in BOOLEAN /\ blocked \in BOOLEAN
  /\ handling_fatal_signal \in BOOLEAN /\ sigchld \in BOOLEAN
  /\ dying \in BOOLEAN /\ die_err \in BOOLEAN
TypeOK == FileTypes /\ ChainTypes /\ ControlTypes /\ FlagTypes

\* Whenever a fatal signal can arrive, the slots in use are the children on the
\* chain (the comment above block_sigs in reap_children): fatal_error_signal and
\* die count on it to know when every child has been reaped.
SlotsMatchChain == ~blocked => job_slots_used = Cardinality(children)

\* Every process there is, is on the chain whenever a fatal signal can arrive, so
\* that the handler cleans up after it and no exit leaves it unwaited for.
NoOrphan == ~blocked => \A f \in Files : proc[f] # "none" => f \in children

\* No two commands that have not been reaped both have the good standard input.
StdinExclusive ==
  \A f, g \in good_stdin : proc[f] # "none" /\ proc[g] # "none" => f = g

\* The good standard input counts as used only while a child on the chain has
\* it; otherwise the next command started would get it for nothing (looked at
\* where no child is half way through being reaped).
StdinReleased == pc = "idle" /\ good_stdin_used => \E f \in good_stdin : proc[f] # "none"

\* No more commands run at once than there are job slots.
SlotLimit == job_slots # 0 => Cardinality({f \in Files : proc[f] # "none"}) <= job_slots

\* wait is never called without a child to wait for, which would be fatal.
NeverWaitsForNothing == pc = "reap_wait" => \E f \in Files : proc[f] # "none"

\* When make exits, by itself or by a signal, no child is running any more.
ExitWaits == pc = "exited" /\ outcome # "crash" => \A f \in Files : proc[f] = "none"

\* Exit status 0 means that every target asked for was remade without error; a
\* target waiting for the load to fall is not forgotten.
ExitStatus ==
  pc = "exited" /\ outcome = "success" =>
    \A f \in Files : command_state[f] = "not_started" \/ 
                      (command_state[f] = "finished" /\ update_status[f] = 0)

\* Killed by the user, make leaves no target whose commands were under way half
\* made, unless it is precious.
InterruptedDeleted ==
  pc = "exited" /\ outcome = "signal" /\ sig # "OTHER" =>
    \A f \in Files \ Precious : command_state[f] = "running" => disk[f] # "changed"

\* A target whose command was killed, or failed under .DELETE_ON_ERROR, does not
\* stay on disk changed, unless it is precious.
FailedDeleted ==
  \A f \in Files \ Precious :
    /\ command_state[f] = "finished" /\ update_status[f] = 2
    /\ delete_on_error \/ (log[f] # <<>> /\ log[f][Len(log[f])][2] = "signal")
    => disk[f] # "changed"

\* A target that nothing changed since make looked at it is never deleted
\* (delete_target's comment).
UnchangedKept == [][\A f \in Files : disk[f] = "old" => disk'[f] # "gone"]_vars

\* Never start new commands while we are dying of a fatal signal.
NoStartWhileDying ==
  [][handling_fatal_signal =>
       \A f \in Files : proc[f] # "running" => proc'[f] # "running"]_vars

\* make exits, however many SIGCHLDs are merged, late, or lost between the two
\* halves of --dead_children.
Termination == <>(pc = "exited")

\* A job put aside because of the load is started, unless make is on its way out.
WaitingJobsStart ==
  \A f \in Files :
    (\E i \in DOMAIN waiting_jobs : waiting_jobs[i] = f) ~>
      (proc[f] = "running" \/ command_state[f] = "finished" \/ dying \/ handling_fatal_signal)

\* job.c keeps its promise to remake.c.
Service == INSTANCE JobService WITH
  jstate <- command_state,
  jstatus <- [f \in Files |-> IF command_state[f] = "finished" THEN update_status[f] ELSE -1],
  jlog <- log, over <- (pc = "exited"), MayGiveUp <- ForkMayFail
ImplementsService == Service!Spec

-----------------------------------------------------------------------------
(* The inductive invariant.                                                *)

\* Where make's thread is inside reap_children, called with a given return.
InReap(returns) == pc \in ReapPlaces /\ frame.return \in returns

\* new_job is still before the start of its own file.
BeforeOwnStart ==
  /\ new_file # NoFile
  /\ pc \in {"sw", "sw_pop", "slot"} \/ InReap({"sw_pop", "slot"})
     \/ (pc \in {"start", "chain"} /\ c # new_file)

\* The job being started is on neither chain yet.
StartingInv ==
  /\ pc \in {"start", "chain"} => /\ c \in Files \ children
                                 /\ \A i \in DOMAIN waiting_jobs : waiting_jobs[i] # c
  /\ pc = "chain" => proc[c] # "none"
  /\ pc = "start" => proc[c] = "none"
  /\ pc = "sw_pop" \/ InReap({"sw_pop"}) => waiting_jobs # <<>>
  /\ pc \in {"slot", "serial"} \/ InReap({"slot", "serial"}) => new_file \in Files

\* The child being reaped is still on the chain, and its process is gone.
ReapingInv ==
  /\ pc \in {"reap_status", "reap_finish", "reap_unlink"} => c \in children /\ proc[c] = "none"
  /\ pc = "reap_unblock" => c \in children
  /\ pc \in {"reap_store", "reap_wait"} => children # {}

\* Fatal signals are blocked exactly while the chain and the slots, or the chain
\* and the processes, disagree.
SlotsInv == job_slots_used = Cardinality(children) + (IF pc = "reap_slot" THEN 1 ELSE 0)
BlockedInv == blocked <=> pc \in {"chain", "reap_unblock", "reap_slot"}
OrphanInv == \A f \in Files : proc[f] # "none" => f \in children \/ (pc = "chain" /\ f = c)

\* A job is on one chain, once, and only from the moment new_job starts it.
ChainsInv ==
  /\ \A f \in children : command_state[f] # "not_started"
  /\ \A i \in DOMAIN waiting_jobs : /\ command_state[waiting_jobs[i]] # "not_started"
                                   /\ waiting_jobs[i] \notin children
  /\ \A i, j \in DOMAIN waiting_jobs : waiting_jobs[i] = waiting_jobs[j] => i = j
  /\ BeforeOwnStart => command_state[new_file] = "not_started"
  /\ pc = "start" /\ c # new_file => command_state[c] # "not_started"
  /\ pc = "chain" => command_state[c] # "not_started"

\* The good standard input has one holder at most, until it is given back.
HoldsStdin(f) == f \in good_stdin /\ (proc[f] # "none" \/ (pc = "reap_status" /\ f = c))
StdinInv == /\ \A f \in Files : HoldsStdin(f) => good_stdin_used
            /\ \A f, g \in Files : HoldsStdin(f) /\ HoldsStdin(g) => f = g

\* From the moment the handler runs, make is in its loop, or in that of die.
DyingInv == handling_fatal_signal =>
              pc \in {"sig", "die", "exited"} \/ InReap({"sig", "die"})

\* The conjunction the safety theorems rest on (MakeJobs_proofs).
IInv == /\ TypeOK /\ StartingInv /\ ReapingInv /\ SlotsInv /\ BlockedInv /\ OrphanInv
        /\ ChainsInv /\ StdinInv /\ DyingInv

-----------------------------------------------------------------------------
(* What becomes of a target: the second inductive invariant, relative to   *)
(* IInv.  Parts that hold under some flags only say so.                     *)

\* f has been given to new_job, if at all, and no line of it has been started.
NotBegun(f) == \/ command_state[f] = "not_started"
               \/ \E i \in DOMAIN waiting_jobs : waiting_jobs[i] = f
               \/ pc = "start" /\ f = c

\* A target gets its status when its last command has been looked at, and then no
\* process is left of it and none is started.
EndedInv ==
  \A f \in Files : update_status[f] # -1 =>
    proc[f] = "none" /\ ~NotBegun(f) /\ (f = c => pc \notin {"chain", "reap_status"})

\* Only a finished target has its modification time forgotten, and only one with a
\* status is finished.
StatusInv ==
  /\ \A f \in Files : command_state[f] = "finished" => update_status[f] # -1
  /\ \A f \in Files : last_mtime[f] = "zero" => command_state[f] = "finished"
  /\ pc = "reap_finish" => update_status[c] # -1
  /\ sig # "none" <=> handling_fatal_signal

\* Until a fatal signal comes, a child on the chain has a process and its target
\* is running, unless it is just being taken off.
LiveInv ==
  ~handling_fatal_signal =>
    /\ \A f \in children :
         /\ proc[f] = "none" => f = c /\ pc \in {"reap_status", "reap_finish", "reap_unlink"}
         /\ command_state[f] # "running" => f = c /\ pc \in {"reap_finish", "reap_unlink"}
    /\ pc \in {"reap_unlink"} => command_state[c] = "finished"

\* The line a child is on is the first of those left that runs anything, and the
\* lines before it have passed.
OnLine(f) == /\ line[f] \in Service!LinesLeft(f)
             /\ \A j \in Service!LinesLeft(f) : line[f] <= j
LineInv == \A f \in Files : proc[f] # "none" =>
             command_state[f] = "running" /\ Service!AllPassed(f) /\ OnLine(f)

\* No line has been run before the first.
BegunInv == \A f \in Files : NotBegun(f) => log[f] = <<>> /\ line[f] = 0

\* The line just reaped is the last one in the history; all before it have passed.
ReapedInv ==
  pc = "reap_status" =>
    /\ command_state[c] = "running"
    /\ log[c] # <<>> /\ log[c][Len(log[c])] = <<line[c], result>>
    /\ \A i \in 1..(Len(log[c]) - 1) : Service!Passes(c, log[c][i])
    /\ child_failed = (result # "ok")

\* The status about to be told is that of the lines run.
DoneInv ==
  pc = "reap_finish" /\ command_state[c] = "running" /\ ~handling_fatal_signal =>
    IF update_status[c] = 0 THEN Service!AllPassed(c) /\ Service!LinesLeft(c) = {}
                            ELSE ~Service!AllPassed(c)

\* What commands may have left half made is on the chain until it is deleted.
LastKilled(f) == log[f] # <<>> /\ log[f][Len(log[f])][2] = "signal"
DiskInv ==
  \A f \in Files \ Precious :
    /\ f \in deleted => /\ disk[f] # "changed"
                        /\ proc[f] = "running" => sig \in {"INT", "TERM"}
    /\ disk[f] = "changed" /\ command_state[f] # "finished" =>
         f \in children \/ (pc = "chain" /\ c = f) \/ sig = "OTHER"
    /\ sig \in {"INT", "TERM"} /\ command_state[f] # "finished" => disk[f] # "changed"
    /\ update_status[f] = 2 /\ (delete_on_error \/ LastKilled(f)) => disk[f] # "changed"

\* Without -l no job waits, and the slots are never passed over.
SlotBoundInv ==
  ~LoadLimit => /\ waiting_jobs = <<>>
                /\ job_slots # 0 =>
                     /\ job_slots_used <= job_slots
                     /\ pc \in {"start", "chain", "reap_die"} => job_slots_used < job_slots

\* While vfork does not fail, the good standard input is used by somebody.
StdinHeldInv ==
  ~ForkMayFail /\ ~handling_fatal_signal /\ good_stdin_used => \E f \in Files : HoldsStdin(f)

\* A run that succeeds has nothing left to do.
SuccessInv ==
  outcome = "success" =>
    /\ pc \in {"die", "sig", "exited"} /\ children = {}
    /\ \A f \in Files : command_state[f] = "not_started" \/
                        (command_state[f] = "finished" /\ update_status[f] = 0)

\* make is in the loop of the handler, and ends by a signal, only when one came.
SignalInv == pc = "sig" \/ InReap({"sig"}) \/ outcome = "signal" => handling_fatal_signal

\* Only a failure without -k can end make in its own loop, by a second call of die;
\* the first round of the loop is protected, so that takes a fourth job.
FewSlots == job_slots \in 1..3 /\ ~LoadLimit
WaitsInDie == keep_going_flag \/ FewSlots
DieInv ==
  /\ dying /\ ~handling_fatal_signal =>
       /\ pc \in {"die", "exited"} \/ InReap({"die"})
       /\ FewSlots /\ pc = "die" => job_slots_used <= IF die_err THEN 2 ELSE 1
       /\ FewSlots /\ pc \in ReapPlaces =>
            job_slots_used <= (IF frame.err /\ frame.block THEN 2 ELSE 1)
                                - (IF pc = "reap_die" THEN 1 ELSE 0)
  /\ pc = "exited" /\ outcome # "crash" /\ WaitsInDie => \A f \in Files : proc[f] = "none"

LifeInv == /\ IInv /\ StatusInv /\ EndedInv /\ LiveInv
           /\ BegunInv /\ LineInv /\ ReapedInv /\ DoneInv
           /\ DiskInv /\ SlotBoundInv /\ StdinHeldInv
           /\ SuccessInv /\ SignalInv /\ DieInv
=============================================================================
