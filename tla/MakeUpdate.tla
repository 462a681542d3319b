----------------------------- MODULE MakeUpdate -----------------------------
(***************************************************************************)
(* The update engine of GNU make 3.76.1 (remake.c): the rounds of          *)
(* update_goal_chain over the goals, the walk of update_file, check_dep    *)
(* and update_file_1 over the dependency graph, and what becomes of a      *)
(* target's commands while the walk goes on.                               *)
(*                                                                         *)
(* The C stack is explicit: stack holds a frame for each update_file and   *)
(* each check_dep under way, ret the result of the call that has just      *)
(* returned.  job.c is abstracted to what MakeJobs shows it to do: a       *)
(* target handed to new_job runs its command lines one after the other     *)
(* and is finished by reap_children, which is called inside new_job and    *)
(* at the head of each round, nowhere else.                                *)
(*                                                                         *)
(* Bounds: the graph, and the modification times at the start.  Implicit   *)
(* rules are taken as already found.  Double-colon rules, VPATH, .PHONY,   *)
(* also_make, archives, -t, -n, +, .DEFAULT and the remaking of makefiles  *)
(* are left out; d->changed is, too, which without them changes nothing    *)
(* but $? and the way a target without commands is found finished.         *)
(***************************************************************************)
EXTENDS Integers, Sequences, FiniteSets, SequencesExt

CONSTANTS
  Files,
  Goals,            \* the goals, in order
  Deps,             \* each file's dependencies, in order; there may be cycles
  WithCmds,         \* files whose `cmds' is not null
  Lines,            \* each file's command lines that run something
  is_target,        \* files that a rule names as target
  Intermediate,     \* files whose `intermediate' is set
  Quiet,            \* targets whose commands may leave the file as it is
  MayFail,          \* targets whose commands may fail
  ForkMayFail,      \* vfork may fail
  StartTimes,       \* modification times of the files there are at the start
  Switches          \* the combinations of -j (0 is no limit), -k and -q

\* A file that is not there has time -1.  In last_mtime 0 is a time not known.
NoTime == -1
Unknown == 0

ASSUME GraphAssumption == /\ IsFiniteSet(Files)
                          /\ Goals \in Seq(Files)
                          /\ Deps \in [Files -> Seq(Files)]
                          /\ WithCmds \subseteq is_target \cup Intermediate
                          /\ is_target \cup Intermediate \cup Quiet \cup MayFail \subseteq Files
                          /\ Lines \in [Files -> Nat]
ASSUME StartAssumption == StartTimes \subseteq Nat \ {0} /\ IsFiniteSet(StartTimes)
ASSUME SwitchAssumption ==
  /\ Switches \subseteq [job_slots : Nat, keep_going_flag : BOOLEAN, question_flag : BOOLEAN]
  /\ ForkMayFail \in BOOLEAN

VARIABLES
  \* struct file; updated and updating are the sets of files whose flag is set
  command_state, update_status, updated, updating, last_mtime, deps,
  \* job.c: the targets with a child on the chain, the lines it has still to finish
  children, lines_left,
  \* remake.c: calls under way, the last result, the goals left, the one under
  \* consideration, update_goal_chain's status
  stack, ret, goals, g, status,
  \* where make is, and whether this round's reap_children has reaped
  pc, reaped,
  \* the files' modification times, and the time
  disk, now,
  \* what decode_switches has set
  job_slots, keep_going_flag, question_flag

fileVars == <<command_state, update_status, updated, updating, last_mtime, deps>>
goalVars == <<goals, g, status, reaped>>
jobVars == <<children, lines_left, disk, now>>
switchVars == <<job_slots, keep_going_flag, question_flag>>
vars == <<fileVars, jobVars, stack, ret, goalVars, pc, switchVars>>

States == {"not_started", "deps_running", "running", "finished"}
Statuses == 0..3   \* what the inclusive or of 0, 1 and 2 may give
Times == Nat \cup {NoTime}

Frames == [fn : {"update_file", "check_dep"}, file : Files,
           at : {"entry", "file", "deps", "checked", "inter", "inter_done", "decide",
                 "remake", "job"},
           i : Nat \ {0}, this_mtime : Times, must_make : BOOLEAN, dep_status : Statuses,
           running : BOOLEAN]
NewFrame(fn, f, this_mtime) ==
  [fn |-> fn, file |-> f, at |-> "entry", i |-> 1, this_mtime |-> this_mtime,
   must_make |-> FALSE, dep_status |-> 0, running |-> FALSE]
NoResult == [status |-> 0, must_make |-> FALSE]

Init ==
  /\ command_state = [f \in Files |-> "not_started"]
  /\ update_status = [f \in Files |-> -1]
  /\ updated = {} /\ updating = {}
  /\ last_mtime = [f \in Files |-> Unknown]
  /\ deps = Deps
  /\ children = {} /\ lines_left = Lines
  /\ stack = <<>> /\ ret = NoResult
  /\ goals = Goals /\ g = 1 /\ status = 0
  /\ pc = "round" /\ reaped = FALSE
  /\ disk \in [Files -> StartTimes \cup {NoTime}]
  /\ now = Max(StartTimes \cup {1})
  /\ \E sw \in Switches : /\ job_slots = sw.job_slots
                          /\ keep_going_flag = sw.keep_going_flag
                          /\ question_flag = sw.question_flag

-----------------------------------------------------------------------------
(* Operations of struct file.                                              *)

\* file_mtime: the remembered time, or else the disk's, which is remembered.
file_mtime(f) == IF last_mtime[f] # Unknown THEN last_mtime[f] ELSE disk[f]
Remembered(S) == [f \in Files |-> IF f \in S THEN file_mtime(f) ELSE last_mtime[f]]

\* Mutants.  An operator whose comment starts with Wrong is not part of the model:
\* it is the definition after it with a bug, which a mutant run puts in its place
\* to see the property fail.

\* Wrong: the time is kept.
notice_finished_keeping_time(f, st) ==
  /\ command_state' = [command_state EXCEPT ![f] = "finished"]
  /\ update_status' = [update_status EXCEPT ![f] = IF st = -1 THEN 0 ELSE st]
  /\ updated' = updated \cup {f}
  /\ UNCHANGED last_mtime

\* notice_finished_file: the time of a target whose commands ran is forgotten.
\* A file for which nothing was done (update_status -1) has succeeded.
notice_finished_file(f, st) ==
  /\ command_state' = [command_state EXCEPT ![f] = "finished"]
  /\ update_status' = [update_status EXCEPT ![f] = IF st = -1 THEN 0 ELSE st]
  /\ updated' = updated \cup {f}
  /\ last_mtime' = IF command_state[f] = "running"
                   THEN [last_mtime EXCEPT ![f] = Unknown] ELSE last_mtime

\* Wrong: only its own.
OwnCommandsRun(f) == command_state[f] = "running"

\* The commands of f, or of its dependencies, are still being run.
BeingMade(f) == command_state[f] \in {"running", "deps_running"}

\* dep_status |= st.
Or(s, t) == IF s = t \/ t = 0 THEN s ELSE IF s = 0 THEN t ELSE 3

-----------------------------------------------------------------------------
(* The stack.                                                              *)

Top == Head(stack)
Walking(fn, place) == pc = "walk" /\ Top.fn = fn /\ Top.at = place

Continue(frame) == stack' = <<frame>> \o Tail(stack) /\ UNCHANGED <<ret, pc>>
Call(frame, callee) == stack' = <<callee, frame>> \o Tail(stack) /\ UNCHANGED <<ret, pc>>
Return(st, must_make) ==
  /\ stack' = Tail(stack)
  /\ ret' = [status |-> st, must_make |-> must_make]
  /\ pc' = IF Len(stack) = 1 THEN "considered" ELSE "walk"

\* The dependency a loop is at, when it is not through.
File == Top.file
Dep == deps[File][Top.i]
MoreDeps == Top.i <= Len(deps[File])

\* Wrong: whether or not -k was given.
GivesUpAnyway(st) == st # 0

\* An error ends a loop over dependencies unless -k was given.
GivesUp(st) == st # 0 /\ ~keep_going_flag

-----------------------------------------------------------------------------
(* update_file, which for a file with one entry is update_file_1.          *)

\* What update_file returns: not the status of a file that is still being made, or
\* that check_dep has marked so since.
UpdateResult(f) ==
  IF f \in updated /\ (command_state[f] = "finished" \/ ~keep_going_flag)
  THEN update_status[f] ELSE 0

\* Wrong: running commands are not asked for.
ConsideredOnly(f) == f \in updated

\* The file has been considered already, or its commands are running.
Considered(f) == f \in updated \/ command_state[f] = "running"
AlreadyUpdated ==
  /\ Walking("update_file", "entry") /\ Considered(File)
  /\ Return(UpdateResult(File), FALSE)
  /\ UNCHANGED <<fileVars, jobVars, goalVars, switchVars>>

StartUpdate ==
  /\ Walking("update_file", "entry") /\ ~Considered(File)
  /\ updating' = updating \cup {File}
  /\ last_mtime' = Remembered({File})
  /\ Continue([Top EXCEPT !.at = "deps", !.this_mtime = file_mtime(File),
                          !.must_make = (file_mtime(File) = NoTime)])
  /\ UNCHANGED <<command_state, update_status, updated, deps, jobVars, goalVars,
                 switchVars>>

\* Both update_file_1 and, for an intermediate file, check_dep go through the
\* dependencies: one that is being updated further down the stack is dropped,
DropCircular ==
  /\ pc = "walk" /\ Top.at = "deps" /\ MoreDeps /\ Dep \in updating
  /\ deps' = [deps EXCEPT ![File] = RemoveAt(@, Top.i)]
  /\ last_mtime' = IF Top.fn = "update_file" THEN Remembered({Dep}) ELSE last_mtime
  /\ UNCHANGED <<command_state, update_status, updated, updating, jobVars, stack, ret,
                 goalVars, pc, switchVars>>

\* any other is checked against the time of the file being updated.
CheckDep ==
  /\ pc = "walk" /\ Top.at = "deps" /\ MoreDeps /\ Dep \notin updating
  /\ updating' = updating \cup {Dep}
  /\ last_mtime' = IF Top.fn = "update_file" THEN Remembered({Dep}) ELSE last_mtime
  /\ Call([Top EXCEPT !.at = "checked"], NewFrame("check_dep", Dep, Top.this_mtime))
  /\ UNCHANGED <<command_state, update_status, updated, deps, jobVars, goalVars,
                 switchVars>>

\* A loop that goes on asks for the dependency's time again (to set d->changed),
\* unless something is being made.
AskAgain(st) == last_mtime' = IF Top.running \/ BeingMade(Dep) \/ GivesUp(st)
                              THEN last_mtime ELSE Remembered({Dep})

\* check_dep has returned.  An intermediate file some of whose dependencies are
\* being made is marked.
DepChecked ==
  /\ pc = "walk" /\ Top.at = "checked"
  /\ LET st == Or(Top.dep_status, ret.status)
     IN  /\ Continue([Top EXCEPT !.at = "deps", !.dep_status = st,
                                 !.must_make = @ \/ ret.must_make,
                                 !.running = @ \/ (Top.fn = "update_file" /\ BeingMade(Dep)),
                                 !.i = IF GivesUp(st) THEN Len(deps[File]) + 1 ELSE @ + 1])
         /\ IF Top.fn = "update_file" THEN AskAgain(st) ELSE UNCHANGED last_mtime
         /\ command_state' = IF Top.fn = "check_dep" /\ BeingMade(Dep) /\ ~GivesUp(st)
                             THEN [command_state EXCEPT ![File] = "deps_running"]
                             ELSE command_state
  /\ UNCHANGED <<update_status, updated, updating, deps, jobVars, goalVars, switchVars>>

\* The first loop of update_file_1 is over.
DepsDone ==
  /\ Walking("update_file", "deps") /\ ~MoreDeps
  /\ Continue([Top EXCEPT !.at = IF Top.must_make THEN "inter" ELSE "decide", !.i = 1])
  /\ UNCHANGED <<fileVars, jobVars, goalVars, switchVars>>

\* The second loop: a file that must be made needs its intermediate files.
RestIntermediate == {j \in Top.i..Len(deps[File]) : deps[File][j] \in Intermediate}
UpdateIntermediate ==
  /\ Walking("update_file", "inter") /\ RestIntermediate # {}
  /\ LET next == Min(RestIntermediate)
     IN  /\ last_mtime' = Remembered({deps[File][next]})
         /\ Call([Top EXCEPT !.at = "inter_done", !.i = next],
                 NewFrame("update_file", deps[File][next], NoTime))
  /\ UNCHANGED <<command_state, update_status, updated, updating, deps, jobVars, goalVars,
                 switchVars>>

IntermediateUpdated ==
  /\ Walking("update_file", "inter_done")
  /\ LET st == Or(Top.dep_status, ret.status)
     IN  /\ Continue([Top EXCEPT !.at = IF GivesUp(st) THEN "decide" ELSE "inter",
                                 !.dep_status = st, !.i = @ + 1,
                                 !.running = @ \/ BeingMade(Dep)])
         /\ AskAgain(st)
  /\ UNCHANGED <<command_state, update_status, updated, updating, deps, jobVars, goalVars,
                 switchVars>>

IntermediatesDone ==
  /\ Walking("update_file", "inter") /\ RestIntermediate = {}
  /\ Continue([Top EXCEPT !.at = "decide"])
  /\ UNCHANGED <<fileVars, jobVars, goalVars, switchVars>>

\* The loops are over.  While a dependency is being made the file has to wait.
WaitForDeps ==
  /\ Walking("update_file", "decide") /\ Top.running
  /\ updating' = updating \ {File}
  /\ command_state' = [command_state EXCEPT ![File] = "deps_running"]
  /\ Return(0, FALSE)
  /\ UNCHANGED <<update_status, updated, last_mtime, deps, jobVars, goalVars, switchVars>>

GiveUpOnTarget ==
  /\ Walking("update_file", "decide") /\ ~Top.running /\ Top.dep_status # 0
  /\ updating' = updating \ {File}
  /\ notice_finished_file(File, Top.dep_status)
  /\ Return(Top.dep_status, FALSE)
  /\ UNCHANGED <<deps, jobVars, goalVars, switchVars>>

\* All dependencies are made; must the target be?  (A target without commands that
\* is there and whose dependencies have not changed need not, but that comes to the
\* same as PretendRemade.)
DepsMade ==
  /\ Walking("update_file", "decide") /\ ~Top.running /\ Top.dep_status = 0
  /\ updating' = updating \ {File}
  /\ command_state' = IF command_state[File] = "deps_running"
                      THEN [command_state EXCEPT ![File] = "not_started"] ELSE command_state
  /\ last_mtime' = Remembered(Range(deps[File]))
  /\ Continue([Top EXCEPT !.at = "remake",
                          !.must_make = @ \/ \E d \in Range(deps[File]) \ Intermediate :
                                               file_mtime(d) = NoTime])
  /\ UNCHANGED <<update_status, updated, deps, jobVars, goalVars, switchVars>>

\* remake_file is called if the target must be made.
Remaking == Walking("update_file", "remake") /\ Top.must_make

\* Wrong: the file is not noted as finished.
NoNeedForgotten ==
  /\ Walking("update_file", "remake") /\ ~Top.must_make
  /\ Return(0, FALSE)
  /\ UNCHANGED <<fileVars, jobVars, goalVars, switchVars>>

NoNeedToRemake ==
  /\ Walking("update_file", "remake") /\ ~Top.must_make
  /\ notice_finished_file(File, update_status[File])
  /\ Return(0, FALSE)
  /\ UNCHANGED <<updating, deps, jobVars, goalVars, switchVars>>

\* remake_file, for a target that has no commands or none that run anything.
PretendRemade ==
  /\ Remaking
  /\ IF File \in WithCmds THEN Lines[File] = 0 ELSE File \in is_target
  /\ notice_finished_file(File, 0)
  /\ Return(0, FALSE)
  /\ UNCHANGED <<updating, deps, jobVars, goalVars, switchVars>>

\* remake_file, for a file without a rule: fatal, unless -k was given.
NoRule ==
  /\ Remaking /\ File \notin WithCmds \cup is_target
  /\ IF keep_going_flag
     THEN notice_finished_file(File, 2) /\ Return(2, FALSE) /\ UNCHANGED status
     ELSE /\ status' = 2 /\ pc' = "died"
          /\ UNCHANGED <<command_state, update_status, updated, last_mtime, stack, ret>>
  /\ UNCHANGED <<updating, deps, jobVars, goals, g, reaped, switchVars>>

\* remake_file, execute_file_commands, new_job.  Under -q the target counts as
\* one that could not be made.
MustRun == Remaking /\ File \in WithCmds /\ Lines[File] > 0
RemakeFile ==
  /\ MustRun
  /\ \/ /\ ~question_flag
        /\ command_state' = [command_state EXCEPT ![File] = "running"]
        /\ children' = children \cup {File}
        /\ UNCHANGED <<update_status, updated, last_mtime>>
     \/ question_flag /\ notice_finished_file(File, 1) /\ UNCHANGED children
     \/ ~question_flag /\ ForkMayFail /\ notice_finished_file(File, 2) /\ UNCHANGED children
  /\ stack' = <<[Top EXCEPT !.at = "job"]>> \o Tail(stack)
  /\ pc' = "new_job"
  /\ UNCHANGED <<updating, deps, lines_left, disk, now, ret, goalVars, switchVars>>

\* new_job returns: with one slot, when the commands are finished.
NewJobReturns ==
  /\ pc = "new_job"
  /\ job_slots # 0 => Cardinality(children) <= job_slots
  /\ job_slots = 1 => command_state[File] = "finished"
  /\ Return(UpdateResult(File), FALSE)
  /\ UNCHANGED <<fileVars, jobVars, goalVars, switchVars>>

-----------------------------------------------------------------------------
(* check_dep.                                                              *)

\* The time of the dependency makes the target out of date.
Newer(t) == t > Top.this_mtime

CheckFile ==
  /\ Walking("check_dep", "entry") /\ File \notin Intermediate
  /\ Call([Top EXCEPT !.at = "file"], NewFrame("update_file", File, NoTime))
  /\ UNCHANGED <<fileVars, jobVars, goalVars, switchVars>>

\* Wrong: the mark stays.
FileCheckedMarked ==
  /\ Walking("check_dep", "file")
  /\ last_mtime' = Remembered({File})
  /\ Return(ret.status, file_mtime(File) = NoTime \/ Newer(file_mtime(File)))
  /\ UNCHANGED <<command_state, update_status, updated, updating, deps, jobVars,
                 goalVars, switchVars>>

FileChecked ==
  /\ Walking("check_dep", "file")
  /\ updating' = updating \ {File}
  /\ last_mtime' = Remembered({File})
  /\ Return(ret.status, file_mtime(File) = NoTime \/ Newer(file_mtime(File)))
  /\ UNCHANGED <<command_state, update_status, updated, deps, jobVars, goalVars,
                 switchVars>>

\* An intermediate file that is there and newer need not be looked into.
IntermediateIsNewer ==
  /\ Walking("check_dep", "entry") /\ File \in Intermediate /\ Newer(file_mtime(File))
  /\ updating' = updating \ {File}
  /\ last_mtime' = Remembered({File})
  /\ Return(0, TRUE)
  /\ UNCHANGED <<command_state, update_status, updated, deps, jobVars, goalVars,
                 switchVars>>

CheckIntermediate ==
  /\ Walking("check_dep", "entry") /\ File \in Intermediate /\ ~Newer(file_mtime(File))
  /\ last_mtime' = Remembered({File})
  /\ Continue([Top EXCEPT !.at = "deps"])
  /\ UNCHANGED <<command_state, update_status, updated, updating, deps, jobVars,
                 goalVars, switchVars>>

\* Wrong: what was found below is not handed up.
IntermediateCheckedOnly ==
  /\ Walking("check_dep", "deps") /\ ~MoreDeps
  /\ updating' = updating \ {File}
  /\ Return(Top.dep_status, FALSE)
  /\ UNCHANGED <<command_state, update_status, updated, last_mtime, deps, jobVars,
                 goalVars, switchVars>>

IntermediateChecked ==
  /\ Walking("check_dep", "deps") /\ ~MoreDeps
  /\ updating' = updating \ {File}
  /\ Return(Top.dep_status, Top.must_make)
  /\ UNCHANGED <<command_state, update_status, updated, last_mtime, deps, jobVars,
                 goalVars, switchVars>>

-----------------------------------------------------------------------------
(* Commands.                                                               *)

\* A command line ends and reap_children sees it.
Reaping(f) == /\ pc \in {"round", "new_job"} /\ f \in children
              /\ pc = "round" => goals # <<>>
              /\ reaped' = (pc = "round")

\* It was not the last: reap_children starts the next.
NextLine(f) ==
  /\ Reaping(f) /\ lines_left[f] > 1
  /\ lines_left' = [lines_left EXCEPT ![f] = @ - 1]
  /\ command_state' = [command_state EXCEPT ![f] = "running"]
  /\ UNCHANGED <<update_status, updated, updating, last_mtime, deps, children, stack, ret, goals,
                 g, status, pc, disk, now, switchVars>>

\* The commands may have written the file, in this second or the next.
WriteFile(f) == \/ \E t \in {now, now + 1} : disk' = [disk EXCEPT ![f] = t] /\ now' = t
                \/ f \in Quiet /\ UNCHANGED <<disk, now>>

JobSucceeds(f) ==
  /\ Reaping(f) /\ lines_left[f] = 1
  /\ WriteFile(f)
  /\ children' = children \ {f}
  /\ notice_finished_file(f, 0)
  /\ UNCHANGED <<updating, deps, lines_left, stack, ret, goals, g, status, pc, switchVars>>

\* A line fails, which kills make unless -k was given.
JobFails(f) ==
  /\ Reaping(f) /\ f \in MayFail
  /\ WriteFile(f)
  /\ children' = children \ {f}
  /\ notice_finished_file(f, 2)
  /\ IF keep_going_flag THEN UNCHANGED <<status, pc>> ELSE status' = 2 /\ pc' = "died"
  /\ UNCHANGED <<updating, deps, lines_left, stack, ret, goals, g, switchVars>>

\* The next line cannot be started, which does not kill make.
NextLineFails(f) ==
  /\ ForkMayFail /\ Reaping(f) /\ lines_left[f] > 1
  /\ WriteFile(f)
  /\ children' = children \ {f}
  /\ notice_finished_file(f, 2)
  /\ UNCHANGED <<updating, deps, lines_left, stack, ret, goals, g, status, pc, switchVars>>

-----------------------------------------------------------------------------
(* update_goal_chain.                                                      *)

\* The head of the loop: reap_children (1, 0) waits for a child if there is any.
StartRound ==
  /\ pc = "round" /\ goals # <<>>
  /\ reaped \/ children = {}
  /\ g' = 1 /\ reaped' = FALSE
  /\ pc' = "goal"
  /\ UNCHANGED <<fileVars, jobVars, stack, ret, goals, status, switchVars>>

ConsiderGoal ==
  /\ pc = "goal" /\ g <= Len(goals)
  /\ last_mtime' = Remembered({goals[g]})
  /\ stack' = <<NewFrame("update_file", goals[g], NoTime)>>
  /\ pc' = "walk"
  /\ UNCHANGED <<command_state, update_status, updated, updating, deps, jobVars, ret,
                 goalVars, switchVars>>

\* A goal is taken off the chain when it is finished.  As long as none has failed
\* the time of one that succeeded is asked for, and so remembered.
GoalFinished == goals[g] \in updated
TakeGoal(off, sts) ==
  /\ pc = "considered"
  /\ status' = sts
  /\ goals' = IF off THEN RemoveAt(goals, g) ELSE goals
  /\ g' = IF off THEN g ELSE g + 1
  /\ last_mtime' = IF GoalFinished /\ status < 1 /\ update_status[goals[g]] = 0
                   THEN Remembered({goals[g]}) ELSE last_mtime
  /\ ret' = NoResult
  /\ UNCHANGED <<command_state, update_status, updated, updating, deps, jobVars, stack,
                 reaped, switchVars>>

\* Wrong: the last goal decides.
GoalForgets ==
  /\ TakeGoal(GoalFinished, IF GoalFinished THEN update_status[goals[g]] ELSE status)
  /\ pc' = "goal"

\* The first failure sets the status and, without -k and -q, ends the round.
GoalConsidered ==
  LET failed == GoalFinished /\ status < 1 /\ update_status[goals[g]] # 0
      stop == failed /\ ~keep_going_flag /\ ~question_flag
  IN  /\ TakeGoal(GoalFinished, IF failed THEN update_status[goals[g]] ELSE status)
      /\ pc' = IF stop THEN "round" ELSE "goal"

EndRound ==
  /\ pc = "goal" /\ g > Len(goals)
  /\ pc' = "round"
  /\ UNCHANGED <<fileVars, jobVars, stack, ret, goalVars, switchVars>>

\* main exits with the status it knows how to tell, or aborts.
Finish ==
  /\ pc = "round" /\ goals = <<>>
  /\ pc' = IF status \in 0..2 THEN "exited" ELSE "aborted"
  /\ UNCHANGED <<fileVars, jobVars, stack, ret, goalVars, switchVars>>

Over == pc \in {"exited", "died", "aborted"}
Exited == Over /\ UNCHANGED vars

UpdateFile == \/ AlreadyUpdated \/ StartUpdate \/ DropCircular \/ CheckDep \/ DepChecked
              \/ DepsDone \/ UpdateIntermediate \/ IntermediateUpdated
              \/ IntermediatesDone \/ WaitForDeps \/ GiveUpOnTarget \/ DepsMade
              \/ NoNeedToRemake \/ PretendRemade
              \/ NoRule \/ RemakeFile \/ NewJobReturns
CheckDeps == CheckFile \/ FileChecked \/ IntermediateIsNewer \/ CheckIntermediate
             \/ IntermediateChecked
Rounds == StartRound \/ ConsiderGoal \/ GoalConsidered \/ EndRound \/ Finish
Commands == \E f \in Files : NextLine(f) \/ JobSucceeds(f) \/ JobFails(f) \/ NextLineFails(f)

Next == UpdateFile \/ CheckDeps \/ Rounds \/ Commands \/ Exited

Spec == Init /\ [][Next]_vars
\* make's thread runs, and every command ends some day.
FairSpec == Spec /\ WF_vars(Next)
-----------------------------------------------------------------------------
(* Properties.                                                             *)

\* Every variable holds a value its C type and the code allow: statuses joined with |=
\* stay statuses, and the walk has a frame wherever it is under way.
FileTypes ==
  /\ command_state \in [Files -> States]
  /\ update_status \in [Files -> -1..3]
  /\ updated \subseteq Files /\ updating \subseteq Files
  /\ last_mtime \in [Files -> Times]
  /\ deps \in [Files -> Seq(Files)]
  /\ children \subseteq Files /\ lines_left \in [Files -> Nat]
  /\ disk \in [Files -> Times] /\ now \in Nat
WalkTypes ==
  /\ stack \in Seq(Frames) /\ (pc \in {"walk", "new_job"} => stack # <<>>)
  /\ ret \in [status : Statuses, must_make : BOOLEAN]
  /\ pc \in {"round", "goal", "walk", "new_job", "considered", "exited", "died", "aborted"}
GoalTypes ==
  /\ goals \in Seq(Files) /\ g \in 1..(Len(goals) + 1)
  /\ status \in Statuses
  /\ reaped \in BOOLEAN
  /\ job_slots \in Nat /\ {keep_going_flag, question_flag} \subseteq BOOLEAN
TypeOK == FileTypes /\ WalkTypes /\ GoalTypes

\* The dependencies that decide whether f is out of date: its own, and those of
\* the intermediate files among them.
LookedAt(f) ==
  LET Closed == {S \in SUBSET Files : /\ Range(deps[f]) \subseteq S
                                     /\ \A d \in S \cap Intermediate : Range(deps[d]) \subseteq S}
  IN  {d \in Files : \A S \in Closed : d \in S}

OutOfDate(f) ==
  \/ disk[f] = NoTime
  \/ \E d \in LookedAt(f) : disk[d] > disk[f] \/ (disk[d] = NoTime /\ d \notin Intermediate)

\* Everything the goals depend on, intermediate files left out.
Below ==
  LET Closed == {S \in SUBSET Files : /\ Range(Goals) \subseteq S
                                     /\ \A f \in S : LookedAt(f) \ Intermediate \subseteq S}
  IN  {f \in Files : \A S \in Closed : f \in S}

\* f's commands are started.
Starts(f) == pc = "walk" /\ pc' = "new_job" /\ File = f /\ command_state'[f] = "running"

\* The walk is never in the middle of the same file twice, whatever cycles the
\* graph has: update_file_1 runs on a file only on behalf of a goal, of a
\* check_dep of the same file right below, or of the file it is intermediate for.
\* And a file marked as being updated outside of the walk would be taken for a
\* cycle in the next round, and its dependents would be made without it.
WalkMarked ==
  /\ \A k, l \in 1..Len(stack) :
       k < l /\ stack[k].file = stack[l].file =>
         l = k + 1 /\ stack[k].fn = "update_file" /\ stack[l].fn = "check_dep"
  /\ pc \in {"round", "goal"} => updating = {}

\* The commands of a target start only when all its dependencies are finished,
\* and with success; however many jobs there are and whatever has failed.
DepsFirst == [][\A f \in Files : Starts(f) =>
                  \A d \in Range(deps[f]) : d \in updated /\ update_status[d] = 0]_vars

\* A target with a child on the chain is still cs_running, as reap_children says where it
\* leaves it to notice_finished_file to find out that the commands have run; true if no
\* intermediate file is made by way of two others (NoLongChain).
StillRunning == \A f \in children : command_state[f] = "running"

\* The commands of a target are run once and only if it is missing or out of date: not
\* again when they have been run, and not again while they run, although check_dep may
\* mark a file whose commands are running as waiting for its dependencies.  (MakeJobs
\* relies on it.)
RunOnce ==
  [][\A f \in Files :
       /\ f \in updated => f \in updated' /\ UNCHANGED update_status[f] /\ ~Starts(f)
       /\ f \in children => ~Starts(f)
       /\ Starts(f) => OutOfDate(f)]_vars

\* f is there and no older than anything it depends on, itself or by way of
\* intermediate files.
Current(f) == disk[f] # NoTime /\ \A d \in LookedAt(f) \ Intermediate : disk[d] <= disk[f]
Settled(f) == f \in updated /\ update_status[f] = 0

\* A target is up to date from the moment it has succeeded, whatever is made besides.
SettledCurrent == \A f \in WithCmds \ Quiet : Settled(f) /\ Lines[f] > 0 => Current(f)

\* When make exits with success, every target it has been through is up to date.
UpToDate ==
  pc = "exited" /\ status = 0 =>
    \A f \in WithCmds \ Quiet : f \in updated /\ Lines[f] > 0 => Current(f)

\* With -k a failure keeps nothing from being considered that does not depend on it.
NothingSkipped ==
  pc = "exited" /\ keep_going_flag =>
    \A f \in Files : f \in updated => \A d \in LookedAt(f) \ Intermediate : d \in updated

\* A file that cannot just be taken for made when it is missing or out of date.
NeedsMaking(f) == IF f \in WithCmds THEN Lines[f] > 0 ELSE f \notin is_target

\* make exits with 0 exactly when every goal is finished and nothing failed on the
\* way: no failure gets lost between the target and the goals above it.  With -q it
\* exits with 0 exactly when nothing the goals depend on that has commands, or no rule,
\* is missing or out of date.
ExitStatus ==
  pc = "exited" =>
    /\ status = 0 <=> /\ \A f \in Range(Goals) : f \in updated
                      /\ \A f \in Files : update_status[f] <= 0
    /\ question_flag => (status = 0 <=> ~\E f \in Below : NeedsMaking(f) /\ OutOfDate(f))

\* update_goal_chain's comment: the goals are updated until they are all finished.
Termination == <>Over
-----------------------------------------------------------------------------
(* The inductive invariant of the walk, for makefiles in which no           *)
(* intermediate file depends on itself.                                    *)

\* Everything a file depends on, however indirectly.
DependsOn ==
  [f \in Files |->
     LET Closed == {S \in SUBSET Files : /\ Range(Deps[f]) \subseteq S
                                        /\ \A d \in S : Range(Deps[d]) \subseteq S}
     IN  {d \in Files : \A S \in Closed : d \in S}]
NoIntermediateCycle == \A f \in Intermediate : f \notin DependsOn[f]

\* There are frames only during the walk, every file considered has a status, and
\* dependencies are dropped, never added.
PlacesInv ==
  /\ pc \notin {"walk", "new_job", "died"} => stack = <<>>
  /\ pc \in {"walk", "new_job", "considered"} => g <= Len(goals)
  /\ \A f \in updated : update_status[f] \in Statuses
  /\ \A f \in Files : Range(deps[f]) \subseteq Range(Deps[f])

\* The places of a call that waits for another, and of one that is under way.
Calling == {"file", "checked", "inter_done"}
UpdatePlaces == {"entry", "deps", "checked", "inter", "inter_done", "decide", "remake", "job"}
CheckPlaces == {"entry", "file", "deps", "checked"}

\* Called(k): frame k has called the function and the file of the frame above it.
Called(k) ==
  /\ stack[k].at \in Calling
  /\ stack[k].at = "file" => /\ stack[k - 1].fn = "update_file"
                             /\ stack[k - 1].file = stack[k].file
  /\ stack[k].at = "checked" => stack[k - 1].fn = "check_dep"
  /\ stack[k].at = "inter_done" => stack[k - 1].fn = "update_file"
  /\ stack[k].at \in {"checked", "inter_done"} =>
       stack[k - 1].file = deps[stack[k].file][stack[k].i]

\* Where a frame may be, and the dependency it has called for.
Placed(frame) ==
  /\ frame.at \in (IF frame.fn = "update_file" THEN UpdatePlaces ELSE CheckPlaces)
  /\ frame.at \in {"checked", "inter_done"} => frame.i <= Len(deps[frame.file])

TopInv == /\ pc = "new_job" => Top.fn = "update_file" /\ Top.at = "job"
          /\ pc = "walk" => Top.at # "job"
NestInv ==
  /\ \A k \in 1 .. Len(stack) : Placed(stack[k])
  /\ \A k \in 2 .. Len(stack) : Called(k)

\* A file is walked through by one call, or by check_dep and the update_file it calls;
\* each on behalf of a file that depends on it.
DistinctInv ==
  \A k, l \in 1 .. Len(stack) : k < l =>
    /\ stack[k].file = stack[l].file => l = k + 1 /\ stack[l].at = "file"
    /\ stack[k].file \in {stack[l].file} \cup DependsOn[stack[l].file]

\* The flag `updating' is set for exactly the files of the calls that have set it and
\* not reset it; a check_dep may find that the update_file it has called did.
Marks(frame) == \/ frame.fn = "check_dep"
                \/ frame.at \in {"deps", "checked", "inter", "inter_done", "decide"}
ResetAbove(k) == /\ stack[k].at = "file"
                 /\ k = 1 \/ (k = 2 /\ stack[1].at \in {"remake", "job"})
UpdatingInv ==
  /\ \A f \in updating : \E k \in 1 .. Len(stack) : stack[k].file = f /\ Marks(stack[k])
  /\ \A k \in 1 .. Len(stack) :
       Marks(stack[k]) => stack[k].file \in updating \/ ResetAbove(k)

StackInv == TopInv /\ NestInv /\ DistinctInv /\ UpdatingInv
WalkInv == TypeOK /\ PlacesInv /\ StackInv
-----------------------------------------------------------------------------
(* The inductive invariant of the targets, for makefiles in which besides   *)
(* no intermediate file is made by way of two others (see StillRunning).    *)

NoLongChain ==
  \A f \in Intermediate : \A d \in Range(Deps[f]) \cap Intermediate :
    Range(Deps[d]) \cap Intermediate = {}

\* What has been considered is not being made, but for a mark that check_dep may leave
\* on an intermediate file; what is being made is made from what is settled.
TargetsInv ==
  /\ \A f \in updated :
       /\ f \notin children /\ command_state[f] \in {"finished", "deps_running"}
       /\ f \notin Intermediate => command_state[f] = "finished"
  /\ \A f \in Files \ updated : update_status[f] = -1
  /\ StillRunning /\ \A f \in children : \A d \in Range(deps[f]) : Settled(d)
  /\ \A f \in Files : Settled(f) =>
       /\ \A d \in Range(deps[f]) \ Intermediate : Settled(d)
       /\ Range(Deps[f]) \cap Intermediate = {} => command_state[f] = "finished"
\* Times remembered are right, and intermediate files lose no dependency.
TimesInv == /\ \A f \in Files : last_mtime[f] \in {Unknown, disk[f]} /\ disk[f] <= now
            /\ \A f \in Intermediate : deps[f] = Deps[f]

\* A file, and what an intermediate file is looked into for.
Reach ==
  [f \in Files |->
     LET Closed == {S \in SUBSET Files :
                      f \in S /\ \A d \in S \cap Intermediate : Range(Deps[d]) \subseteq S}
     IN  {d \in Files : \A S \in Closed : d \in S}]
\* One of those is newer than t, or missing for good.
Shows(d, t) ==
  \E e \in Reach[d] : disk[e] > t \/ (disk[e] = NoTime /\ e \in updated \ Intermediate)

\* The dependencies that the (first) loop of a call has been through.
Through(frame) ==
  {deps[frame.file][m] : m \in {n \in 1 .. Len(deps[frame.file]) :
                                  frame.at \in {"deps", "checked"} => n < frame.i}}

\* A call of update_file knows its dependencies to be settled, unless it has to wait or
\* has failed; and if the target must be made, it is out of date.
UpdateInv(frame) ==
  frame.fn = "update_file" /\ frame.at # "entry" =>
    /\ frame.at = "job" <=> frame.file \in updated \cup children
    /\ frame.this_mtime = disk[frame.file] \/ frame.at = "job"
    /\ frame.at = "remake" => frame.dep_status = 0 /\ ~frame.running
    /\ frame.dep_status = 0 /\ ~frame.running /\ frame.at # "job" =>
         /\ \A d \in Through(frame) \ Intermediate :
              Settled(d) /\ (frame.must_make \/ disk[d] # NoTime)
         /\ frame.must_make => \/ disk[frame.file] = NoTime
                               \/ \E d \in Through(frame) : Shows(d, frame.this_mtime)
         /\ frame.at \in {"inter", "inter_done"} =>
              /\ frame.must_make
              /\ \A m \in 1 .. Len(deps[frame.file]) :
                   m < frame.i => Settled(deps[frame.file][m])
         /\ frame.at \in {"decide", "remake"} /\ frame.must_make =>
              \A d \in Range(deps[frame.file]) : Settled(d)

\* A call of check_dep that is to have the target made has seen why, unless it has to wait.
CheckInv(frame) ==
  frame.fn = "check_dep" =>
    /\ frame.at = "file" => frame.file \notin Intermediate
    /\ frame.at \in {"deps", "checked"} =>
         /\ frame.file \in Intermediate
         /\ frame.must_make /\ frame.dep_status = 0
              /\ command_state[frame.file] # "deps_running" =>
                \E d \in Through(frame) : Shows(d, frame.this_mtime)

\* What the result of a call says of the dependency it was about.
RetInv ==
  pc = "walk" =>
    /\ Top.at = "file" /\ ret.status = 0 /\ ~BeingMade(File) => Settled(File)
    /\ Top.at = "inter_done" /\ ret.status = 0 /\ ~BeingMade(Dep) => Settled(Dep)
    /\ Top.at = "checked" /\ ret.status = 0 /\ ~BeingMade(Dep) =>
         /\ Dep \notin Intermediate => Settled(Dep) /\ (ret.must_make \/ disk[Dep] # NoTime)
         /\ ret.must_make => Shows(Dep, Top.this_mtime)

CallsInv == /\ \A frame \in Range(stack) :
                 /\ frame.at = "entry" => frame.i = 1 /\ ~frame.must_make
                 /\ UpdateInv(frame) /\ CheckInv(frame)
            /\ \A k \in 2 .. Len(stack) : stack[k].at = "checked" =>
                                            stack[k - 1].this_mtime = stack[k].this_mtime

MadeInv == WalkInv /\ TargetsInv /\ TimesInv /\ CallsInv /\ RetInv
-----------------------------------------------------------------------------
(* The inductive invariant of what has been considered, for the same        *)
(* makefiles.                                                              *)

\* All a dependency is looked into for has been considered; and, if the status is still
\* 0, has succeeded and is not newer than t.
Unneeded(d, st, t) ==
  \A e \in Reach[d] \ Intermediate :
    e \in updated /\ (st = 0 => update_status[e] = 0 /\ disk[e] <= t)

\* What a target was looked at for has been considered when the target has, unless an
\* error has kept make from it; and a target that has succeeded is up to date.
ConsideredInv ==
  /\ \A f \in updated : update_status[f] = 0 \/ keep_going_flag =>
       \A d \in Range(deps[f]) : \A e \in Reach[d] \ Intermediate :
         e \in updated /\ (update_status[f] = 0 => update_status[e] = 0)
  /\ SettledCurrent

\* The call will have its target wait, or that of its caller.
Waits(frame) == IF frame.fn = "update_file" THEN frame.running
                ELSE command_state[frame.file] = "deps_running"

\* What a call knows of the dependencies it has been through: nothing has been left out,
\* and nothing is newer that does not have the target made.
LoopInv(frame) ==
  frame.at \notin {"entry", "file", "job"} =>
    /\ frame.fn = "update_file" /\ ~frame.must_make => frame.this_mtime # NoTime
    /\ (frame.dep_status = 0 \/ keep_going_flag) /\ ~Waits(frame) =>
         /\ Through(frame) \ Intermediate \subseteq updated
         /\ ~frame.must_make =>
              \A d \in Through(frame) : Unneeded(d, frame.dep_status, frame.this_mtime)
         /\ frame.at \in {"inter", "inter_done"} =>
              \A m \in 1 .. Len(deps[frame.file]) :
                m < frame.i => deps[frame.file][m] \in updated
         /\ frame.at \in {"decide", "remake"} /\ frame.must_make =>
              Range(deps[frame.file]) \subseteq updated
LoopsInv == \A frame \in Range(stack) : LoopInv(frame)

\* What the result of a call says besides RetInv.
ResultInv ==
  pc = "walk" =>
    /\ Top.at = "file" /\ ~BeingMade(File) => File \in updated
    /\ Top.at \in {"inter_done", "checked"} /\ ~BeingMade(Dep) =>
         Dep \in updated \/ (Top.at = "checked" /\ Dep \in Intermediate)
    /\ Top.at = "checked" /\ ~BeingMade(Dep) /\ ~ret.must_make
         /\ (ret.status = 0 \/ keep_going_flag) => Unneeded(Dep, ret.status, Top.this_mtime)

DoneInv == MadeInv /\ ConsideredInv /\ LoopsInv /\ ResultInv
-----------------------------------------------------------------------------
(* The inductive invariant of make's exit status, for the same makefiles.   *)

\* A set with the goals and everything the files in it depend on.
IsClosed(S) == Range(Goals) \subseteq S /\ \A f \in S : Range(deps[f]) \subseteq S

\* What has been considered is what the goals depend on, however indirectly, although
\* dependencies have been dropped: the walk comes from a goal.  A goal off the chain has
\* been considered, and has succeeded if the status is 0.
GoalsInv ==
  /\ \A S \in SUBSET Files : IsClosed(S) => updated \cup children \subseteq S
  /\ stack # <<>> => stack[Len(stack)].file \in Range(Goals)
  /\ Range(goals) \subseteq Range(Goals)
  /\ \A f \in Range(Goals) \ Range(goals) :
       f \in updated /\ (status = 0 => update_status[f] = 0)
  /\ pc = "exited" => goals = <<>>

\* An error that is known of is that of a target.
Failed(f) == update_status[f] > 0
ErrorsInv ==
  pc # "died" =>
    /\ status # 0 \/ ret.status # 0 \/ (\E frame \in Range(stack) : frame.dep_status # 0) =>
         \E f \in Files : Failed(f)
    /\ ~keep_going_flag /\ ~question_flag /\ ~ForkMayFail => \A f \in Files : ~Failed(f)

\* With -q nothing is made; what has succeeded was as it should be, and something is to be
\* made if anything failed.
QuestionInv ==
  question_flag /\ Intermediate = {} =>
    /\ children = {}
    /\ \A f \in Files : NeedsMaking(f) /\ Settled(f) => ~OutOfDate(f)
    /\ (\E f \in Files : Failed(f)) => \E f \in updated : NeedsMaking(f) /\ OutOfDate(f)

ExitInv == DoneInv /\ GoalsInv /\ ErrorsInv /\ QuestionInv

\* When make exits with success, no target but an intermediate one has failed.
NoFailureLost == pc = "exited" /\ status = 0 => \A f \in updated \ Intermediate : Settled(f)
=============================================================================
